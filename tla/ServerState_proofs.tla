--------------------------- MODULE ServerState_proofs ---------------------------
(***************************************************************************)
(* Proofs about what the root server's threads share: Membership (who is   *)
(* there and what has been reported, for any finite set of clients and any *)
(* reports) and WebState (the payloads made of the graph, for any number   *)
(* of client threads and web threads, of reports and of writes to it).     *)
(***************************************************************************)
EXTENDS Membership, WebState, FiniteSetTheorems, TLAPS

-----------------------------------------------------------------------------
(* Membership: the dead leave nothing, and no reported link is lost. *)

\* The heartbeat thread will drop the entry of c in controller_to_switches.
HeartbeatDrops(c) == victim[Heartbeat] = c /\ pc[Heartbeat] \in {"switches", "del switches"}

\* How far a thread whose receive loop has ended has come with its cleanup, or the
\* heartbeat thread in its place: what is gone stays gone.
EndedAt(c) ==
    /\ victim[c] = c
    /\ sock[c] = "none" => pc[c] = "none"
    /\ pc[c] = "done" => c \in leaving
    /\ pc[c] \in {"none", "recv", "report"} => c \notin leaving
    /\ c \in leaving =>
         /\ pc[c] \in {"switches", "del switches", "done"} \cup Updating => c \notin DOMAIN topo
         /\ pc[c] = "done" \/ pc[c] \in Updating \/ (pc[c] = "del topo" /\ c \notin DOMAIN topo) =>
              c \notin controller_to_switches \/ HeartbeatDrops(c)

Ended == \A c \in Clients : EndedAt(c)

\* The thread a adds the links of c before its rebuild ends: it has yet to begin one, or
\* nothing has changed the size of topo since it began, and it has not been past c.
WillAdd(a, c) ==
    \/ pc[a] \in {"switches", "update", "iterate"}
    \/ pc[a] = "del switches" /\ victim[a] \in controller_to_switches
    \/ /\ pc[a] = "walk"
       /\ size[a] = Cardinality(DOMAIN topo)
       /\ c \notin visited[a] \/ <<c, topo[c]>> \in visit[a]

Rebuilt ==
    \A c \in DOMAIN topo : <<c, topo[c]>> \in G \/ \E a \in Actors : WillAdd(a, c)

MInv == TypeOK /\ Ended /\ Rebuilt

-----------------------------------------------------------------------------
Labels == {"none", "recv", "report", "done", "start", "dead", "scan"} \cup Cleaning \cup Updating

\* A step that sends one thread to a label.
LEMMA GotoTyped ==
    ASSUME TypeOK, NEW a \in Actors, NEW label \in Labels, Goto(a, label)
    PROVE  /\ pc' \in [Actors -> Labels] /\ pc'[a] = label
           /\ \A b \in Actors \ {a} : pc'[b] = pc[b]
  BY DEF Goto, TypeOK, Labels

LEMMA SizeOfTopo == TypeOK => Cardinality(DOMAIN topo) \in 0..Cardinality(Clients)
<1> SUFFICES ASSUME TypeOK PROVE Cardinality(DOMAIN topo) \in 0..Cardinality(Clients)
  OBVIOUS
<1>1. DOMAIN topo \subseteq Clients
  BY DEF TypeOK
<1>2. IsFiniteSet(Clients)
  BY ConstantsAssumption
<1>3. IsFiniteSet(DOMAIN topo) /\ Cardinality(DOMAIN topo) <= Cardinality(Clients)
  BY <1>1, <1>2, FS_Subset
<1>4. Cardinality(DOMAIN topo) \in Nat /\ Cardinality(Clients) \in Nat
  BY <1>2, <1>3, FS_CardinalityType
<1> QED BY <1>3, <1>4

\* Where every rebuild that is yet to come is still to come, none has lost a link.
LEMMA RebuiltKeeps ==
    ASSUME MInv, UNCHANGED <<topo, G, walk>>,
           controller_to_switches \subseteq controller_to_switches',
           \A a \in Actors : pc[a] \in {"switches", "del switches"} \cup Updating =>
             pc'[a] = pc[a] /\ victim'[a] = victim[a]
    PROVE  Rebuilt'
<1> SUFFICES ASSUME NEW c \in DOMAIN topo', <<c, topo'[c]>> \notin G'
             PROVE  \E a \in Actors : WillAdd(a, c)'
  BY DEF Rebuilt
<1>1. PICK a \in Actors : WillAdd(a, c)
  BY DEF MInv, Rebuilt, walk
<1>2. WillAdd(a, c)'
  BY <1>1 DEF WillAdd, Updating, walk
<1> QED BY <1>2

\* A thread that is about to rebuild the graph adds every link.
LEMMA RebuiltBy ==
    ASSUME NEW a \in Actors, pc'[a] \in {"switches", "update", "iterate"}
    PROVE  Rebuilt'
  BY DEF Rebuilt, WillAdd

-----------------------------------------------------------------------------
(* Main thread, controllers and clock *)

LEMMA Arrivals ==
    ASSUME MInv,
           \/ Start \/ Register \/ FirstCheck \/ Scan
           \/ \E c \in Clients : \/ Accept(c) \/ PeerEnds(c) \/ Silence(c) \/ ReadHeartbeat(c)
                                 \/ ReadTopo(c) \/ ReadDisconnect(c) \/ EndOfFile(c) \/ Expire(c)
    PROVE  MInv'
<1> USE DEF MInv
<1>1. CASE Start \/ Scan \/ Register \/ \E c \in Clients : PeerEnds(c) \/ Silence(c) \/ ReadHeartbeat(c)
  <2>1. Cardinality({}) = 0
    BY FS_EmptySet
  <2>2. ASSUME Start \/ Scan \/ Register
        PROVE  TypeOK' /\ UNCHANGED <<topo, G, walk, controller_to_switches, pc, victim, leaving, sock>>
    <3>1. CASE Start \/ Scan
      BY <3>1 DEF Start, Scan, TypeOK, tables, walk
    <3>2. CASE Register
      BY <2>1, <3>2 DEF Register, TypeOK, walk
    <3>3. TypeOK'
      BY <2>2, <3>1, <3>2
    <3> QED BY <2>2, <3>3 DEF Start, Scan, Register
  <2>3. ASSUME NEW c \in Clients, PeerEnds(c) \/ Silence(c) \/ ReadHeartbeat(c)
        PROVE  TypeOK' /\ UNCHANGED <<topo, G, walk, controller_to_switches, pc, victim, leaving, sock>>
    <3>1. TypeOK'
      BY <2>3 DEF PeerEnds, Silence, ReadHeartbeat, TypeOK, tables, walk
    <3> QED BY <2>3, <3>1 DEF PeerEnds, Silence, ReadHeartbeat
  <2>4. TypeOK' /\ UNCHANGED <<topo, G, walk, controller_to_switches, pc, victim, leaving, sock>>
    BY <1>1, <2>2, <2>3
  <2>5. Ended'
    BY <2>4 DEF Ended, EndedAt, HeartbeatDrops
  <2> QED BY <2>4, <2>5, RebuiltKeeps
<1>2. CASE FirstCheck \/ \E c \in Clients : Expire(c)
  <2>1. /\ pc[Heartbeat] \in {"start", "scan"} /\ pc'[Heartbeat] \in {"scan", "dead", "pop"}
        /\ \A a \in Clients : pc'[a] = pc[a] /\ victim'[a] = victim[a]
        /\ UNCHANGED <<topo, G, walk, controller_to_switches, leaving, sock>>
    BY <1>2, ConstantsAssumption DEF FirstCheck, Expire, Goto, TypeOK, Actors
  <2>2. TypeOK'
    <3>1. pc' \in [Actors -> Labels]
      <4>1. \E label \in Labels : Goto(Heartbeat, label)
        BY <1>2 DEF FirstCheck, Expire, Labels, Cleaning
      <4> QED BY <4>1, GotoTyped DEF Actors
    <3>2. CASE FirstCheck
      BY <3>1, <3>2 DEF FirstCheck, TypeOK, Labels, tables, walk
    <3>3. ASSUME NEW c \in Clients, Expire(c) PROVE TypeOK'
      BY <3>1, <3>3 DEF Expire, TypeOK, Labels, tables, walk
    <3> QED BY <1>2, <3>2, <3>3
  <2>3. Ended'
    BY <2>1, ConstantsAssumption DEF Ended, EndedAt, HeartbeatDrops
  <2> QED BY <2>1, <2>2, <2>3, RebuiltKeeps DEF Updating, Actors
<1>3. ASSUME NEW c \in Clients, Accept(c) \/ ReadTopo(c) \/ ReadDisconnect(c) \/ EndOfFile(c)
      PROVE  MInv'
  <2>1. /\ pc[c] \in {"none", "recv"} /\ pc'[c] \in {"recv", "report", "pop"}
        /\ \A a \in Actors \ {c} : pc'[a] = pc[a] /\ victim'[a] = victim[a]
        /\ UNCHANGED <<topo, G, walk>>
        /\ controller_to_switches \subseteq controller_to_switches'
        /\ controller_to_switches' \subseteq controller_to_switches \cup {c}
        /\ leaving \subseteq leaving' /\ leaving' \subseteq leaving \cup {c}
        /\ c \in leaving' => pc'[c] = "pop"
        /\ victim'[c] = c /\ sock'[c] # "none"
        /\ \A a \in Clients \ {c} : sock'[a] = sock[a]
    <3>1. EndedAt(c) /\ c \in Actors /\ (Accept(c) => pc[c] = "none")
      BY DEF Accept, Ended, EndedAt, Actors
    <3>2. CASE Accept(c)
      BY <3>1, <3>2 DEF Accept, Goto, TypeOK, EndedAt
    <3>3. CASE ReadTopo(c)
      BY <3>1, <3>3 DEF ReadTopo, Goto, TypeOK, EndedAt
    <3>4. CASE ReadDisconnect(c)
      BY <3>1, <3>4 DEF ReadDisconnect, Goto, TypeOK, EndedAt
    <3>5. CASE EndOfFile(c)
      BY <3>1, <3>5 DEF EndOfFile, AfterEnd, Goto, TypeOK, EndedAt
    <3> QED BY <1>3, <3>2, <3>3, <3>4, <3>5
  <2>2. TypeOK'
    <3>1. Cardinality({c}) = 1
      BY FS_Singleton
    <3>2. pc' \in [Actors -> Labels]
      <4>1. \E label \in Labels : Goto(c, label)
        BY <1>3 DEF Accept, ReadTopo, ReadDisconnect, EndOfFile, AfterEnd, Labels, Cleaning
      <4> QED BY <4>1, GotoTyped DEF Actors
    <3>3. CASE Accept(c)
      BY <3>1, <3>2, <3>3 DEF Accept, TypeOK, Labels, tables, walk
    <3>4. CASE ReadTopo(c)
      BY <3>2, <3>4, ConstantsAssumption DEF ReadTopo, TypeOK, Labels, tables, walk
    <3>5. CASE ReadDisconnect(c) \/ EndOfFile(c)
      BY <3>2, <3>5 DEF ReadDisconnect, EndOfFile, TypeOK, Labels, tables, walk
    <3> QED BY <1>3, <3>3, <3>4, <3>5
  <2>3. EndedAt(c)'
    BY <2>1 DEF Ended, EndedAt, Updating
  <2>4. ASSUME NEW d \in Clients \ {c} PROVE EndedAt(d)'
    <3>1. HeartbeatDrops(d) => HeartbeatDrops(d)'
      BY <2>1, ConstantsAssumption DEF HeartbeatDrops, Actors
    <3> QED BY <2>1, <3>1 DEF Ended, EndedAt, Actors
  <2>5. Ended'
    BY <2>3, <2>4 DEF Ended
  <2> QED BY <2>1, <2>2, <2>5, RebuiltKeeps DEF Updating
<1> QED BY <1>1, <1>2, <1>3

-----------------------------------------------------------------------------
(* handle_topo_message *)

LEMMA StoreTopoKeeps ==
    ASSUME MInv, NEW c \in Clients, StoreTopo(c)
    PROVE  MInv'
<1> USE DEF MInv
<1>1. /\ pc[c] = "report" /\ pc'[c] = "update"
      /\ \A a \in Actors \ {c} : pc'[a] = pc[a]
      /\ UNCHANGED <<controller_to_switches, leaving, victim, sock>>
  BY DEF StoreTopo, AfterReport, Goto, TypeOK, Actors
<1>2. PICK r \in Reports : topo' = [d \in DOMAIN topo \cup {c} |-> IF d = c THEN r ELSE topo[d]]
  BY DEF StoreTopo
<1>3. DOMAIN topo' = DOMAIN topo \cup {c}
  BY <1>2
<1>4. TypeOK'
  <2>1. DOMAIN topo' \subseteq Clients /\ \A d \in DOMAIN topo' : topo'[d] \in Reports
    BY <1>2 DEF TypeOK
  <2> QED BY <2>1 DEF StoreTopo, AfterReport, Goto, TypeOK, tables, walk, Actors, Updating
<1>5. Ended'
  BY <1>1, <1>3, ConstantsAssumption DEF Ended, EndedAt, HeartbeatDrops, Actors, Updating
<1>6. Rebuilt'
  BY <1>1, RebuiltBy DEF Actors
<1> QED BY <1>4, <1>5, <1>6

-----------------------------------------------------------------------------
(* cleanup_disconnected_client *)

\* A step of one thread: what it must leave right of the others and of itself.
LEMMA PopKeeps ==
    ASSUME MInv, NEW a \in Actors, Pop(a) \/ TestTopo(a)
    PROVE  MInv'
<1> USE DEF MInv
<1>1. /\ pc[a] \in {"pop", "topo"} /\ pc'[a] \in {"topo", "del topo", "switches"}
      /\ \A b \in Actors \ {a} : pc'[b] = pc[b]
      /\ UNCHANGED <<topo, G, walk, controller_to_switches, leaving, victim>>
      /\ \A c \in Clients : sock'[c] = "none" => sock[c] = "none"
      /\ pc'[a] = "del topo" => victim[a] \in DOMAIN topo
      /\ pc'[a] = "switches" => victim[a] \notin DOMAIN topo
  <2>1. pc \in [Actors -> Labels] /\ sock \in [Clients -> {"none", "open", "closed"}]
    BY DEF TypeOK, Labels
  <2>2. CASE Pop(a)
    BY <2>1, <2>2 DEF Pop, Goto
  <2>3. CASE TestTopo(a)
    BY <2>1, <2>3 DEF TestTopo, Goto
  <2> QED BY <2>2, <2>3
<1>2. TypeOK'
  <2>1. pc' \in [Actors -> Labels]
    <3>1. \E label \in Labels : Goto(a, label)
      BY DEF Pop, TestTopo, Labels, Cleaning
    <3> QED BY <3>1, GotoTyped
  <2>2. CASE Pop(a)
    BY <2>1, <2>2 DEF Pop, HeartbeatsWithout, TypeOK, Labels, walk
  <2>3. CASE TestTopo(a)
    BY <2>1, <2>3 DEF TestTopo, TypeOK, Labels, tables, walk
  <2> QED BY <2>2, <2>3
<1>3. Ended'
  <2>1. CASE a = Heartbeat
    <3>1. ASSUME NEW c \in Clients PROVE EndedAt(c)'
      <4>1. EndedAt(c) /\ c # a /\ pc'[c] = pc[c] /\ ~ HeartbeatDrops(c)
        BY <1>1, <2>1, ConstantsAssumption DEF Ended, HeartbeatDrops, Actors
      <4> QED BY <1>1, <4>1 DEF EndedAt
    <3> QED BY <3>1 DEF Ended
  <2>2. CASE a \in Clients
    <3>1. EndedAt(a)'
      BY <1>1, <2>2, ConstantsAssumption DEF Ended, EndedAt, HeartbeatDrops, Actors, Updating
    <3>2. ASSUME NEW c \in Clients \ {a} PROVE EndedAt(c)'
      BY <1>1, <2>2, ConstantsAssumption DEF Ended, EndedAt, HeartbeatDrops, Actors
    <3> QED BY <3>1, <3>2 DEF Ended
  <2> QED BY <2>1, <2>2 DEF Actors
<1>4. Rebuilt'
  BY <1>1, RebuiltKeeps DEF Updating
<1> QED BY <1>2, <1>3, <1>4

LEMMA DelTopoKeeps ==
    ASSUME MInv, NEW a \in Actors, DelTopo(a)
    PROVE  MInv'
<1> USE DEF MInv
<1>1. /\ pc[a] = "del topo"
      /\ pc'[a] = IF victim[a] \in DOMAIN topo THEN "switches" ELSE Back(a)
      /\ \A b \in Actors \ {a} : pc'[b] = pc[b]
      /\ topo' = [c \in DOMAIN topo \ {victim[a]} |-> topo[c]]
      /\ UNCHANGED <<G, walk, controller_to_switches, leaving, victim, sock>>
  BY DEF DelTopo, Goto, TypeOK, Actors
<1>2. /\ DOMAIN topo' = DOMAIN topo \ {victim[a]}
      /\ \A c \in DOMAIN topo' : topo'[c] = topo[c]
  BY <1>1
<1>3. TypeOK'
  <2>1. pc' \in [Actors -> Labels]
    <3>1. \E label \in Labels : Goto(a, label)
      BY DEF DelTopo, Back, Labels, Cleaning
    <3> QED BY <3>1, GotoTyped
  <2>2. DOMAIN topo' \subseteq Clients /\ \A c \in DOMAIN topo' : topo'[c] \in Reports
    BY <1>2 DEF TypeOK
  <2> QED BY <2>1, <2>2 DEF DelTopo, TypeOK, Labels, tables, walk
<1>4. Ended'
  <2>1. CASE a = Heartbeat
    <3>1. ASSUME NEW c \in Clients PROVE EndedAt(c)'
      <4>1. EndedAt(c) /\ c # a /\ pc'[c] = pc[c] /\ ~ HeartbeatDrops(c)
        BY <1>1, <2>1, ConstantsAssumption DEF Ended, HeartbeatDrops, Actors
      <4>2. c \in DOMAIN topo /\ c \notin DOMAIN topo' => HeartbeatDrops(c)'
        BY <1>1, <1>2, <2>1 DEF HeartbeatDrops
      <4> QED BY <1>1, <1>2, <4>1, <4>2 DEF EndedAt
    <3> QED BY <3>1 DEF Ended
  <2>2. CASE a \in Clients
    <3>1. EndedAt(a)'
      <4>1. EndedAt(a) /\ victim[a] = a /\ pc'[Heartbeat] = pc[Heartbeat]
        BY <1>1, <2>2, ConstantsAssumption DEF Ended, EndedAt, Actors
      <4> QED BY <1>1, <1>2, <4>1 DEF EndedAt, HeartbeatDrops, Updating, Back
    <3>2. ASSUME NEW c \in Clients \ {a} PROVE EndedAt(c)'
      BY <1>1, <1>2, <2>2, ConstantsAssumption DEF Ended, EndedAt, HeartbeatDrops, Actors
    <3> QED BY <3>1, <3>2 DEF Ended
  <2> QED BY <2>1, <2>2 DEF Actors
<1>5. Rebuilt'
  <2>1. CASE victim[a] \in DOMAIN topo
    BY <1>1, <2>1, RebuiltBy
  <2>2. CASE victim[a] \notin DOMAIN topo
    <3>1. DOMAIN topo' = DOMAIN topo
      BY <1>2, <2>2
    <3> SUFFICES ASSUME NEW c \in DOMAIN topo, <<c, topo[c]>> \notin G
                 PROVE  \E b \in Actors : WillAdd(b, c)'
      BY <1>1, <1>2, <3>1 DEF Rebuilt
    <3>2. PICK b \in Actors : WillAdd(b, c)
      BY DEF Rebuilt
    <3>3. b # a
      BY <1>1, <3>2 DEF WillAdd
    <3>4. WillAdd(b, c)'
      BY <1>1, <1>2, <3>1, <3>2, <3>3 DEF WillAdd, walk
    <3> QED BY <3>4
  <2> QED BY <2>1, <2>2
<1> QED BY <1>3, <1>4, <1>5

LEMMA SwitchesKeep ==
    ASSUME MInv, NEW a \in Actors, TestSwitches(a) \/ DelSwitches(a)
    PROVE  MInv'
<1> USE DEF MInv
<1>1. /\ pc[a] \in {"switches", "del switches"}
      /\ \A b \in Actors \ {a} : pc'[b] = pc[b]
      /\ UNCHANGED <<topo, G, walk, leaving, victim, sock>>
      /\ pc[a] = "switches" =>
           /\ pc'[a] = IF victim[a] \in controller_to_switches THEN "del switches" ELSE "update"
           /\ UNCHANGED controller_to_switches
      /\ pc[a] = "del switches" =>
           /\ pc'[a] = IF victim[a] \in controller_to_switches THEN "update" ELSE Back(a)
           /\ controller_to_switches' = controller_to_switches \ {victim[a]}
  BY DEF TestSwitches, DelSwitches, Goto, TypeOK, Actors
<1>2. TypeOK'
  <2>1. pc' \in [Actors -> Labels]
    <3>1. \E label \in Labels : Goto(a, label)
      BY DEF TestSwitches, DelSwitches, Back, Labels, Cleaning, Updating
    <3> QED BY <3>1, GotoTyped
  <2>2. CASE TestSwitches(a)
    BY <2>1, <2>2 DEF TestSwitches, TypeOK, Labels, tables, walk
  <2>3. CASE DelSwitches(a)
    BY <2>1, <2>3 DEF DelSwitches, TypeOK, Labels, tables, walk
  <2> QED BY <2>2, <2>3
<1>3. Ended'
  <2>1. CASE a = Heartbeat
    <3>1. /\ pc[Heartbeat] \in {"switches", "del switches"}
          /\ pc'[Heartbeat] = "del switches" \/ victim[Heartbeat] \notin controller_to_switches'
          /\ controller_to_switches' \subseteq controller_to_switches
          /\ \A c \in Clients : pc'[c] = pc[c]
      BY <1>1, <2>1, ConstantsAssumption DEF Actors
    <3>2. ASSUME NEW c \in Clients PROVE EndedAt(c)'
      BY <1>1, <3>1 DEF Ended, EndedAt, HeartbeatDrops
    <3> QED BY <3>2 DEF Ended
  <2>2. CASE a \in Clients
    <3>1. EndedAt(a)'
      BY <1>1, <2>2, ConstantsAssumption DEF Ended, EndedAt, HeartbeatDrops, Actors, Updating, Back
    <3>2. ASSUME NEW c \in Clients \ {a} PROVE EndedAt(c)'
      BY <1>1, <2>2, ConstantsAssumption DEF Ended, EndedAt, HeartbeatDrops, Actors
    <3> QED BY <3>1, <3>2 DEF Ended
  <2> QED BY <2>1, <2>2 DEF Actors
<1>4. Rebuilt'
  <2>1. CASE pc'[a] = "update"
    BY <2>1, RebuiltBy
  <2>2. CASE pc'[a] # "update"
    <3> SUFFICES ASSUME NEW c \in DOMAIN topo, <<c, topo[c]>> \notin G
                 PROVE  \E b \in Actors : WillAdd(b, c)'
      BY <1>1 DEF Rebuilt
    <3>1. PICK b \in Actors : WillAdd(b, c)
      BY DEF Rebuilt
    <3>2. controller_to_switches' = controller_to_switches
      BY <1>1, <2>2
    <3>3. WillAdd(b, c)'
      BY <1>1, <2>2, <3>1, <3>2 DEF WillAdd, walk
    <3> QED BY <3>3
  <2> QED BY <2>1, <2>2
<1> QED BY <1>2, <1>3, <1>4

-----------------------------------------------------------------------------
(* update_graph *)

\* A step of a rebuild changes no table.
LEMMA EndedKeeps ==
    ASSUME MInv, NEW a \in Actors, pc[a] \in Updating,
           pc'[a] \in Updating \/ pc'[a] = Back(a),
           \A b \in Actors \ {a} : pc'[b] = pc[b],
           UNCHANGED <<topo, controller_to_switches, leaving, victim, sock>>
    PROVE  Ended'
<1> USE DEF MInv
<1> SUFFICES ASSUME NEW c \in Clients PROVE EndedAt(c)'
  BY DEF Ended
<1>1. EndedAt(c) /\ c \in Actors /\ c # Heartbeat /\ (c = a => Back(a) \in {"done", "recv"})
  BY ConstantsAssumption DEF Ended, Actors, Back
<1>2. HeartbeatDrops(c) => a # Heartbeat /\ HeartbeatDrops(c)'
  BY DEF HeartbeatDrops, Updating, Actors
<1>3. CASE c # a
  BY <1>1, <1>2, <1>3 DEF EndedAt
<1>4. CASE c = a
  BY <1>1, <1>2, <1>4 DEF EndedAt, Updating, Back
<1> QED BY <1>3, <1>4

LEMMA ClearKeeps ==
    ASSUME MInv, NEW a \in Actors, Clear(a) \/ Iterate(a)
    PROVE  MInv'
<1> USE DEF MInv
<1>1. /\ pc[a] \in Updating /\ pc'[a] \in {"iterate", "walk"}
      /\ \A b \in Actors \ {a} : pc'[b] = pc[b]
      /\ UNCHANGED <<topo, controller_to_switches, leaving, victim, sock>>
  BY DEF Clear, Iterate, Goto, TypeOK, Actors, Updating
<1>2. TypeOK'
  <2>1. pc' \in [Actors -> Labels]
    <3>1. \E label \in Labels : Goto(a, label)
      BY DEF Clear, Iterate, Labels, Updating
    <3> QED BY <3>1, GotoTyped
  <2>2. CASE Clear(a)
    BY <2>1, <2>2 DEF Clear, TypeOK, Labels, tables, walk
  <2>3. CASE Iterate(a)
    BY <2>1, <2>3, SizeOfTopo DEF Iterate, TypeOK, Labels, tables
  <2> QED BY <2>2, <2>3
<1>3. Rebuilt'
  <2>1. CASE pc'[a] = "iterate"
    BY <2>1, RebuiltBy
  <2>2. CASE pc'[a] # "iterate"
    <3>1. /\ size'[a] = Cardinality(DOMAIN topo) /\ visited'[a] = {} /\ pc'[a] = "walk"
      BY <1>1, <2>2 DEF Clear, Iterate, Goto, TypeOK
    <3> QED BY <1>1, <3>1 DEF Rebuilt, WillAdd
  <2> QED BY <2>1, <2>2
<1> QED BY <1>1, <1>2, <1>3, EndedKeeps DEF Updating

LEMMA WalkKeeps ==
    ASSUME MInv, NEW a \in Actors, Fetch(a) \/ AddLinks(a) \/ UpdateEnds(a)
    PROVE  MInv'
<1> USE DEF MInv
<1>1. /\ pc[a] = "walk" /\ pc'[a] \in {"walk", Back(a)}
      /\ \A b \in Actors \ {a} : pc'[b] = pc[b] /\ size'[b] = size[b] /\ visited'[b] = visited[b]
                                 /\ visit'[b] = visit[b]
      /\ UNCHANGED <<topo, controller_to_switches, leaving, victim, sock>>
      /\ G \subseteq G'
  BY DEF Fetch, AddLinks, UpdateEnds, Goto, TypeOK, Actors
<1>2. TypeOK'
  <2>1. CASE Fetch(a)
    BY <2>1 DEF Fetch, TypeOK, tables, Actors
  <2>2. CASE AddLinks(a)
    BY <2>2 DEF AddLinks, TypeOK, tables, Actors
  <2>3. CASE UpdateEnds(a)
    <3>1. Cardinality(Clients) \in Nat
      BY ConstantsAssumption, FS_CardinalityType
    <3> QED BY <2>3, <3>1 DEF UpdateEnds, Back, Goto, TypeOK, tables, Actors
  <2> QED BY <2>1, <2>2, <2>3
<1>3. Ended'
  BY <1>1, EndedKeeps DEF Updating
<1>4. Rebuilt'
  <2> SUFFICES ASSUME NEW c \in DOMAIN topo, <<c, topo[c]>> \notin G'
               PROVE  \E b \in Actors : WillAdd(b, c)'
    BY <1>1 DEF Rebuilt
  <2>1. PICK b \in Actors : WillAdd(b, c)
    BY <1>1 DEF Rebuilt
  <2>2. CASE b # a
    <3>1. WillAdd(b, c)'
      BY <1>1, <2>1, <2>2 DEF WillAdd
    <3> QED BY <3>1
  <2>3. CASE b = a
    <3>1. /\ size[a] = Cardinality(DOMAIN topo)
          /\ c \notin visited[a] \/ <<c, topo[c]>> \in visit[a]
      BY <1>1, <2>1, <2>3 DEF WillAdd
    <3>2. ~ UpdateEnds(a)
      BY <3>1 DEF UpdateEnds
    <3>3. CASE Fetch(a)
      <4>1. PICK d \in DOMAIN topo \ visited[a] :
              visit' = [visit EXCEPT ![a] = {<<d, topo[d]>>}]
              /\ visited' = [visited EXCEPT ![a] = @ \cup {d}]
        BY <3>3 DEF Fetch
      <4>2. visit'[a] = {<<d, topo[d]>>} /\ visited'[a] = visited[a] \cup {d}
        BY <4>1 DEF TypeOK
      <4>3. pc'[a] = "walk" /\ size'[a] = size[a] /\ visit[a] = {}
        BY <3>3 DEF Fetch
      <4>4. WillAdd(a, c)'
        BY <1>1, <3>1, <4>2, <4>3 DEF WillAdd
      <4> QED BY <4>4
    <3>4. CASE AddLinks(a)
      <4>1. /\ pc'[a] = "walk" /\ size'[a] = size[a] /\ visited'[a] = visited[a]
            /\ G' = G \cup visit[a]
        BY <3>4 DEF AddLinks
      <4>2. c \notin visited[a]
        BY <3>1, <4>1
      <4>3. WillAdd(a, c)'
        BY <1>1, <3>1, <4>1, <4>2 DEF WillAdd
      <4> QED BY <4>3
    <3> QED BY <3>2, <3>3, <3>4
  <2> QED BY <2>2, <2>3
<1> QED BY <1>2, <1>3, <1>4

-----------------------------------------------------------------------------
LEMMA MemberInit == Init => MInv
<1> SUFFICES ASSUME Init PROVE MInv
  OBVIOUS
<1>1. Cardinality({}) = 0 /\ Cardinality(Clients) \in Nat
  BY FS_EmptySet, FS_CardinalityType, ConstantsAssumption
<1>2. DOMAIN topo = {}
  BY DEF Init
<1>3. TypeOK
  <2>1. /\ pc \in [Actors -> Labels]
        /\ victim \in [Actors -> Clients \cup {Heartbeat}]
        /\ visited \in [Actors -> SUBSET Clients]
        /\ size \in [Actors -> 0..Cardinality(Clients)]
        /\ visit \in [Actors -> SUBSET (Clients \X Reports)]
    BY <1>1 DEF Init, Actors, Labels
  <2>2. reports \in [Clients -> 0..MaxReports]
    BY ConstantsAssumption DEF Init
  <2>3. /\ accepting \in SUBSET Clients /\ Cardinality(accepting) <= 1
        /\ \A c \in DOMAIN topo : topo[c] \in Reports
        /\ peer \in [Clients -> {"up", "gone", "silent"}]
        /\ sock \in [Clients -> {"none", "open", "closed"}]
    BY <1>1, <1>2 DEF Init
  <2> QED BY <1>2, <2>1, <2>2, <2>3 DEF Init, TypeOK, Labels
<1>4. Ended
  BY ConstantsAssumption DEF Init, Ended, EndedAt, Actors, Updating
<1>5. Rebuilt
  BY <1>2 DEF Rebuilt
<1> QED BY <1>3, <1>4, <1>5 DEF MInv

LEMMA MemberStep == MInv /\ [Next]_vars => MInv'
<1> SUFFICES ASSUME MInv, [Next]_vars PROVE MInv'
  OBVIOUS
<1>1. CASE UNCHANGED vars
  <2>1. TypeOK'
    BY <1>1 DEF MInv, TypeOK, vars, tables, walk
  <2>2. UNCHANGED <<topo, G, walk, controller_to_switches, pc, victim, leaving, sock>>
    BY <1>1 DEF vars
  <2>3. Ended'
    BY <2>2 DEF MInv, Ended, EndedAt, HeartbeatDrops
  <2> QED BY <2>1, <2>2, <2>3, RebuiltKeeps DEF MInv
<1>2. ASSUME NEW a \in Actors, Work(a) PROVE MInv'
  BY <1>2, PopKeeps, DelTopoKeeps, SwitchesKeep, ClearKeeps, WalkKeeps DEF Work
<1>3. ASSUME NEW c \in Clients, ClientThread(c) PROVE MInv'
  BY <1>2, <1>3, Arrivals, StoreTopoKeeps DEF ClientThread, Actors
<1>4. CASE HeartbeatThread
  BY <1>2, <1>4, Arrivals DEF HeartbeatThread, Actors
<1>5. CASE Next
  BY <1>3, <1>4, <1>5, Arrivals DEF Next
<1> QED BY <1>1, <1>5

\* MembershipInv: however the clients' threads and the heartbeat thread take turns in
\* cleaning up, a client whose thread has ended has left neither a report nor
\* switches on the server.
THEOREM MembershipInvHolds == Spec => []MembershipInv
<1>1. MInv => MembershipInv
  <2> SUFFICES ASSUME MInv, NEW c \in Clients, pc[c] = "done",
                      ~(victim[Heartbeat] = c /\ pc[Heartbeat] \in Cleaning)
               PROVE  c \notin DOMAIN topo /\ c \notin controller_to_switches
    BY DEF MembershipInv, DeadLeaveNothing, MInv
  <2> QED BY DEF MInv, Ended, EndedAt, HeartbeatDrops, Cleaning
<1> QED BY <1>1, MemberInit, MemberStep, PTL DEF Spec

\* NoLinkLost: whatever rebuilds of the graph clear each other's work or fail half-way,
\* the links of every report are in the graph when none is under way.
THEOREM NoLinkLostHolds == Spec => []NoLinkLost
<1>1. MInv => NoLinkLost
  <2> SUFFICES ASSUME MInv, AtRest, NEW c \in DOMAIN topo PROVE <<c, topo[c]>> \in G
    BY DEF NoLinkLost
  <2>1. \A a \in Actors : ~ WillAdd(a, c)
    BY DEF AtRest, WillAdd, Cleaning, Updating
  <2> QED BY <2>1 DEF MInv, Rebuilt
<1> QED BY <1>1, MemberInit, MemberStep, PTL DEF Spec

-----------------------------------------------------------------------------
(* WebState: no payload built before or during a rebuild is used after it, and no *)
(* answer is out of date. *)

-----------------------------------------------------------------------------
(* The invariant *)

Single(S) == \A x, y \in S : x = y

\* TypeOK, with the sets that stand for a value or none written without Cardinality.
WebLabels == {"idle", "stored", "rebuild", "mark", "build", "cache"}

ThreadsTyped ==
    /\ doing \in [Threads -> WebLabels]
    /\ raised \subseteq {w \in Writers : doing[w] = "rebuild"}
    /\ stores \in 0..MaxStores /\ draws \in 0..MaxDraws /\ marks \in 0..MaxMarks
    /\ unmarked \in BOOLEAN

StoreTyped ==
    /\ graph_writes \in Nat /\ version \in Nat /\ settled \in 0..graph_writes
    /\ _graph_cache \subseteq [version : 0..version, payload : Payloads]
    /\ Single(_graph_cache)

WebTyped ==
    /\ cache_version \in [Readers -> 0..version]
    /\ payload \in [Readers -> Payloads]
    /\ answer \in [Readers -> SUBSET Payloads]
    /\ \A r \in Readers : Single(answer[r])
    /\ asked \in [Readers -> 0..settled]

Types == ThreadsTyped /\ StoreTyped /\ WebTyped

\* A rebuild has written to the graph and has yet to mark it, or raised and did not.
Dirty == unmarked \/ \E w \in Writers : doing[w] \in {"rebuild", "mark"}

\* What a payload p read under the current version says: the graph, but for what a
\* rebuild that will mark it has written since, and in any case the last that settled.
Good(p, now, dirty, last) ==
    /\ p = [graph |-> now, torn |-> FALSE] \/ dirty
    /\ p.graph >= last

Building(r) == doing[r] \in {"build", "cache"}

\* An entry of the current version is good, and so is a payload that will become one;
\* a payload being built is no older than its request, whatever its version.
CacheInv ==
    /\ \A e \in _graph_cache : e.version = version => Good(e.payload, graph_writes, Dirty, settled)
    /\ \A r \in Readers : Building(r) =>
         /\ cache_version[r] = version => Good(payload[r], graph_writes, Dirty, settled)
         /\ payload[r].graph >= asked[r]

IInv == Types /\ CacheInv /\ AnswerCurrent

-----------------------------------------------------------------------------
LEMMA SingleIsOne ==
    ASSUME NEW S, Single(S)
    PROVE  Cardinality(S) <= 1
<1>1. CASE S = {}
  BY <1>1, FS_EmptySet
<1>2. ASSUME NEW x \in S PROVE Cardinality(S) <= 1
  <2>1. S = {x} BY <1>2 DEF Single
  <2> QED BY <2>1, FS_Singleton
<1> QED BY <1>1, <1>2

LEMMA InvariantImplies == IInv => WebInv /\ AnswerCurrent
<1> SUFFICES ASSUME IInv PROVE WebTypeOK /\ CacheFresh
  BY DEF WebInv, IInv
<1>1. WebTypeOK
  BY SingleIsOne DEF IInv, Types, ThreadsTyped, StoreTyped, WebTyped, WebTypeOK, WebLabels
<1>2. CacheFresh
  BY DEF IInv, CacheInv, Good, Dirty, CacheFresh, Current
<1> QED BY <1>1, <1>2

LEMMA InductiveInit == WebInit => IInv
<1> SUFFICES ASSUME WebInit PROVE IInv
  OBVIOUS
<1>1. \A r \in Readers : payload[r] \in Payloads /\ answer[r] = {}
  BY DEF WebInit, Payloads
<1>2. doing \in [Threads -> WebLabels] /\ payload \in [Readers -> Payloads]
  BY <1>1 DEF WebInit, WebLabels
<1>3. ThreadsTyped
  <2>1. raised = {} /\ stores = 0 /\ draws = 0 /\ marks = 0 BY DEF WebInit
  <2>2. unmarked \in BOOLEAN BY DEF WebInit
  <2> QED BY <1>2, <2>1, <2>2, WebConstants DEF ThreadsTyped
<1>4. StoreTyped
  BY DEF WebInit, StoreTyped, Single
<1>5. cache_version \in [Readers -> 0..version] /\ asked \in [Readers -> 0..settled]
  BY DEF WebInit
<1>6. WebTyped
  <2>1. answer \in [Readers -> SUBSET Payloads]
    BY DEF WebInit
  <2> QED BY <1>1, <1>2, <1>5, <2>1 DEF WebTyped, Single
<1>7. CacheInv /\ AnswerCurrent
  BY DEF WebInit, CacheInv, Building, AnswerCurrent, Threads
<1> QED BY <1>3, <1>4, <1>6, <1>7 DEF IInv, Types

\* A thread goes to another place, and the others stay.
LEMMA Moves ==
    ASSUME Types, NEW t \in Threads, NEW label \in WebLabels, Enter(t, label)
    PROVE  /\ doing' \in [Threads -> WebLabels] /\ doing'[t] = label
           /\ \A u \in Threads \ {t} : doing'[u] = doing[u]
  BY DEF Types, ThreadsTyped, Enter

\* Readers and writers are different threads.
LEMMA Apart ==
    /\ Writers \subseteq Threads /\ Readers \subseteq Threads
    /\ \A w \in Writers : w \notin Readers
  BY WebConstants DEF Threads

-----------------------------------------------------------------------------
(* The threads that rebuild *)

\* After a write to the graph the payloads that are being built are torn.
LEMMA TypeWriteGraph ==
    ASSUME StoreTyped, WebTyped, WriteGraph, UNCHANGED <<version, _graph_cache, settled>>
    PROVE  StoreTyped' /\ WebTyped'
<1>1. graph_writes' = graph_writes + 1 /\ UNCHANGED <<cache_version, answer, asked>>
  BY DEF WriteGraph
<1>2. Payloads \subseteq Payloads' /\ 0..graph_writes \subseteq 0..graph_writes'
  BY <1>1 DEF StoreTyped, Payloads
<1>3. \A r \in Readers : [payload[r] EXCEPT !.torn = TRUE] \in Payloads
  BY DEF WebTyped, Payloads
<1>4. payload' \in [Readers -> Payloads]
  BY <1>3 DEF WriteGraph, WebTyped
<1>5. payload' \in [Readers -> Payloads']
  BY <1>2, <1>4
<1>6. StoreTyped'
  BY <1>1, <1>2 DEF StoreTyped
<1>7. WebTyped'
  BY <1>1, <1>2, <1>5 DEF WebTyped
<1> QED BY <1>6, <1>7

LEMMA TypeWriters ==
    ASSUME Types, NEW w \in Writers,
           Store(w) \/ ClearGraph(w) \/ Draw(w) \/ Drawn(w) \/ Raise(w) \/ MarkTopology(w)
    PROVE  Types'
<1>1. CASE Store(w) \/ Drawn(w) \/ Raise(w)
  <2>1. UNCHANGED <<graph_writes, version, _graph_cache, settled, web>>
    BY <1>1 DEF Store, Drawn, Raise
  <2>2. StoreTyped' /\ WebTyped'
    BY <2>1 DEF Types, StoreTyped, WebTyped, Payloads, web
  <2>3. doing' \in [Threads -> WebLabels] /\ \A u \in Writers \ {w} : doing'[u] = doing[u]
    BY <1>1, Apart, Moves DEF Store, Drawn, Raise, WebLabels
  <2>7. w \notin raised'
    BY <1>1 DEF Store, Drawn, Raise, Types, ThreadsTyped
  <2>8. raised' \subseteq {u \in Writers : doing'[u] = "rebuild"}
    BY <1>1, <2>3, <2>7 DEF Store, Drawn, Raise, Types, ThreadsTyped
  <2>4. unmarked' \in BOOLEAN
    BY <1>1 DEF Store, Drawn, Raise, Types, ThreadsTyped
  <2>5. stores' \in 0..MaxStores /\ draws' = draws /\ marks' = marks
    BY <1>1, WebConstants DEF Store, Drawn, Raise, Types, ThreadsTyped, counts
  <2>6. ThreadsTyped'
    BY <2>3, <2>4, <2>5, <2>8 DEF Types, ThreadsTyped
  <2> QED BY <2>2, <2>6 DEF Types
<1>2. CASE ClearGraph(w) \/ Draw(w)
  <2>1. WriteGraph /\ UNCHANGED <<version, _graph_cache, settled>>
    BY <1>2 DEF ClearGraph, Draw
  <2>2. doing' \in [Threads -> WebLabels] /\ raised' \subseteq {u \in Writers : doing'[u] = "rebuild"}
    <3>1. CASE ClearGraph(w) BY <3>1, Apart, Moves DEF ClearGraph, Types, ThreadsTyped, WebLabels
    <3>2. CASE Draw(w) BY <3>2 DEF Draw, Types, ThreadsTyped
    <3> QED BY <1>2, <3>1, <3>2
  <2>3. draws' \in 0..MaxDraws /\ UNCHANGED <<stores, marks, unmarked>>
    BY <1>2, WebConstants DEF ClearGraph, Draw, Types, ThreadsTyped, counts
  <2>4. ThreadsTyped'
    BY <2>2, <2>3 DEF Types, ThreadsTyped
  <2> QED BY <2>1, <2>4, TypeWriteGraph DEF Types
<1>3. CASE MarkTopology(w)
  <2>1. /\ version' = version + 1 /\ _graph_cache' = {} /\ settled' = graph_writes
        /\ UNCHANGED <<graph_writes, payload, answer, asked, cache_version>>
    BY <1>3 DEF MarkTopology, Marked, web
  <2>2. 0..version \subseteq 0..version' /\ 0..settled \subseteq 0..settled' /\ settled' \in 0..graph_writes'
    BY <2>1 DEF Types, StoreTyped
  <2>3. StoreTyped'
    BY <2>1, <2>2 DEF Types, StoreTyped, Single
  <2>4. WebTyped'
    BY <2>1, <2>2 DEF Types, WebTyped, Payloads
  <2>5. doing' \in [Threads -> WebLabels] /\ raised' \subseteq {u \in Writers : doing'[u] = "rebuild"}
    BY <1>3, Apart, Moves DEF MarkTopology, Types, ThreadsTyped, WebLabels
  <2>6. ThreadsTyped'
    BY <1>3, <2>5 DEF MarkTopology, Types, ThreadsTyped, counts
  <2> QED BY <2>3, <2>4, <2>6 DEF Types
<1> QED BY <1>1, <1>2, <1>3

LEMMA TypeMarkOther == ASSUME Types, MarkOther PROVE Types'
<1>1. /\ version' = version + 1 /\ _graph_cache' \in {{}, _graph_cache}
      /\ marks' \in 0..MaxMarks /\ UNCHANGED <<graph_writes, raised, doing, web, stores, draws, settled, unmarked>>
  BY WebConstants DEF MarkOther, Types, ThreadsTyped
<1>2. version' \in Nat /\ 0..version \subseteq 0..version'
  BY <1>1 DEF Types, StoreTyped
<1>3. ThreadsTyped'
  BY <1>1 DEF Types, ThreadsTyped
<1>4. StoreTyped'
  BY <1>1, <1>2 DEF Types, StoreTyped, Payloads, Single
<1>5. WebTyped'
  BY <1>1, <1>2 DEF Types, WebTyped, Payloads, web
<1> QED BY <1>3, <1>4, <1>5 DEF Types

LEMMA TypeReaders ==
    ASSUME Types, NEW r \in Readers, Hit(r) \/ Miss(r) \/ Built(r) \/ Cache(r)
    PROVE  Types'
<1>1. /\ UNCHANGED <<graph_writes, version, raised, settled, stores, draws, marks, unmarked>>
      /\ Payloads' = Payloads
  BY DEF Hit, Miss, Built, Cache, counts, Payloads
<1>2. doing' = doing \/ \E label \in WebLabels : Enter(r, label)
  BY DEF Hit, Miss, Built, Cache, WebLabels
<1>3. ThreadsTyped'
  <2>1. doing' \in [Threads -> WebLabels] /\ \A w \in Writers : doing'[w] = doing[w]
    BY <1>2, Apart, Moves DEF Types, ThreadsTyped
  <2> QED BY <1>1, <2>1 DEF Types, ThreadsTyped
<1>4. Entry(r) \in [version : 0..version, payload : Payloads]
  BY DEF Types, WebTyped, Entry
<1>5. _graph_cache' = _graph_cache \/ _graph_cache' = {Entry(r)}
  BY DEF Hit, Miss, Built, Cache
<1>6. StoreTyped'
  BY <1>1, <1>4, <1>5 DEF Types, StoreTyped, Single
<1>7. ASSUME NEW S, S \subseteq Payloads, Single(S), answer' = [answer EXCEPT ![r] = S]
      PROVE  /\ answer' \in [Readers -> SUBSET Payloads]
             /\ \A u \in Readers : Single(answer'[u])
  BY <1>7 DEF Types, WebTyped
<1>8. CASE Hit(r)
  <2>1. Current \subseteq _graph_cache
    BY DEF Current
  <2>2. {e.payload : e \in Current} \subseteq Payloads /\ Single({e.payload : e \in Current})
    BY <2>1 DEF Types, StoreTyped, Single
  <2>3. asked' \in [Readers -> 0..settled]
    BY <1>8 DEF Hit, Ask, Types, StoreTyped, WebTyped
  <2>4. WebTyped'
    BY <1>1, <1>7, <1>8, <2>2, <2>3 DEF Hit, Types, WebTyped
  <2> QED BY <1>3, <1>6, <2>4 DEF Types
<1>9. CASE Miss(r)
  <2>1. [graph |-> graph_writes, torn |-> FALSE] \in Payloads /\ Single({})
    BY DEF Types, StoreTyped, Payloads, Single
  <2>2. cache_version' \in [Readers -> 0..version] /\ payload' \in [Readers -> Payloads]
        /\ asked' \in [Readers -> 0..settled]
    BY <1>9, <2>1 DEF Miss, Ask, Types, StoreTyped, WebTyped
  <2>3. WebTyped'
    BY <1>1, <1>7, <1>9, <2>1, <2>2 DEF Miss, Types, WebTyped
  <2> QED BY <1>3, <1>6, <2>3 DEF Types
<1>10. CASE Built(r)
  <2>1. WebTyped'
    BY <1>1, <1>10 DEF Built, web, Types, WebTyped
  <2> QED BY <1>3, <1>6, <2>1 DEF Types
<1>11. CASE Cache(r)
  <2>1. {payload[r]} \subseteq Payloads /\ Single({payload[r]})
    BY DEF Types, WebTyped, Single
  <2>2. WebTyped'
    BY <1>1, <1>7, <1>11, <2>1 DEF Cache, Types, WebTyped
  <2> QED BY <1>3, <1>6, <2>2 DEF Types
<1> QED BY <1>8, <1>9, <1>10, <1>11

-----------------------------------------------------------------------------
(* What is built and cached *)

\* A step that keeps the graph, the versions and the cache, after which a rebuild is
\* under way if one was before.
LEMMA CacheKept ==
    ASSUME CacheInv, AnswerCurrent,
           UNCHANGED <<graph_writes, version, _graph_cache, web, settled>>,
           Dirty => Dirty',
           \A r \in Readers : doing'[r] = doing[r]
    PROVE  CacheInv' /\ AnswerCurrent'
<1>1. AnswerCurrent'
  BY DEF AnswerCurrent, web
<1>2. \A e \in _graph_cache' :
        e.version = version' => Good(e.payload, graph_writes', Dirty', settled')
  BY DEF CacheInv, Good
<1>3. \A r \in Readers : doing'[r] \in {"build", "cache"} =>
         /\ cache_version'[r] = version' => Good(payload'[r], graph_writes', Dirty', settled')
         /\ payload'[r].graph >= asked'[r]
  BY DEF CacheInv, Good, web, Building
<1> QED BY <1>1, <1>2, <1>3 DEF CacheInv, Building

LEMMA CacheWriters ==
    ASSUME IInv, NEW w \in Writers,
           Store(w) \/ ClearGraph(w) \/ Draw(w) \/ Drawn(w) \/ Raise(w) \/ MarkTopology(w)
    PROVE  CacheInv' /\ AnswerCurrent'
<1>1. w \in Threads /\ \A label \in WebLabels : Enter(w, label) =>
        /\ doing'[w] = label
        /\ \A u \in Threads \ {w} : doing'[u] = doing[u]
  BY Apart, Moves DEF IInv
<1>2. \A r \in Readers : doing'[r] = doing[r]
  <2>1. doing' = doing \/ \E label \in WebLabels : Enter(w, label)
    BY DEF Store, ClearGraph, Draw, Drawn, Raise, MarkTopology, WebLabels
  <2> QED BY <1>1, <2>1, Apart
<1>3. CASE Store(w) \/ Drawn(w) \/ Raise(w)
  <2>1. UNCHANGED <<graph_writes, version, _graph_cache, web, settled>>
    BY <1>3 DEF Store, Drawn, Raise
  <2>2. Dirty => Dirty'
    <3>1. CASE Store(w)
      BY <1>1, <3>1, Apart DEF Store, Dirty, WebLabels
    <3>2. CASE Drawn(w)
      BY <1>1, <3>2 DEF Drawn, Dirty, WebLabels
    <3>3. CASE Raise(w)
      BY <3>3 DEF Raise, Dirty
    <3> QED BY <1>3, <3>1, <3>2, <3>3
  <2> QED BY <1>2, <2>1, <2>2, CacheKept DEF IInv
<1>4. CASE ClearGraph(w) \/ Draw(w)
  <2>1. WriteGraph /\ UNCHANGED <<version, _graph_cache, settled>>
    BY <1>4 DEF ClearGraph, Draw
  <2>2. Dirty'
    BY <1>1, <1>4 DEF ClearGraph, Draw, Dirty, WebLabels
  <2>3. \A r \in Readers : payload'[r].graph = payload[r].graph
    BY <2>1 DEF WriteGraph, IInv, Types, WebTyped, Payloads
  <2>4. UNCHANGED <<cache_version, answer, asked>>
    BY <2>1 DEF WriteGraph
  <2>5. AnswerCurrent'
    BY <2>4 DEF IInv, AnswerCurrent
  <2>6. \A e \in _graph_cache : e.version = version => e.payload.graph >= settled
    BY DEF IInv, CacheInv, Good
  <2>7. \A r \in Readers : Building(r) =>
          /\ cache_version[r] = version => payload[r].graph >= settled
          /\ payload[r].graph >= asked[r]
    BY DEF IInv, CacheInv, Good
  <2>8. CacheInv'
    BY <1>2, <2>1, <2>2, <2>3, <2>4, <2>6, <2>7 DEF CacheInv, Good, Building
  <2> QED BY <2>5, <2>8
<1>5. CASE MarkTopology(w)
  <2>1. /\ version' = version + 1 /\ _graph_cache' = {}
        /\ UNCHANGED <<payload, answer, asked, cache_version>>
    BY <1>5 DEF MarkTopology, Marked, web
  <2>2. \A r \in Readers : cache_version[r] # version'
    BY <2>1 DEF IInv, Types, StoreTyped, WebTyped
  <2> QED BY <1>2, <2>1, <2>2 DEF IInv, CacheInv, Building, AnswerCurrent
<1> QED BY <1>3, <1>4, <1>5

LEMMA CacheMarkOther == ASSUME IInv, MarkOther PROVE CacheInv' /\ AnswerCurrent'
<1>1. /\ version' = version + 1 /\ _graph_cache' \subseteq _graph_cache
      /\ UNCHANGED <<doing, payload, answer, asked, cache_version>>
  BY DEF MarkOther, web
<1>2. \A r \in Readers : cache_version[r] # version'
  BY <1>1 DEF IInv, Types, StoreTyped, WebTyped
<1>3. \A e \in _graph_cache : e.version # version'
  BY <1>1 DEF IInv, Types, StoreTyped
<1> QED BY <1>1, <1>2, <1>3 DEF IInv, CacheInv, Building, AnswerCurrent

LEMMA CacheReaders ==
    ASSUME IInv, NEW r \in Readers, Hit(r) \/ Miss(r) \/ Built(r) \/ Cache(r)
    PROVE  CacheInv' /\ AnswerCurrent'
<1>1. r \in Threads /\ \A label \in WebLabels : Enter(r, label) =>
        /\ doing'[r] = label
        /\ \A u \in Threads \ {r} : doing'[u] = doing[u]
  BY Apart, Moves DEF IInv
<1>2. UNCHANGED <<graph_writes, version, settled, unmarked>>
  BY DEF Hit, Miss, Built, Cache
<1>3. /\ \A u \in Threads \ {r} : doing'[u] = doing[u]
      /\ Dirty' <=> Dirty
  <2>1. doing' = doing \/ \E label \in WebLabels : Enter(r, label)
    BY DEF Hit, Miss, Built, Cache, WebLabels
  <2>2. \A u \in Threads \ {r} : doing'[u] = doing[u]
    BY <1>1, <2>1
  <2> QED BY <1>2, <2>2, Apart DEF Dirty
<1>4. \A u \in Readers \ {r} : doing'[u] = doing[u]
  BY <1>3, Apart
<1>5. CASE Hit(r)
  <2>1. /\ answer' = [answer EXCEPT ![r] = {e.payload : e \in Current}]
        /\ asked' = [asked EXCEPT ![r] = settled]
        /\ UNCHANGED <<_graph_cache, doing, cache_version, payload>> /\ doing[r] = "idle"
    BY <1>5 DEF Hit, Ask
  <2>2. \A e \in Current : e.payload.graph >= settled
    BY DEF IInv, CacheInv, Good, Current
  <2>6. asked'[r] = settled /\ answer'[r] = {e.payload : e \in Current}
    BY <2>1 DEF IInv, Types, WebTyped
  <2>7. \A u \in Readers \ {r} : asked'[u] = asked[u] /\ answer'[u] = answer[u]
    BY <2>1 DEF IInv, Types, WebTyped
  <2>4. AnswerCurrent'
    <3>1. \A p \in answer'[r] : p.graph >= asked'[r]
      BY <2>2, <2>6
    <3> QED BY <2>7, <3>1 DEF IInv, AnswerCurrent
  <2>5. CacheInv'
    <3>1. ~ Building(r)
      BY <2>1 DEF Building
    <3> QED BY <1>2, <1>3, <2>1, <2>7, <3>1 DEF IInv, CacheInv, Good, Building
  <2> QED BY <2>4, <2>5
<1>6. CASE Miss(r)
  <2>1. /\ answer' = [answer EXCEPT ![r] = {}]
        /\ asked' = [asked EXCEPT ![r] = settled]
        /\ payload' = [payload EXCEPT ![r] = [graph |-> graph_writes, torn |-> FALSE]]
        /\ cache_version' = [cache_version EXCEPT ![r] = version]
        /\ UNCHANGED _graph_cache
    BY <1>6 DEF Miss, Ask
  <2>2. /\ asked'[r] = settled /\ payload'[r] = [graph |-> graph_writes, torn |-> FALSE]
        /\ \A u \in Readers \ {r} :
             /\ asked'[u] = asked[u] /\ payload'[u] = payload[u]
             /\ cache_version'[u] = cache_version[u]
    BY <2>1 DEF IInv, Types, WebTyped
  <2>3. \A u \in Readers : answer'[u] \subseteq answer[u] /\ (u = r => answer'[u] = {})
    BY <2>1 DEF IInv, Types, WebTyped
  <2>4. AnswerCurrent'
    BY <2>2, <2>3 DEF IInv, AnswerCurrent
  <2>5. Good(payload'[r], graph_writes, Dirty, settled) /\ payload'[r].graph >= asked'[r]
    BY <2>2 DEF Good, IInv, Types, StoreTyped
  <2>6. \A e \in _graph_cache' : e.version = version' => Good(e.payload, graph_writes', Dirty', settled')
    BY <1>2, <1>3, <2>1 DEF IInv, CacheInv, Good
  <2>7. \A u \in Readers : Building(u)' =>
          /\ cache_version'[u] = version' => Good(payload'[u], graph_writes', Dirty', settled')
          /\ payload'[u].graph >= asked'[u]
    <3> SUFFICES ASSUME NEW u \in Readers, Building(u)'
                 PROVE  /\ cache_version'[u] = version' => Good(payload'[u], graph_writes', Dirty', settled')
                        /\ payload'[u].graph >= asked'[u]
      OBVIOUS
    <3>1. CASE u = r BY <1>2, <1>3, <2>5, <3>1 DEF Good
    <3>2. CASE u # r
      <4>1. Building(u) BY <1>4, <3>2 DEF Building
      <4> QED BY <1>2, <1>3, <2>2, <3>2, <4>1 DEF IInv, CacheInv, Good
    <3> QED BY <3>1, <3>2
  <2> QED BY <2>4, <2>6, <2>7 DEF CacheInv
<1>7. CASE Built(r)
  <2>1. doing[r] = "build" /\ UNCHANGED <<_graph_cache, web>>
    BY <1>7 DEF Built
  <2>2. \A u \in Readers : Building(u)' => Building(u)
    BY <1>4, <2>1 DEF Building
  <2>3. CacheInv'
    BY <1>2, <1>3, <2>1, <2>2 DEF IInv, CacheInv, Good, web
  <2> QED BY <2>1, <2>3 DEF IInv, AnswerCurrent, web
<1>8. CASE Cache(r)
  <2>1. /\ doing[r] = "cache" /\ _graph_cache' = {Entry(r)}
        /\ answer' = [answer EXCEPT ![r] = {payload[r]}]
        /\ UNCHANGED <<cache_version, payload, asked>>
        /\ doing'[r] = "idle"
    BY <1>1, <1>8 DEF Cache, WebLabels
  <2>2. /\ cache_version[r] = version => Good(payload[r], graph_writes, Dirty, settled)
        /\ payload[r].graph >= asked[r]
    BY <2>1 DEF IInv, CacheInv, Building
  <2>3. \A e \in _graph_cache' : e.version = version' => Good(e.payload, graph_writes', Dirty', settled')
    BY <1>2, <1>3, <2>1, <2>2 DEF Entry, Good
  <2>4. \A u \in Readers : Building(u)' => Building(u)
    BY <1>4, <2>1 DEF Building
  <2>5. CacheInv'
    BY <1>2, <1>3, <2>1, <2>3, <2>4 DEF IInv, CacheInv, Good
  <2>6. \A u \in Readers : answer'[u] \subseteq answer[u] \/ (u = r /\ answer'[u] \subseteq {payload[r]})
    BY <2>1 DEF IInv, Types, WebTyped
  <2>7. AnswerCurrent'
    BY <2>1, <2>2, <2>6 DEF IInv, AnswerCurrent
  <2> QED BY <2>5, <2>7
<1> QED BY <1>5, <1>6, <1>7, <1>8

-----------------------------------------------------------------------------
LEMMA InductiveNext == IInv /\ [WebNext]_webVars => IInv'
<1> SUFFICES ASSUME IInv, [WebNext]_webVars PROVE IInv'
  OBVIOUS
<1>1. CASE UNCHANGED webVars
  BY <1>1 DEF IInv, Types, ThreadsTyped, StoreTyped, WebTyped, Payloads, CacheInv, Good, Dirty,
     Building, AnswerCurrent, webVars, web, counts
<1>2. ASSUME NEW w \in Writers,
             Store(w) \/ ClearGraph(w) \/ Draw(w) \/ Drawn(w) \/ Raise(w) \/ MarkTopology(w)
      PROVE  IInv'
  <2>1. Types' BY <1>2, TypeWriters DEF IInv
  <2> QED BY <1>2, <2>1, CacheWriters DEF IInv
<1>3. CASE MarkOther
  <2>1. Types' BY <1>3, TypeMarkOther DEF IInv
  <2> QED BY <1>3, <2>1, CacheMarkOther DEF IInv
<1>4. ASSUME NEW r \in Readers, Hit(r) \/ Miss(r) \/ Built(r) \/ Cache(r)
      PROVE  IInv'
  <2>1. Types' BY <1>4, TypeReaders DEF IInv
  <2> QED BY <1>4, <2>1, CacheReaders DEF IInv
<1> QED BY <1>1, <1>2, <1>3, <1>4 DEF WebNext

\* For any number of client threads and web threads: the variables have their types,
\* and while no rebuild is under way, and none has raised since the last mark, a
\* cached payload that get_graph_snapshot would return is the whole graph as it is.
THEOREM WebInvHolds == WebSpec => []WebInv
<1>1. WebSpec => []IInv
  BY InductiveInit, InductiveNext, PTL DEF WebSpec
<1> QED BY <1>1, InvariantImplies, PTL

\* ... and /api/graph is never answered with a graph older than the last rebuild
\* that had marked the store dirty when the request was made.
THEOREM AnswerCurrentHolds == WebSpec => []AnswerCurrent
<1>1. WebSpec => []IInv
  BY InductiveInit, InductiveNext, PTL DEF WebSpec
<1> QED BY <1>1, InvariantImplies, PTL
=============================================================================
