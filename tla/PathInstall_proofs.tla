------------------------- MODULE PathInstall_proofs -------------------------
(***************************************************************************)
(* Proofs about PathInstall, for every set of controllers, keys and routes:*)
(* the handshake installs before it forwards, a queue keeps its order, the *)
(* acknowledgements a thread waits for are on their way, a stale path never *)
(* overwrites a newer one, and the whole implements InstallPromise.        *)
(***************************************************************************)
EXTENDS PathInstall, TLAPS

-----------------------------------------------------------------------------
(* What is in transit on a channel after each operation on it.              *)

\* A sent message joins the others (Upload, Deliver).
LEMMA SendInTransit ==
    ASSUME NEW S, NEW s \in Seq(S), NEW m \in S
    PROVE  /\ Append(s, m) \in Seq(S)
           /\ InTransit(Append(s, m)) = InTransit(s) \cup {m}
<1>1. Append(s, m) \in Seq(S) /\ Len(Append(s, m)) = Len(s) + 1 /\ Len(s) \in Nat
  OBVIOUS
<1>2. \A n \in 1..Len(s) : Append(s, m)[n] = s[n]
  OBVIOUS
<1>3. Append(s, m)[Len(s) + 1] = m
  OBVIOUS
<1>4. 1..(Len(s) + 1) = (1..Len(s)) \cup {Len(s) + 1}
  BY <1>1
<1> QED BY <1>1, <1>2, <1>3, <1>4, Zenon DEF InTransit

\* The message read was in transit, and those left were.
LEMMA ReadInTransit ==
    ASSUME NEW S, NEW s \in Seq(S), s # <<>>
    PROVE  /\ Head(s) \in S
           /\ Head(s) \in InTransit(s)
           /\ Tail(s) \in Seq(S)
           /\ InTransit(Tail(s)) \subseteq InTransit(s)
<1>1. Len(s) \in Nat /\ Len(s) >= 1 /\ Head(s) = s[1] /\ s[1] \in S
  OBVIOUS
<1>2. Tail(s) \in Seq(S) /\ Len(Tail(s)) = Len(s) - 1
  OBVIOUS
<1>3. \A n \in 1..Len(Tail(s)) : Tail(s)[n] = s[n + 1] /\ n + 1 \in 1..Len(s)
  BY <1>1, <1>2
<1> QED BY <1>1, <1>2, <1>3 DEF InTransit

\* What a broken connection leaves in its buffer was in transit.
LEMMA BufferedInTransit ==
    ASSUME NEW S, NEW s \in Seq(S), NEW busy \in BOOLEAN,
           NEW rest \in Buffered(busy, s)
    PROVE  /\ rest \in Seq(S)
           /\ InTransit(rest) \subseteq InTransit(s)
<1>1. PICK n \in 0..Len(s) : rest = SubSeq(s, 1, n)
  BY DEF Buffered
<1>2. rest \in Seq(S) /\ Len(rest) = n /\ \A i \in 1..n : rest[i] = s[i]
  BY <1>1
<1> QED BY <1>2 DEF InTransit

\* Where the elements of a concatenation come from.
LEMMA ConcatElements ==
    ASSUME NEW S, NEW s \in Seq(S), NEW t \in Seq(S)
    PROVE  /\ s \o t \in Seq(S)
           /\ \A n \in 1..Len(s \o t) :
                \/ n \in 1..Len(s) /\ (s \o t)[n] = s[n]
                \/ n - Len(s) \in 1..Len(t) /\ (s \o t)[n] = t[n - Len(s)]
  OBVIOUS

LEMMA NothingInTransit == InTransit(<<>>) = {}
  BY DEF InTransit

-----------------------------------------------------------------------------
\* Initially nothing is in flight and nothing is said of any path.
LEMMA HandshakeInit == Init => HandshakeInv
<1> SUFFICES ASSUME Init PROVE HandshakeInv
  OBVIOUS
<1> USE ConstantsAssumption, NothingInTransit
<1>1. TypeOK
  <2>1. /\ DOMAIN pending_path_installs = {} /\ DOMAIN log = {}
        /\ pending_path_installs \in [{} -> SUBSET Controllers]
        /\ log \in [{} -> Log]
    BY DEF Init
  <2>2. \A S : <<>> \in Seq(S)
    OBVIOUS
  <2> QED BY <2>1, <2>2 DEF Init, TypeOK, ControllersTyped, ChannelsTyped, ServerTyped, HistoryTyped, Ages
<1>2. ThreadsTrue /\ GreenletsTrue
  BY DEF Init, ThreadsTrue, GreenletsTrue
<1>3. EntriesTrue /\ PathIdsFresh
  BY DEF Init, EntriesTrue, PathIdsFresh
<1>4. UpTrue /\ DownTrue
  BY DEF Init, UpTrue, DownTrue
<1>5. InstallBeforeForward
  BY DEF Init, InstallBeforeForward, ForwardedBehind
<1> QED BY <1>1, <1>2, <1>3, <1>4, <1>5 DEF HandshakeInv
-----------------------------------------------------------------------------
(* Preservation, one lemma per action.  An action that leaves a conjunct's   *)
(* variables alone preserves it by substitution.                             *)

LEMMA QueuePacketInv ==
    ASSUME HandshakeInv, NEW k \in Keys, QueuePacket(k)
    PROVE  HandshakeInv'
<1> USE DEF HandshakeInv, QueuePacket, Punt, Enqueue, srvVars
<1>1. TypeOK'
  <2>1. queue' \in [Keys -> Seq(Nat)]
    <3>1. \A j \in Keys : queue[j] \in Seq(Nat) /\ <<>> \in Seq(Nat)
      BY DEF TypeOK, ControllersTyped
    <3>2. punted[k] + 1 \in Nat
      BY DEF TypeOK, HistoryTyped
    <3>3. Append(queue[k], punted[k] + 1) \in Seq(Nat)
      BY <3>1, <3>2, SendInTransit
    <3> QED BY <3>1, <3>3
  <2>2. ControllersTyped'
    BY <2>1 DEF TypeOK, ControllersTyped, Ages
  <2>3. ChannelsTyped' /\ ServerTyped'
    BY DEF TypeOK, ChannelsTyped, ServerTyped
  <2>4. HistoryTyped'
    <3>1. punted' \in [Keys -> Nat] /\ requests' \in [Keys -> Nat]
      BY DEF TypeOK, HistoryTyped
    <3> QED BY <3>1 DEF TypeOK, HistoryTyped
  <2> QED BY <2>2, <2>3, <2>4 DEF TypeOK
<1>2. ThreadsTrue' /\ GreenletsTrue'
  BY DEF ThreadsTrue, GreenletsTrue, Settled
<1>3. EntriesTrue' /\ PathIdsFresh' /\ InstallBeforeForward'
  BY DEF EntriesTrue, PathIdsFresh, InstallBeforeForward, ForwardedBehind, Settled
<1>4. UpTrue' /\ DownTrue'
  BY DEF UpTrue, DownTrue, Settled
<1> QED BY <1>1, <1>2, <1>3, <1>4

LEMMA RequestPathInv ==
    ASSUME HandshakeInv, NEW k \in Keys, RequestPath(k)
    PROVE  HandshakeInv'
<1> USE ConstantsAssumption DEF HandshakeInv, RequestPath, Punt, srvVars
<1> DEFINE c == Home[k]
<1>0. c \in Controllers /\ Request(k) \in Requests
  BY DEF Request, Requests
<1>1. /\ up' \in [Controllers -> Seq(Requests \cup Acks)]
      /\ \A d \in Controllers :
           InTransit(up'[d]) \subseteq InTransit(up[d]) \cup
                                     (IF d = c THEN {Request(k)} ELSE {})
  <2>1. up[c] \in Seq(Requests \cup Acks) /\ Request(k) \in Requests \cup Acks
    BY <1>0 DEF TypeOK, ChannelsTyped
  <2>2. /\ Append(up[c], Request(k)) \in Seq(Requests \cup Acks)
        /\ InTransit(Append(up[c], Request(k))) = InTransit(up[c]) \cup {Request(k)}
    BY <2>1, SendInTransit
  <2> QED BY <1>0, <2>2 DEF Upload, TypeOK, ChannelsTyped
<1>2. TypeOK'
  <2>1. queue' \in [Keys -> Seq(Nat)]
    <3>1. <<punted[k] + 1>> \in Seq(Nat) /\ <<>> \in Seq(Nat)
      BY DEF TypeOK, HistoryTyped
    <3> QED BY <3>1 DEF TypeOK, ControllersTyped
  <2>2. ControllersTyped'
    BY <2>1 DEF TypeOK, ControllersTyped, Ages
  <2>3. ChannelsTyped' /\ ServerTyped'
    BY <1>1 DEF TypeOK, ChannelsTyped, ServerTyped
  <2>4. HistoryTyped'
    <3>1. punted' \in [Keys -> Nat] /\ requests' \in [Keys -> Nat]
      BY DEF TypeOK, HistoryTyped
    <3> QED BY <3>1 DEF TypeOK, HistoryTyped
  <2> QED BY <2>2, <2>3, <2>4 DEF TypeOK
<1>3. ThreadsTrue' /\ GreenletsTrue'
  BY DEF ThreadsTrue, GreenletsTrue, Settled
<1>4. EntriesTrue' /\ PathIdsFresh' /\ InstallBeforeForward'
  BY DEF EntriesTrue, PathIdsFresh, InstallBeforeForward, ForwardedBehind, Settled
<1>5. UpTrue'
  BY <1>1 DEF UpTrue, Request
<1>6. DownTrue'
  BY DEF DownTrue, Settled
<1> QED BY <1>2, <1>3, <1>4, <1>5, <1>6

LEMMA RerouteInv ==
    ASSUME HandshakeInv, NEW c \in Controllers, NEW k \in Keys, Reroute(c, k)
    PROVE  HandshakeInv'
<1> USE DEF HandshakeInv, Reroute, srvVars
<1>0. Request(k) \in Requests
  BY DEF Request, Requests
<1>1. /\ up' \in [Controllers -> Seq(Requests \cup Acks)]
      /\ \A d \in Controllers :
           InTransit(up'[d]) \subseteq InTransit(up[d]) \cup
                                     (IF d = c THEN {Request(k)} ELSE {})
  <2>1. up[c] \in Seq(Requests \cup Acks) /\ Request(k) \in Requests \cup Acks
    BY <1>0 DEF TypeOK, ChannelsTyped
  <2>2. /\ Append(up[c], Request(k)) \in Seq(Requests \cup Acks)
        /\ InTransit(Append(up[c], Request(k))) = InTransit(up[c]) \cup {Request(k)}
    BY <2>1, SendInTransit
  <2> QED BY <2>2 DEF Upload, TypeOK, ChannelsTyped
<1>2. TypeOK'
  <2>1. ControllersTyped' /\ ChannelsTyped' /\ ServerTyped'
    BY <1>1 DEF TypeOK, ControllersTyped, ChannelsTyped, ServerTyped
  <2>2. HistoryTyped'
    <3>1. requests' \in [Keys -> Nat]
      BY DEF TypeOK, HistoryTyped
    <3> QED BY <3>1 DEF TypeOK, HistoryTyped
  <2> QED BY <2>1, <2>2 DEF TypeOK
<1>3. ThreadsTrue' /\ GreenletsTrue'
  BY DEF ThreadsTrue, GreenletsTrue, Settled
<1>4. EntriesTrue' /\ PathIdsFresh' /\ InstallBeforeForward'
  BY DEF EntriesTrue, PathIdsFresh, InstallBeforeForward, ForwardedBehind, Settled
<1>5. UpTrue'
  BY <1>1 DEF UpTrue, Request
<1>6. DownTrue'
  BY DEF DownTrue, Settled
<1> QED BY <1>2, <1>3, <1>4, <1>5, <1>6

LEMMA AgeInv ==
    ASSUME HandshakeInv, NEW k \in Keys, Age(k)
    PROVE  HandshakeInv'
<1> USE DEF HandshakeInv, Age, srvVars, history
<1>1. TypeOK'
  <2>1. asked' \in [Keys -> Ages]
    BY ConstantsAssumption DEF TypeOK, ControllersTyped, Ages
  <2>2. ControllersTyped' /\ ChannelsTyped'
    BY <2>1 DEF TypeOK, ControllersTyped, ChannelsTyped
  <2>3. ServerTyped' /\ HistoryTyped'
    BY DEF TypeOK, ServerTyped, HistoryTyped
  <2> QED BY <2>2, <2>3 DEF TypeOK
<1>2. ThreadsTrue' /\ GreenletsTrue'
  BY DEF ThreadsTrue, GreenletsTrue, Settled
<1>3. EntriesTrue' /\ PathIdsFresh' /\ InstallBeforeForward'
  BY DEF EntriesTrue, PathIdsFresh, InstallBeforeForward, ForwardedBehind, Settled
<1>4. UpTrue' /\ DownTrue'
  BY DEF UpTrue, DownTrue, Settled
<1> QED BY <1>1, <1>2, <1>3, <1>4
-----------------------------------------------------------------------------
\* A step that only adds to what the log says of a path keeps what others say.
LogGrows ==
    \A p \in DOMAIN log :
        /\ p \in DOMAIN log'
        /\ log'[p].targets = log[p].targets
        /\ log[p].installed \subseteq log'[p].installed
        /\ Settled(p) => Settled(p)'

LEMMA LogGrowsOnly ==
    ASSUME LogGrows
    PROVE  /\ UpTrue /\ UNCHANGED up => UpTrue'
           /\ DownTrue /\ UNCHANGED down => DownTrue'
           /\ EntriesTrue /\ UNCHANGED pending_path_installs => EntriesTrue'
           /\ GreenletsTrue /\ UNCHANGED <<greenlet, current>> => GreenletsTrue'
           /\ InstallBeforeForward /\ UNCHANGED released => InstallBeforeForward'
<1>1. UpTrue /\ UNCHANGED up => UpTrue'
  BY DEF LogGrows, UpTrue
<1>2. DownTrue /\ UNCHANGED down => DownTrue'
  BY DEF LogGrows, DownTrue
<1>3. EntriesTrue /\ UNCHANGED pending_path_installs => EntriesTrue'
  BY DEF LogGrows, EntriesTrue
<1>4. GreenletsTrue /\ UNCHANGED <<greenlet, current>> => GreenletsTrue'
  BY DEF LogGrows, GreenletsTrue
<1>5. InstallBeforeForward /\ UNCHANGED released => InstallBeforeForward'
  BY DEF LogGrows, InstallBeforeForward, ForwardedBehind
<1> QED BY <1>1, <1>2, <1>3, <1>4, <1>5

LEMMA ReceivePathInv ==
    ASSUME HandshakeInv, NEW c \in Controllers, ReceivePath(c)
    PROVE  HandshakeInv'
<1> USE DEF HandshakeInv, srvVars
<1> DEFINE m == Head(down[c])
<1>1. /\ m \in Responses \cup Errors
      /\ m \in InTransit(down[c])
      /\ Tail(down[c]) \in Seq(Responses \cup Errors)
      /\ InTransit(Tail(down[c])) \subseteq InTransit(down[c])
  <2>1. down[c] \in Seq(Responses \cup Errors) /\ down[c] # <<>>
    BY DEF TypeOK, ChannelsTyped, ReceivePath
  <2> QED BY <2>1, ReadInTransit
<1>2. /\ down' = [down EXCEPT ![c] = Tail(@)]
      /\ UNCHANGED <<is_connected, asked, queue, barriers_ok, up, srvVars, requests,
                     punted, released>>
  BY DEF ReceivePath
<1>3. ChannelsTyped'
  BY <1>1, <1>2 DEF TypeOK, ChannelsTyped
<1>4. \A d \in Controllers : InTransit(down'[d]) \subseteq InTransit(down[d])
  BY <1>1, <1>2 DEF TypeOK, ChannelsTyped
<1>5. CASE m.type # "path_response"
  <2>1. UNCHANGED <<greenlet, current, log>>
    BY <1>5 DEF ReceivePath
  <2>2. TypeOK'
    BY <1>2, <1>3, <2>1 DEF TypeOK, ControllersTyped, ServerTyped, HistoryTyped
  <2>3. ThreadsTrue' /\ PathIdsFresh'
    BY <1>2, <2>1 DEF ThreadsTrue, PathIdsFresh
  <2>4. LogGrows
    BY <2>1 DEF LogGrows, Settled
  <2>5. UpTrue' /\ EntriesTrue' /\ GreenletsTrue' /\ InstallBeforeForward'
    BY <1>2, <2>1, <2>4, LogGrowsOnly
  <2>6. DownTrue'
    BY <1>4, <2>1 DEF DownTrue, Settled
  <2> QED BY <2>2, <2>3, <2>5, <2>6
<1>6. CASE m.type = "path_response"
  <2> DEFINE p == m.path_id
  <2>1. /\ greenlet' = [greenlet EXCEPT ![c] = "barrier"]
        /\ current' = [current EXCEPT ![c] = m]
        /\ log' = [log EXCEPT ![p].installed = @ \cup {c}]
    BY <1>6 DEF ReceivePath
  <2>2. /\ m \in Responses
        /\ p \in DOMAIN log
        /\ p[1] = c => Settled(p)
    BY <1>1, <1>6 DEF DownTrue, Errors
  <2>3. log[p] \in Log /\ log \in [DOMAIN log -> Log]
    BY <2>2 DEF TypeOK, HistoryTyped
  <2>4. /\ log' \in [DOMAIN log -> Log]
        /\ log'[p].installed = log[p].installed \cup {c}
        /\ log'[p].targets = log[p].targets /\ log'[p].missing = log[p].missing
        /\ \A q \in DOMAIN log : q # p => log'[q] = log[q]
    BY <2>1, <2>2, <2>3 DEF Log
  <2>5. LogGrows
    BY <2>4 DEF LogGrows, Settled
  <2>6. ControllersTyped'
    BY <1>2, <2>1, <2>2 DEF TypeOK, ControllersTyped
  <2>7. ServerTyped'
    BY <1>2 DEF TypeOK, ServerTyped
  <2>8. HistoryTyped'
    BY <1>2, <2>4 DEF TypeOK, HistoryTyped
  <2>9. ThreadsTrue'
    BY <1>2 DEF ThreadsTrue
  <2>10. PathIdsFresh'
    BY <1>2, <2>4 DEF PathIdsFresh
  <2>11. UpTrue' /\ EntriesTrue' /\ InstallBeforeForward'
    BY <1>2, <2>5, LogGrowsOnly
  <2>12. DownTrue'
    BY <1>4, <2>5 DEF DownTrue, LogGrows
  <2>13. GreenletsTrue'
    BY <2>1, <2>2, <2>4, <2>5 DEF GreenletsTrue, LogGrows, TypeOK, ControllersTyped
  <2> QED BY <1>3, <2>6, <2>7, <2>8, <2>9, <2>10, <2>11, <2>12, <2>13 DEF TypeOK
<1> QED BY <1>5, <1>6

LEMMA BarrierDoneInv ==
    ASSUME HandshakeInv, NEW c \in Controllers, BarrierDone(c)
    PROVE  HandshakeInv'
<1> USE DEF HandshakeInv, srvVars
<1> DEFINE p == current[c].path_id
<1>1. PICK ok \in BOOLEAN :
        /\ barriers_ok' = [barriers_ok EXCEPT ![c] = ok]
        /\ log' = IF ok THEN [log EXCEPT ![p].confirmed = @ \cup {c}] ELSE log
  BY DEF BarrierDone
<1>2. /\ greenlet[c] = "barrier" /\ greenlet' = [greenlet EXCEPT ![c] = "ack"]
      /\ UNCHANGED <<is_connected, asked, queue, current, up, down, srvVars,
                     requests, punted, released>>
  BY DEF BarrierDone
<1>3. p \in DOMAIN log /\ log[p] \in Log
  BY <1>2 DEF GreenletsTrue, TypeOK, HistoryTyped
<1>4. /\ DOMAIN log' = DOMAIN log
      /\ log' \in [DOMAIN log -> Log]
      /\ \A q \in DOMAIN log : /\ log'[q].targets = log[q].targets
                               /\ log'[q].installed = log[q].installed
                               /\ log'[q].missing = log[q].missing
  BY <1>1, <1>3 DEF TypeOK, HistoryTyped, Log
<1>5. LogGrows
  BY <1>4 DEF LogGrows, Settled
<1>6. ControllersTyped' /\ ChannelsTyped'
  BY <1>1, <1>2 DEF TypeOK, ControllersTyped, ChannelsTyped
<1>7. ServerTyped'
  BY <1>2 DEF TypeOK, ServerTyped
<1>8. HistoryTyped'
  BY <1>2, <1>4 DEF TypeOK, HistoryTyped
<1>9. ThreadsTrue' /\ PathIdsFresh'
  BY <1>2, <1>4 DEF ThreadsTrue, PathIdsFresh
<1>10. UpTrue' /\ DownTrue' /\ EntriesTrue' /\ InstallBeforeForward'
  BY <1>2, <1>5, LogGrowsOnly
<1>11. GreenletsTrue'
  BY <1>2, <1>5 DEF GreenletsTrue, LogGrows, TypeOK, ControllersTyped
<1> QED BY <1>6, <1>7, <1>8, <1>9, <1>10, <1>11 DEF TypeOK

LEMMA SendAckInv ==
    ASSUME HandshakeInv, NEW c \in Controllers, SendAck(c)
    PROVE  HandshakeInv'
<1> USE DEF HandshakeInv, srvVars, history
<1> DEFINE a == Ack(current[c].path_id, barriers_ok[c])
<1>1. /\ greenlet[c] = "ack" /\ greenlet' = [greenlet EXCEPT ![c] = "release"]
      /\ Upload(c, a)
      /\ UNCHANGED <<is_connected, asked, queue, current, barriers_ok, down,
                     srvVars, history>>
  BY DEF SendAck, Report
<1>2. /\ a \in Acks /\ a.type = "path_install_ack"
      /\ a.path_id \in DOMAIN log /\ c \in log[a.path_id].installed
  BY <1>1 DEF GreenletsTrue, Ack, Acks, Responses, TypeOK, ControllersTyped
<1>3. /\ up' \in [Controllers -> Seq(Requests \cup Acks)]
      /\ \A d \in Controllers :
           InTransit(up'[d]) \subseteq InTransit(up[d]) \cup
                                     (IF d = c THEN {a} ELSE {})
  <2>1. up[c] \in Seq(Requests \cup Acks) /\ a \in Requests \cup Acks
    BY <1>2 DEF TypeOK, ChannelsTyped
  <2>2. /\ Append(up[c], a) \in Seq(Requests \cup Acks)
        /\ InTransit(Append(up[c], a)) = InTransit(up[c]) \cup {a}
    BY <2>1, SendInTransit
  <2> QED BY <1>1, <2>2 DEF Upload, TypeOK, ChannelsTyped
<1>4. TypeOK'
  BY <1>1, <1>3 DEF TypeOK, ControllersTyped, ChannelsTyped, ServerTyped, HistoryTyped
<1>5. LogGrows
  BY <1>1 DEF LogGrows, Settled
<1>6. DownTrue' /\ EntriesTrue' /\ InstallBeforeForward'
  BY <1>1, <1>5, LogGrowsOnly
<1>7. ThreadsTrue' /\ PathIdsFresh'
  BY <1>1 DEF ThreadsTrue, PathIdsFresh
<1>8. GreenletsTrue'
  BY <1>1 DEF GreenletsTrue, Settled, TypeOK, ControllersTyped
<1>9. UpTrue'
  BY <1>1, <1>2, <1>3 DEF UpTrue
<1> QED BY <1>4, <1>6, <1>7, <1>8, <1>9

LEMMA ReleaseQueueInv ==
    ASSUME HandshakeInv, NEW c \in Controllers, ReleaseQueue(c)
    PROVE  HandshakeInv'
<1> USE DEF HandshakeInv, srvVars
<1> DEFINE k == current[c].key
           p == current[c].path_id
           moved == [n \in 1..Len(queue[k]) |-> [pkt |-> queue[k][n], path_id |-> p]]
<1>1. /\ greenlet[c] = "release" /\ greenlet' = [greenlet EXCEPT ![c] = "recv"]
      /\ current' = [current EXCEPT ![c] = Idle]
      /\ UNCHANGED <<is_connected, barriers_ok, up, down, srvVars, log, requests, punted>>
  BY DEF ReleaseQueue, HasRequest
<1>2. /\ k \in Keys /\ p \in PathIds /\ p \in DOMAIN log
      /\ c \in log[p].installed /\ (p[1] = c => Settled(p))
  BY <1>1 DEF GreenletsTrue, Responses
<1>3. LogGrows
  BY <1>1 DEF LogGrows, Settled
<1>4. UpTrue' /\ DownTrue' /\ EntriesTrue'
  BY <1>1, <1>3, LogGrowsOnly
<1>5. ThreadsTrue' /\ PathIdsFresh'
  BY <1>1 DEF ThreadsTrue, PathIdsFresh
<1>6. GreenletsTrue'
  BY <1>1 DEF GreenletsTrue, Settled, TypeOK, ControllersTyped
<1>7. ChannelsTyped' /\ ServerTyped'
  BY <1>1 DEF TypeOK, ChannelsTyped, ServerTyped
<1>8. CASE UNCHANGED <<asked, queue, released>>
  <2>1. ControllersTyped' /\ HistoryTyped'
    BY <1>1, <1>8 DEF TypeOK, ControllersTyped, HistoryTyped
  <2>2. InstallBeforeForward'
    BY <1>8, <1>3, LogGrowsOnly
  <2> QED BY <1>4, <1>5, <1>6, <1>7, <2>1, <2>2 DEF TypeOK
<1>9. CASE /\ Home[k] = c
           /\ asked' = [asked EXCEPT ![k] = "none"]
           /\ queue' = [queue EXCEPT ![k] = <<>>]
           /\ released' \in {released, [released EXCEPT ![k] = @ \o moved]}
  <2> DEFINE R == [pkt : Nat, path_id : PathIds]
  <2>1. queue[k] \in Seq(Nat) /\ released[k] \in Seq(R)
    BY <1>2 DEF TypeOK, ControllersTyped, HistoryTyped
  <2>2. moved \in Seq(R) /\ Len(moved) = Len(queue[k])
    BY <1>2, <2>1
  <2>3. \A n \in 1..Len(moved) : moved[n].path_id = p
    BY <2>1, <2>2
  <2> HIDE DEF moved
  <2>4. /\ released[k] \o moved \in Seq(R)
        /\ \A n \in 1..Len(released[k] \o moved) :
             \/ n \in 1..Len(released[k]) /\ (released[k] \o moved)[n] = released[k][n]
             \/ (released[k] \o moved)[n].path_id = p
    <3>1. \A n \in 1..Len(released[k] \o moved) :
            \/ n \in 1..Len(released[k]) /\ (released[k] \o moved)[n] = released[k][n]
            \/ /\ n - Len(released[k]) \in 1..Len(moved)
               /\ (released[k] \o moved)[n] = moved[n - Len(released[k])]
      BY <2>1, <2>2, ConcatElements
    <3>2. released[k] \o moved \in Seq(R)
      BY <2>1, <2>2, ConcatElements
    <3> QED BY <2>3, <3>1, <3>2
  <2>5. ControllersTyped'
    BY <1>1, <1>2, <1>9 DEF TypeOK, ControllersTyped, Ages
  <2>6. HistoryTyped'
    <3>1. released' \in [Keys -> Seq(R)]
      BY <1>2, <1>9, <2>4 DEF TypeOK, HistoryTyped
    <3> QED BY <1>1, <3>1 DEF TypeOK, HistoryTyped
  <2>7. InstallBeforeForward'
    <3> SUFFICES ASSUME NEW j \in Keys, NEW n \in 1..Len(released'[j])
                 PROVE  ForwardedBehind(j, released'[j][n].path_id)
      BY <1>1 DEF InstallBeforeForward, ForwardedBehind, Settled
    <3>1. CASE released'[j] = released[j]
      BY <3>1 DEF InstallBeforeForward
    <3>2. CASE j = k /\ released'[k] = released[k] \o moved
      <4>1. \/ n \in 1..Len(released[k]) /\ released'[k][n] = released[k][n]
            \/ released'[k][n].path_id = p
        BY <3>2, <2>4
      <4> QED BY <3>2, <4>1, <1>2, <1>9 DEF InstallBeforeForward, ForwardedBehind
    <3> QED BY <3>1, <3>2, <1>2, <1>9 DEF TypeOK, HistoryTyped
  <2> QED BY <1>4, <1>5, <1>6, <1>7, <2>5, <2>6, <2>7 DEF TypeOK
<1> QED BY <1>8, <1>9 DEF ReleaseQueue, HasRequest
-----------------------------------------------------------------------------
\* Steps of the server's threads.  Reading takes the head of the channel.
LEMMA ReadUp ==
    ASSUME HandshakeInv, NEW c \in Controllers, up[c] # <<>>,
           up' = [up EXCEPT ![c] = Tail(@)]
    PROVE  /\ Head(up[c]) \in Requests \cup Acks
           /\ Head(up[c]) \in InTransit(up[c])
           /\ up' \in [Controllers -> Seq(Requests \cup Acks)]
           /\ \A d \in Controllers : InTransit(up'[d]) \subseteq InTransit(up[d])
<1>1. up[c] \in Seq(Requests \cup Acks)
  BY DEF HandshakeInv, TypeOK, ChannelsTyped
<1>2. /\ Head(up[c]) \in Requests \cup Acks
      /\ Head(up[c]) \in InTransit(up[c])
      /\ Tail(up[c]) \in Seq(Requests \cup Acks)
      /\ InTransit(Tail(up[c])) \subseteq InTransit(up[c])
  BY <1>1, ReadInTransit
<1> QED BY <1>2 DEF HandshakeInv, TypeOK, ChannelsTyped

\* A delivery adds at most the message to the channel of its addressee.
LEMMA Delivered ==
    ASSUME HandshakeInv, NEW d \in Controllers, NEW m \in Responses \cup Errors,
           Deliver(d, m)
    PROVE  /\ down' \in [Controllers -> Seq(Responses \cup Errors)]
           /\ \A e \in Controllers :
                InTransit(down'[e]) \subseteq InTransit(down[e]) \cup
                                           (IF e = d THEN {m} ELSE {})
<1>1. down[d] \in Seq(Responses \cup Errors)
  BY DEF HandshakeInv, TypeOK, ChannelsTyped
<1>2. /\ Append(down[d], m) \in Seq(Responses \cup Errors)
      /\ InTransit(Append(down[d], m)) = InTransit(down[d]) \cup {m}
  BY <1>1, SendInTransit
<1> QED BY <1>2 DEF Deliver, HandshakeInv, TypeOK, ChannelsTyped

LEMMA ReadRequestInv ==
    ASSUME HandshakeInv, NEW c \in Controllers, ReadRequest(c)
    PROVE  HandshakeInv'
<1> USE DEF HandshakeInv, ctlVars, history
<1>1. /\ thread[c] = "recv" /\ thread' = [thread EXCEPT ![c] = "route"]
      /\ up[c] # <<>> /\ up' = [up EXCEPT ![c] = Tail(@)]
      /\ Head(up[c]).type = "path_request"
      /\ job' = [job EXCEPT ![c] = Head(up[c])]
      /\ UNCHANGED <<ctlVars, down, clients, toSend, time_ns, pending_path_installs, history>>
  BY DEF ReadRequest
<1>2. /\ Head(up[c]) \in Requests
      /\ up' \in [Controllers -> Seq(Requests \cup Acks)]
      /\ \A d \in Controllers : InTransit(up'[d]) \subseteq InTransit(up[d])
  BY <1>1, ReadUp DEF UpTrue, Acks
<1>3. ControllersTyped' /\ ChannelsTyped' /\ HistoryTyped'
  BY <1>1, <1>2 DEF TypeOK, ControllersTyped, ChannelsTyped, HistoryTyped
<1>4. ServerTyped'
  BY <1>1, <1>2 DEF TypeOK, ServerTyped
<1>5. LogGrows
  BY <1>1 DEF LogGrows, Settled
<1>6. DownTrue' /\ EntriesTrue' /\ GreenletsTrue' /\ InstallBeforeForward'
  BY <1>1, <1>5, LogGrowsOnly
<1>7. ThreadsTrue' /\ PathIdsFresh'
  BY <1>1, <1>2 DEF ThreadsTrue, PathIdsFresh, TypeOK, ServerTyped
<1>8. UpTrue'
  BY <1>1, <1>2 DEF UpTrue
<1> QED BY <1>3, <1>4, <1>6, <1>7, <1>8 DEF TypeOK

\* An ack is true, so what the entry no longer waits for is installed.
LEMMA ReadAckInv ==
    ASSUME HandshakeInv, NEW c \in Controllers, ReadAck(c)
    PROVE  HandshakeInv'
<1> USE DEF HandshakeInv, ctlVars, history
<1> DEFINE p == Head(up[c]).path_id
<1>1. /\ up[c] # <<>> /\ up' = [up EXCEPT ![c] = Tail(@)]
      /\ Head(up[c]).type = "path_install_ack"
      /\ UNCHANGED <<ctlVars, down, clients, thread, job, toSend, time_ns, history>>
      /\ pending_path_installs' =
           IF p \in DOMAIN pending_path_installs
           THEN [pending_path_installs EXCEPT ![p] = @ \ {c}]
           ELSE pending_path_installs
  BY DEF ReadAck
<1>2. /\ p \in DOMAIN log /\ c \in log[p].installed
      /\ up' \in [Controllers -> Seq(Requests \cup Acks)]
      /\ \A d \in Controllers : InTransit(up'[d]) \subseteq InTransit(up[d])
  BY <1>1, ReadUp DEF UpTrue
<1>3. /\ DOMAIN pending_path_installs' = DOMAIN pending_path_installs
      /\ pending_path_installs' \in [DOMAIN pending_path_installs -> SUBSET Controllers]
      /\ \A q \in DOMAIN pending_path_installs :
            \/ pending_path_installs'[q] = pending_path_installs[q]
            \/ q = p /\ pending_path_installs'[q] = pending_path_installs[q] \ {c}
  BY <1>1 DEF TypeOK, ServerTyped
<1>4. ControllersTyped' /\ ChannelsTyped' /\ HistoryTyped'
  BY <1>1, <1>2 DEF TypeOK, ControllersTyped, ChannelsTyped, HistoryTyped
<1>5. ServerTyped'
  BY <1>1, <1>3 DEF TypeOK, ServerTyped
<1>6. LogGrows
  BY <1>1 DEF LogGrows, Settled
<1>7. DownTrue' /\ GreenletsTrue' /\ InstallBeforeForward'
  BY <1>1, <1>6, LogGrowsOnly
<1>8. ThreadsTrue' /\ PathIdsFresh'
  BY <1>1, <1>3 DEF ThreadsTrue, PathIdsFresh
<1>9. UpTrue'
  BY <1>1, <1>2 DEF UpTrue
<1>10. EntriesTrue'
  BY <1>1, <1>2, <1>3 DEF EntriesTrue
<1> QED BY <1>4, <1>5, <1>7, <1>8, <1>9, <1>10 DEF TypeOK

LEMMA RouteFailedInv ==
    ASSUME HandshakeInv, NEW c \in Controllers, RouteFailed(c)
    PROVE  HandshakeInv'
<1> USE DEF HandshakeInv, ctlVars, history
<1> DEFINE m == Error(job[c].key)
<1>1. /\ thread[c] = "route" /\ thread' = [thread EXCEPT ![c] = "recv"]
      /\ job' = [job EXCEPT ![c] = Idle]
      /\ Deliver(c, m)
      /\ UNCHANGED <<ctlVars, up, clients, toSend, time_ns, pending_path_installs, history>>
  BY DEF RouteFailed
<1>2. m \in Responses \cup Errors /\ m.type # "path_response"
  BY <1>1 DEF ThreadsTrue, Requests, Error, Errors
<1> HIDE DEF m
<1>3. /\ down' \in [Controllers -> Seq(Responses \cup Errors)]
      /\ \A d \in Controllers :
           InTransit(down'[d]) \subseteq InTransit(down[d]) \cup (IF d = c THEN {m} ELSE {})
  BY <1>1, <1>2, Delivered
<1>4. TypeOK'
  <2>1. ControllersTyped' /\ ChannelsTyped'
    BY <1>1, <1>3 DEF TypeOK, ControllersTyped, ChannelsTyped
  <2>2. ServerTyped'
    BY <1>1 DEF TypeOK, ServerTyped
  <2>3. HistoryTyped'
    BY <1>1 DEF TypeOK, HistoryTyped
  <2> QED BY <2>1, <2>2, <2>3 DEF TypeOK
<1>5. LogGrows
  BY <1>1 DEF LogGrows, Settled
<1>6. UpTrue' /\ EntriesTrue' /\ GreenletsTrue' /\ InstallBeforeForward'
  BY <1>1, <1>5, LogGrowsOnly
<1>7. ThreadsTrue' /\ PathIdsFresh'
  BY <1>1 DEF ThreadsTrue, PathIdsFresh, TypeOK, ServerTyped
<1>8. DownTrue'
  BY <1>1, <1>2, <1>3, <1>5 DEF DownTrue, LogGrows
<1> QED BY <1>4, <1>6, <1>7, <1>8

\* A new path id is in nobody's hands, so the new entry says nothing false.
LEMMA RouteFoundInv ==
    ASSUME HandshakeInv, NEW c \in Controllers, RouteFound(c)
    PROVE  HandshakeInv'
<1> USE DEF HandshakeInv, ctlVars
<1> DEFINE p == <<c, time_ns[c] + 1>>
           k == job[c].key
<1>1. PICK owners \in Routes[k] :
        LET others == (owners \cap clients) \ {c} IN
        /\ time_ns' = [time_ns EXCEPT ![c] = @ + 1]
        /\ job' = [job EXCEPT ![c] = Response(p, k)]
        /\ toSend' = [toSend EXCEPT ![c] = others]
        /\ pending_path_installs' =
             [q \in DOMAIN pending_path_installs \cup {p} |->
                IF q = p THEN others ELSE pending_path_installs[q]]
        /\ log' = [q \in DOMAIN log \cup {p} |->
                     IF q = p
                     THEN [key |-> k, targets |-> others, installed |-> {},
                           confirmed |-> {}, missing |-> {}]
                     ELSE log[q]]
  BY DEF RouteFound
<1> DEFINE others == (owners \cap clients) \ {c}
<1>2. /\ thread[c] = "route" /\ thread' = [thread EXCEPT ![c] = "send"]
      /\ UNCHANGED <<ctlVars, up, down, clients, requests, punted, released>>
  BY DEF RouteFound
<1>3. k \in Keys
  BY <1>2 DEF ThreadsTrue, Requests
<1>4. p \in PathIds /\ p \notin DOMAIN log
  BY DEF TypeOK, ServerTyped, PathIds, PathIdsFresh
<1>5. others \subseteq Controllers /\ c \notin others
  BY DEF TypeOK, ServerTyped
<1>6. Response(p, k) \in Responses
  BY <1>3, <1>4 DEF Response, Responses
<1>7. /\ DOMAIN log' = DOMAIN log \cup {p}
      /\ \A q \in DOMAIN log : log'[q] = log[q]
      /\ log'[p].targets = others
  BY <1>1, <1>4
<1>8. /\ DOMAIN pending_path_installs' = DOMAIN pending_path_installs \cup {p}
      /\ \A q \in DOMAIN pending_path_installs :
           q # p => pending_path_installs'[q] = pending_path_installs[q]
      /\ pending_path_installs'[p] = others
  BY <1>1
<1>9. ControllersTyped' /\ ChannelsTyped'
  BY <1>2 DEF TypeOK, ControllersTyped, ChannelsTyped
<1>10. ServerTyped'
  <2>1. /\ thread' \in [Controllers -> {"recv", "route", "send"}]
        /\ toSend' \in [Controllers -> SUBSET Controllers]
        /\ time_ns' \in [Controllers -> Nat]
    BY <1>1, <1>2, <1>5 DEF TypeOK, ServerTyped
  <2>2. job' \in [Controllers -> Requests \cup Responses \cup {Idle}]
    BY <1>1, <1>6 DEF TypeOK, ServerTyped
  <2>3. /\ DOMAIN pending_path_installs' \in SUBSET PathIds
        /\ pending_path_installs' \in
               [DOMAIN pending_path_installs' -> SUBSET Controllers]
    BY <1>1, <1>4, <1>5 DEF TypeOK, ServerTyped
  <2> QED BY <1>2, <2>1, <2>2, <2>3 DEF TypeOK, ServerTyped
<1>11. HistoryTyped'
  <2>1. [key |-> k, targets |-> others, installed |-> {}, confirmed |-> {},
         missing |-> {}] \in Log
    BY <1>3, <1>5 DEF Log
  <2>2. DOMAIN log' \in SUBSET PathIds /\ log' \in [DOMAIN log' -> Log]
    BY <1>1, <1>4, <2>1 DEF TypeOK, HistoryTyped
  <2> QED BY <1>2, <2>2 DEF TypeOK, HistoryTyped
<1>12. LogGrows
  BY <1>7 DEF LogGrows, Settled
<1>13. UpTrue' /\ DownTrue' /\ GreenletsTrue' /\ InstallBeforeForward'
  BY <1>2, <1>12, LogGrowsOnly
<1>14. EntriesTrue'
  BY <1>4, <1>7, <1>8 DEF EntriesTrue
<1>15. PathIdsFresh'
  <2>1. \A q \in DOMAIN log : q[2] <= time_ns'[q[1]]
    <3>1. \A q \in DOMAIN log : /\ q[1] \in Controllers /\ q[2] \in Nat
                               /\ q[2] <= time_ns[q[1]]
      BY DEF PathIdsFresh, TypeOK, HistoryTyped, PathIds
    <3> QED BY <1>1, <3>1 DEF TypeOK, ServerTyped
  <2>2. p[2] <= time_ns'[p[1]]
    BY <1>1 DEF TypeOK, ServerTyped
  <2> QED BY <1>7, <2>1, <2>2 DEF PathIdsFresh
<1>16. ThreadsTrue'
  <2>1. \A d \in Controllers : d # c =>
          /\ thread'[d] = thread[d] /\ job'[d] = job[d] /\ toSend'[d] = toSend[d]
    BY <1>1, <1>2 DEF TypeOK, ServerTyped
  <2>2. /\ thread'[c] = "send" /\ job'[c] = Response(p, k) /\ toSend'[c] = others
    BY <1>1, <1>2 DEF TypeOK, ServerTyped
  <2>3. Response(p, k).path_id = p /\ Response(p, k).key = k /\ p[1] = c
    BY DEF Response
  <2> QED BY <1>3, <1>5, <1>6, <1>8, <2>1, <2>2, <2>3 DEF ThreadsTrue
<1> QED BY <1>9, <1>10, <1>11, <1>13, <1>14, <1>15, <1>16 DEF TypeOK

\* The requester is not among the targets, so what it is not yet promised does
\* not reach it here.
LEMMA SendToTargetInv ==
    ASSUME HandshakeInv, NEW c \in Controllers, SendToTarget(c)
    PROVE  HandshakeInv'
<1> USE DEF HandshakeInv, ctlVars, history
<1>1. PICK d \in toSend[c] :
        toSend' = [toSend EXCEPT ![c] = @ \ {d}] /\ Deliver(d, job[c])
  BY DEF SendToTarget
<1>2. /\ thread[c] = "send"
      /\ UNCHANGED <<ctlVars, up, clients, thread, job, time_ns, pending_path_installs, history>>
  BY DEF SendToTarget
<1>3. /\ d \in Controllers /\ d # c
      /\ job[c] \in Responses /\ job[c].path_id \in DOMAIN log
      /\ job[c].path_id[1] = c
  BY <1>2 DEF ThreadsTrue, EntriesTrue, TypeOK, ServerTyped
<1>4. /\ down' \in [Controllers -> Seq(Responses \cup Errors)]
      /\ \A e \in Controllers :
           InTransit(down'[e]) \subseteq InTransit(down[e]) \cup (IF e = d THEN {job[c]} ELSE {})
  BY <1>1, <1>3, Delivered
<1>5. ControllersTyped' /\ ChannelsTyped' /\ HistoryTyped'
  BY <1>2, <1>4 DEF TypeOK, ControllersTyped, ChannelsTyped, HistoryTyped
<1>6. ServerTyped'
  BY <1>1, <1>2 DEF TypeOK, ServerTyped
<1>7. LogGrows
  BY <1>2 DEF LogGrows, Settled
<1>8. UpTrue' /\ EntriesTrue' /\ GreenletsTrue' /\ InstallBeforeForward'
  BY <1>2, <1>7, LogGrowsOnly
<1>9. ThreadsTrue' /\ PathIdsFresh'
  BY <1>1, <1>2 DEF ThreadsTrue, PathIdsFresh, TypeOK, ServerTyped
<1>10. DownTrue'
  BY <1>2, <1>3, <1>4, <1>7 DEF DownTrue, LogGrows
<1> QED BY <1>5, <1>6, <1>8, <1>9, <1>10 DEF TypeOK

\* With no ack missing every target has installed the path; with some missing
\* the server gave up: the answer to the requester is settled either way.
LEMMA AnswerInv ==
    ASSUME HandshakeInv, NEW c \in Controllers, thread[c] = "send",
           Answer(c, pending_path_installs[job[c].path_id])
    PROVE  HandshakeInv'
<1> USE DEF HandshakeInv, ctlVars
<1> DEFINE p == job[c].path_id
           missing == pending_path_installs[p]
<1>1. /\ thread' = [thread EXCEPT ![c] = "recv"]
      /\ job' = [job EXCEPT ![c] = Idle]
      /\ pending_path_installs' =
           [q \in DOMAIN pending_path_installs \ {p} |-> pending_path_installs[q]]
      /\ Deliver(c, job[c])
      /\ log' = [log EXCEPT ![p].missing = missing]
      /\ UNCHANGED <<ctlVars, up, clients, toSend, time_ns, requests, punted, released>>
  BY DEF Answer, Popped
<1>2. /\ job[c] \in Responses /\ p \in DOMAIN log /\ p \in PathIds
      /\ p[1] = c
      /\ p \in DOMAIN pending_path_installs
      /\ log[p].targets \ missing \subseteq log[p].installed
      /\ missing \in SUBSET Controllers
  BY DEF ThreadsTrue, EntriesTrue, TypeOK, HistoryTyped, ServerTyped
<1>3. log[p] \in Log
  BY <1>2 DEF TypeOK, HistoryTyped
<1>4. /\ DOMAIN log' = DOMAIN log
      /\ log' \in [DOMAIN log -> Log]
      /\ \A q \in DOMAIN log : q # p => log'[q] = log[q]
      /\ log'[p].targets = log[p].targets
      /\ log'[p].installed = log[p].installed
      /\ log'[p].missing = missing
  BY <1>1, <1>2, <1>3 DEF TypeOK, HistoryTyped, Log
<1>5. log'[p].targets \subseteq log'[p].installed \cup log'[p].missing
  BY <1>2, <1>4
<1>6. LogGrows
  <2> SUFFICES ASSUME NEW q \in DOMAIN log
               PROVE  /\ q \in DOMAIN log'
                      /\ log'[q].targets = log[q].targets
                      /\ log[q].installed \subseteq log'[q].installed
                      /\ Settled(q) => Settled(q)'
    BY DEF LogGrows
  <2>1. CASE q = p
    <3>1. Settled(q)'
      BY <2>1, <1>2, <1>4 DEF Settled
    <3> QED BY <2>1, <3>1, <1>4
  <2>2. CASE q # p
    BY <2>2, <1>4 DEF Settled
  <2> QED BY <2>1, <2>2
<1>7. /\ down' \in [Controllers -> Seq(Responses \cup Errors)]
      /\ \A e \in Controllers :
           InTransit(down'[e]) \subseteq InTransit(down[e]) \cup (IF e = c THEN {job[c]} ELSE {})
  BY <1>1, <1>2, Delivered
<1>8. ControllersTyped' /\ ChannelsTyped'
  BY <1>1, <1>7 DEF TypeOK, ControllersTyped, ChannelsTyped
<1>9. HistoryTyped'
  BY <1>1, <1>4 DEF TypeOK, HistoryTyped
<1>10. ServerTyped'
  BY <1>1 DEF TypeOK, ServerTyped
<1>11. UpTrue' /\ GreenletsTrue' /\ InstallBeforeForward'
  BY <1>1, <1>6, LogGrowsOnly
<1>12. PathIdsFresh'
  BY <1>1, <1>4 DEF PathIdsFresh
<1>13. ThreadsTrue'
  <2>1. \A d \in Controllers : d # c => thread'[d] = thread[d] /\ job'[d] = job[d]
    BY <1>1 DEF TypeOK, ServerTyped
  <2>2. thread'[c] = "recv"
    BY <1>1 DEF TypeOK, ServerTyped
  <2>3. \A d \in Controllers : d # c /\ thread[d] = "send" => job[d].path_id # p
    BY <1>2 DEF ThreadsTrue
  <2> QED BY <1>1, <2>1, <2>2, <2>3 DEF ThreadsTrue
<1>14. EntriesTrue'
  BY <1>1, <1>4 DEF EntriesTrue
<1>15. DownTrue'
  <2> SUFFICES ASSUME NEW e \in Controllers, NEW m \in InTransit(down'[e]),
                      m.type = "path_response"
               PROVE  /\ m.path_id \in DOMAIN log'
                      /\ m.path_id[1] = e => 
                           log'[m.path_id].targets \subseteq
                              log'[m.path_id].installed \cup log'[m.path_id].missing
    BY DEF DownTrue, Settled
  <2>1. CASE m \in InTransit(down[e])
    BY <2>1, <1>6 DEF DownTrue, LogGrows, Settled
  <2>2. CASE m = job[c]
    BY <2>2, <1>2, <1>4, <1>5 DEF Settled
  <2> QED BY <2>1, <2>2, <1>7
<1> QED BY <1>8, <1>9, <1>10, <1>11, <1>12, <1>13, <1>14, <1>15 DEF TypeOK

LEMMA ConnectionLossInv ==
    ASSUME HandshakeInv, NEW c \in Controllers, LoseConnection(c) \/ Cleanup(c)
    PROVE  HandshakeInv'
<1> USE DEF HandshakeInv, ctlVars, srvVars, history
<1>1. /\ UNCHANGED <<asked, queue, greenlet, current, barriers_ok, thread, job, toSend,
                     time_ns, pending_path_installs, history>>
      /\ is_connected' \in [Controllers -> BOOLEAN]
      /\ clients' \subseteq Controllers
  BY DEF LoseConnection, Cleanup, TypeOK, ControllersTyped, ServerTyped
<1>2. /\ down' \in [Controllers -> Seq(Responses \cup Errors)]
      /\ \A d \in Controllers : InTransit(down'[d]) \subseteq InTransit(down[d])
  <2>1. CASE LoseConnection(c)
    <3>1. PICK rest \in Buffered(greenlet[c] # "recv", down[c]) :
             down' = [down EXCEPT ![c] = rest]
      BY <2>1 DEF LoseConnection
    <3>2. down[c] \in Seq(Responses \cup Errors) /\ (greenlet[c] # "recv") \in BOOLEAN
      BY DEF TypeOK, ChannelsTyped
    <3>3. rest \in Seq(Responses \cup Errors) /\ InTransit(rest) \subseteq InTransit(down[c])
      BY <3>2, BufferedInTransit
    <3> QED BY <3>1, <3>3 DEF TypeOK, ChannelsTyped
  <2>2. CASE Cleanup(c)
    BY <2>2 DEF Cleanup, TypeOK, ChannelsTyped
  <2> QED BY <2>1, <2>2
<1>3. /\ up' \in [Controllers -> Seq(Requests \cup Acks)]
      /\ \A d \in Controllers : InTransit(up'[d]) \subseteq InTransit(up[d])
  <2>1. CASE Cleanup(c)
    <3>1. PICK rest \in Buffered(thread[c] # "recv", up[c]) :
             up' = [up EXCEPT ![c] = rest]
      BY <2>1 DEF Cleanup
    <3>2. up[c] \in Seq(Requests \cup Acks) /\ (thread[c] # "recv") \in BOOLEAN
      BY DEF TypeOK, ChannelsTyped
    <3>3. rest \in Seq(Requests \cup Acks) /\ InTransit(rest) \subseteq InTransit(up[c])
      BY <3>2, BufferedInTransit
    <3> QED BY <3>1, <3>3 DEF TypeOK, ChannelsTyped
  <2>2. CASE LoseConnection(c)
    BY <2>2 DEF LoseConnection, TypeOK, ChannelsTyped
  <2> QED BY <2>1, <2>2
<1>4. TypeOK'
  BY <1>1, <1>2, <1>3
     DEF TypeOK, ControllersTyped, ChannelsTyped, ServerTyped, HistoryTyped
<1>5. LogGrows
  BY <1>1 DEF LogGrows, Settled
<1>6. EntriesTrue' /\ GreenletsTrue' /\ InstallBeforeForward'
  BY <1>1, <1>5, LogGrowsOnly
<1>7. ThreadsTrue' /\ PathIdsFresh'
  BY <1>1 DEF ThreadsTrue, PathIdsFresh
<1>8. UpTrue'
  BY <1>1, <1>3 DEF UpTrue
<1>9. DownTrue'
  BY <1>2, <1>5 DEF DownTrue, LogGrows
<1> QED BY <1>4, <1>6, <1>7, <1>8, <1>9

LEMMA HandshakeStep == HandshakeInv /\ [Next]_vars => HandshakeInv'
<1> SUFFICES ASSUME HandshakeInv, [Next]_vars PROVE HandshakeInv'
  OBVIOUS
<1>1. CASE \E k \in Keys : QueuePacket(k) \/ RequestPath(k) \/ Age(k)
  BY <1>1, QueuePacketInv, RequestPathInv, AgeInv
<1>2. CASE \E c \in Controllers : ControllerStep(c)
  BY <1>2, ReceivePathInv, BarrierDoneInv, SendAckInv, ReleaseQueueInv DEF ControllerStep
<1>3. CASE \E c \in Controllers : ThreadStep(c)
  <2>1. PICK c \in Controllers : ThreadStep(c)
    BY <1>3
  <2>2. CASE AllAcked(c) \/ WaitTimeout(c)
    <3>1. thread[c] = "send" /\ Answer(c, pending_path_installs[job[c].path_id])
      BY <2>2 DEF AllAcked, WaitTimeout, Missing
    <3> QED BY <3>1, AnswerInv
  <2> QED BY <2>1, <2>2, ReadRequestInv, ReadAckInv, RouteFailedInv, RouteFoundInv,
             SendToTargetInv DEF ThreadStep
<1>4. CASE \E c \in Controllers :
             LoseConnection(c) \/ Cleanup(c) \/ \E k \in Keys : Reroute(c, k)
  BY <1>4, ConnectionLossInv, RerouteInv
<1>5. CASE UNCHANGED vars
  <2> USE <1>5 DEF HandshakeInv, vars, ctlVars, srvVars, history
  <2>1. TypeOK'
    BY DEF TypeOK, ControllersTyped, ChannelsTyped, ServerTyped, HistoryTyped
  <2>2. LogGrows
    BY DEF LogGrows, Settled
  <2>3. UpTrue' /\ DownTrue' /\ EntriesTrue' /\ GreenletsTrue' /\ InstallBeforeForward'
    BY <2>2, LogGrowsOnly
  <2>4. ThreadsTrue' /\ PathIdsFresh'
    BY DEF ThreadsTrue, PathIdsFresh
  <2> QED BY <2>1, <2>3, <2>4
<1> QED BY <1>1, <1>2, <1>3, <1>4, <1>5 DEF Next

-----------------------------------------------------------------------------
\* Everything the server, the controllers and the messages between them say of
\* a path is true of it, in every reachable state.
THEOREM HandshakeCorrect == Spec => []HandshakeInv
<1>1. Init => HandshakeInv
  BY HandshakeInit
<1>2. HandshakeInv /\ [Next]_vars => HandshakeInv'
  BY HandshakeStep
<1> QED BY <1>1, <1>2, PTL DEF Spec

\* The state variables keep their types.
THEOREM TypeCorrect == Spec => []TypeOK
<1>1. HandshakeInv => TypeOK
  BY DEF HandshakeInv
<1> QED BY <1>1, HandshakeCorrect, PTL

\* No queued packet is forwarded by the first hop before the path it takes is
\* installed there and, if its controller asked for the path, at every other
\* owner the server did not give up on.
THEOREM InstallBeforeForwardHolds == Spec => []InstallBeforeForward
<1>1. HandshakeInv => InstallBeforeForward
  BY DEF HandshakeInv
<1> QED BY <1>1, HandshakeCorrect, PTL

-----------------------------------------------------------------------------
(* The queue of a key and what was forwarded from it: QueueInv *)

\* The packets of q are younger than those of r, both are in order, and none is
\* younger than the last that was punted.
Ordered(q, r, last) ==
    /\ \A n \in 1..Len(q) : q[n] <= last
    /\ \A n \in 1..Len(r) : r[n].pkt <= last
    /\ \A m, n \in 1..Len(q) : m < n => q[m] < q[n]
    /\ \A m, n \in 1..Len(r) : m < n => r[m].pkt < r[n].pkt
    /\ \A m \in 1..Len(r), n \in 1..Len(q) : r[m].pkt < q[n]

Released == [pkt : Nat, path_id : PathIds]

OrderInv ==
    /\ TypeOK
    /\ QueueBounded
    /\ \A k \in Keys : Ordered(queue[k], released[k], punted[k])

\* The numbers that Ordered compares are numbers.
LEMMA PacketNumbers ==
    ASSUME NEW q \in Seq(Nat), NEW r \in Seq(Released)
    PROVE  /\ \A n \in 1..Len(q) : q[n] \in Nat
           /\ \A n \in 1..Len(r) : r[n].pkt \in Nat
<1>1. \A n \in 1..Len(r) : r[n] \in Released
  OBVIOUS
<1> QED BY <1>1 DEF Released

\* The next packet comes last, or alone, or is not kept.
LEMMA NextOrdered ==
    ASSUME NEW q \in Seq(Nat), NEW r \in Seq(Released), NEW last \in Nat, Ordered(q, r, last)
    PROVE  /\ Ordered(<<>>, r, last)
           /\ Ordered(q, r, last + 1)
           /\ Ordered(<<last + 1>>, r, last + 1)
           /\ Ordered(Append(q, last + 1), r, last + 1)
<1>1. /\ \A n \in 1..Len(q) : q[n] \in Nat /\ q[n] <= last
      /\ \A n \in 1..Len(r) : r[n].pkt \in Nat /\ r[n].pkt <= last
  BY PacketNumbers DEF Ordered
<1>2. Ordered(<<>>, r, last)
  BY DEF Ordered
<1>3. Ordered(q, r, last + 1)
  <2>1. /\ \A n \in 1..Len(q) : q[n] <= last + 1
        /\ \A n \in 1..Len(r) : r[n].pkt <= last + 1
    BY <1>1
  <2> QED BY <2>1 DEF Ordered
<1>4. Ordered(<<last + 1>>, r, last + 1)
  <2> DEFINE a == <<last + 1>>
  <2>1. Len(a) = 1 /\ a[1] = last + 1
    OBVIOUS
  <2> HIDE DEF a
  <2>2. \A n \in 1..Len(a) : n = 1 /\ a[n] = last + 1
    BY <2>1
  <2>3. \A m \in 1..Len(r), n \in 1..Len(a) : r[m].pkt < a[n]
    BY <1>1, <2>2
  <2>4. /\ \A n \in 1..Len(a) : a[n] <= last + 1
        /\ \A m, n \in 1..Len(a) : m < n => a[m] < a[n]
    BY <2>2
  <2>5. Ordered(a, r, last + 1)
    BY <1>3, <2>3, <2>4 DEF Ordered
  <2> QED BY <2>5 DEF a
<1>5. Ordered(Append(q, last + 1), r, last + 1)
  <2> DEFINE a == Append(q, last + 1)
  <2>1. /\ Len(q) \in Nat /\ Len(a) = Len(q) + 1 /\ a[Len(q) + 1] = last + 1
        /\ \A n \in 1..Len(q) : a[n] = q[n]
    OBVIOUS
  <2> HIDE DEF a
  <2>2. \A n \in 1..Len(a) : \/ n \in 1..Len(q) /\ a[n] = q[n]
                             \/ n = Len(q) + 1 /\ a[n] = last + 1
    BY <2>1
  <2>3. ASSUME NEW n \in 1..Len(a) PROVE a[n] <= last + 1
    <3>1. CASE n \in 1..Len(q) /\ a[n] = q[n]
      <4>1. q[n] \in Nat /\ q[n] <= last
        BY <1>1, <3>1
      <4> QED BY <3>1, <4>1
    <3>2. CASE n = Len(q) + 1 /\ a[n] = last + 1 BY <3>2
    <3> QED BY <2>2, <3>1, <3>2
  <2>4. ASSUME NEW m \in 1..Len(a), NEW n \in 1..Len(a), m < n
        PROVE  a[m] < a[n]
    <3>1. m \in 1..Len(q) /\ a[m] = q[m] /\ q[m] \in Nat /\ q[m] <= last
      <4>1. m \in 1..Len(q)
        BY <2>1, <2>4
      <4> QED BY <1>1, <2>1, <4>1
    <3>2. CASE n \in 1..Len(q) /\ a[n] = q[n] BY <2>4, <3>1, <3>2 DEF Ordered
    <3>3. CASE n = Len(q) + 1 /\ a[n] = last + 1 BY <3>1, <3>3
    <3> QED BY <2>2, <3>2, <3>3
  <2>5. ASSUME NEW m \in 1..Len(r), NEW n \in 1..Len(a)
        PROVE  r[m].pkt < a[n]
    <3>1. CASE n \in 1..Len(q) /\ a[n] = q[n] BY <3>1 DEF Ordered
    <3>2. CASE n = Len(q) + 1 /\ a[n] = last + 1 BY <1>1, <3>2
    <3> QED BY <2>2, <3>1, <3>2
  <2>6. Ordered(a, r, last + 1)
    BY <1>3, <2>3, <2>4, <2>5 DEF Ordered
  <2> QED BY <2>6 DEF a
<1> QED BY <1>2, <1>3, <1>4, <1>5

\* The queue moves behind what has been forwarded.
LEMMA MovedOrdered ==
    ASSUME NEW q \in Seq(Nat), NEW r \in Seq(Released), NEW last \in Nat, Ordered(q, r, last),
           NEW p \in PathIds
    PROVE  Ordered(<<>>, r \o [n \in 1..Len(q) |-> [pkt |-> q[n], path_id |-> p]], last)
<1> DEFINE moved == [n \in 1..Len(q) |-> [pkt |-> q[n], path_id |-> p]]
           all   == r \o moved
<1>1. moved \in Seq(Released) /\ Len(moved) = Len(q) /\ \A n \in 1..Len(q) : moved[n].pkt = q[n]
  BY DEF Released
<1> HIDE DEF moved
<1>2. \A n \in 1..Len(all) :
        \/ n \in 1..Len(r) /\ all[n] = r[n]
        \/ n - Len(r) \in 1..Len(moved) /\ all[n] = moved[n - Len(r)]
  <2>1. \A n \in 1..Len(r \o moved) :
          \/ n \in 1..Len(r) /\ (r \o moved)[n] = r[n]
          \/ n - Len(r) \in 1..Len(moved) /\ (r \o moved)[n] = moved[n - Len(r)]
    BY <1>1, ConcatElements
  <2> QED BY <2>1
<1> HIDE DEF all
<1>3. \A n \in 1..Len(all) :
        \/ n \in 1..Len(r) /\ all[n].pkt = r[n].pkt
        \/ n - Len(r) \in 1..Len(q) /\ all[n].pkt = q[n - Len(r)]
  BY <1>1, <1>2
<1>4. \A n \in 1..Len(all) : all[n].pkt <= last
  BY <1>3 DEF Ordered
<1>5. ASSUME NEW m \in 1..Len(all), NEW n \in 1..Len(all), m < n
      PROVE  all[m].pkt < all[n].pkt
  <2>1. CASE n \in 1..Len(r) /\ all[n].pkt = r[n].pkt
    <3>1. m \in 1..Len(r) /\ all[m].pkt = r[m].pkt
      BY <1>3, <1>5, <2>1
    <3> QED BY <1>5, <2>1, <3>1 DEF Ordered
  <2>2. CASE n - Len(r) \in 1..Len(q) /\ all[n].pkt = q[n - Len(r)]
    <3>1. CASE m \in 1..Len(r) /\ all[m].pkt = r[m].pkt
      BY <2>2, <3>1 DEF Ordered
    <3>2. CASE m - Len(r) \in 1..Len(q) /\ all[m].pkt = q[m - Len(r)]
      <4>1. m - Len(r) < n - Len(r)
        BY <1>5
      <4> QED BY <2>2, <3>2, <4>1 DEF Ordered
    <3> QED BY <1>3, <3>1, <3>2
  <2> QED BY <1>3, <2>1, <2>2
<1>6. Ordered(<<>>, all, last)
  <2>1. Len(<<>>) = 0 /\ 1..0 = {}
    OBVIOUS
  <2> QED BY <1>4, <1>5, <2>1 DEF Ordered
<1> QED BY <1>6 DEF all, moved

LEMMA QueuePacketOrder == ASSUME OrderInv, TypeOK', NEW k \in Keys, QueuePacket(k) PROVE OrderInv'
<1> USE DEF OrderInv
<1>1. /\ asked[k] = "fresh" /\ punted' = [punted EXCEPT ![k] = @ + 1] /\ released' = released
      /\ asked' = [j \in Keys |-> IF j \in Expired(k) THEN "none" ELSE asked[j]]
      /\ queue' = [j \in Keys |-> IF j = k THEN Enqueue(queue[k], punted[k] + 1)
                                  ELSE IF j \in Expired(k) THEN <<>> ELSE queue[j]]
  BY DEF QueuePacket, Punt
<1>2. k \notin Expired(k) /\ MaxPending \in Nat \ {0}
  BY <1>1, ConstantsAssumption DEF Expired
<1>3. \A j \in Keys : queue[j] \in Seq(Nat) /\ released[j] \in Seq(Released) /\ punted[j] \in Nat
  BY DEF TypeOK, ControllersTyped, HistoryTyped, Released
<1>4. QueueBounded'
  <2> SUFFICES ASSUME NEW j \in Keys
               PROVE  Len(queue'[j]) <= MaxPending /\ (asked'[j] = "none" => queue'[j] = <<>>)
    BY DEF QueueBounded
  <2>1. CASE j = k
    <3>1. Len(Enqueue(queue[k], punted[k] + 1)) <= MaxPending
      BY <1>2, <1>3 DEF QueueBounded, Enqueue
    <3> QED BY <1>1, <1>2, <2>1, <3>1
  <2>2. CASE j # k
    BY <1>1, <1>2, <2>2 DEF QueueBounded
  <2> QED BY <2>1, <2>2
<1>5. ASSUME NEW j \in Keys PROVE Ordered(queue'[j], released'[j], punted'[j])
  <2>1. CASE j = k
    <3>1. punted'[j] = punted[k] + 1 /\ released'[j] = released[k]
      BY <1>1, <2>1 DEF TypeOK, HistoryTyped
    <3>2. queue'[j] \in {queue[k], Append(queue[k], punted[k] + 1)}
      BY <1>1, <2>1 DEF Enqueue
    <3> QED BY <1>3, <3>1, <3>2, NextOrdered
  <2>2. CASE j # k
    <3>1. punted'[j] = punted[j] /\ released'[j] = released[j] /\ queue'[j] \in {<<>>, queue[j]}
      BY <1>1, <2>2 DEF TypeOK, HistoryTyped
    <3> QED BY <1>3, <3>1, NextOrdered
  <2> QED BY <2>1, <2>2
<1> QED BY <1>4, <1>5

LEMMA RequestPathOrder == ASSUME OrderInv, TypeOK', NEW k \in Keys, RequestPath(k) PROVE OrderInv'
<1> USE DEF OrderInv
<1>1. /\ punted' = [punted EXCEPT ![k] = @ + 1] /\ released' = released
      /\ asked' = [j \in Keys |-> IF j = k THEN "fresh"
                                  ELSE IF j \in Expired(k) THEN "none" ELSE asked[j]]
      /\ queue' = [j \in Keys |-> IF j = k THEN <<punted[k] + 1>>
                                  ELSE IF j \in Expired(k) THEN <<>> ELSE queue[j]]
  BY DEF RequestPath, Punt
<1>2. \A j \in Keys : queue[j] \in Seq(Nat) /\ released[j] \in Seq(Released) /\ punted[j] \in Nat
  BY DEF TypeOK, ControllersTyped, HistoryTyped, Released
<1>3. QueueBounded'
  <2> SUFFICES ASSUME NEW j \in Keys
               PROVE  Len(queue'[j]) <= MaxPending /\ (asked'[j] = "none" => queue'[j] = <<>>)
    BY DEF QueueBounded
  <2>1. Len(<<punted[k] + 1>>) <= MaxPending /\ Len(<<>>) <= MaxPending
    BY ConstantsAssumption
  <2> QED BY <1>1, <2>1 DEF QueueBounded
<1>4. ASSUME NEW j \in Keys PROVE Ordered(queue'[j], released'[j], punted'[j])
  <2>1. CASE j = k
    <3>1. punted'[j] = punted[k] + 1 /\ released'[j] = released[k] /\ queue'[j] = <<punted[k] + 1>>
      BY <1>1, <2>1 DEF TypeOK, HistoryTyped
    <3> QED BY <1>2, <3>1, NextOrdered
  <2>2. CASE j # k
    <3>1. punted'[j] = punted[j] /\ released'[j] = released[j] /\ queue'[j] \in {<<>>, queue[j]}
      BY <1>1, <2>2 DEF TypeOK, HistoryTyped
    <3> QED BY <1>2, <3>1, NextOrdered
  <2> QED BY <2>1, <2>2
<1> QED BY <1>3, <1>4

LEMMA ReleaseQueueOrder ==
    ASSUME OrderInv, HandshakeInv, TypeOK', NEW c \in Controllers, ReleaseQueue(c)
    PROVE  OrderInv'
<1> USE DEF OrderInv
<1> DEFINE k == current[c].key
           p == current[c].path_id
           moved == [n \in 1..Len(queue[k]) |-> [pkt |-> queue[k][n], path_id |-> p]]
<1>1. k \in Keys /\ p \in PathIds /\ punted' = punted
  BY DEF ReleaseQueue, HandshakeInv, GreenletsTrue, Responses
<1>2. \A j \in Keys : queue[j] \in Seq(Nat) /\ released[j] \in Seq(Released) /\ punted[j] \in Nat
  BY DEF TypeOK, ControllersTyped, HistoryTyped, Released
<1>3. CASE UNCHANGED <<asked, queue, released>>
  BY <1>1, <1>3 DEF QueueBounded
<1>4. CASE /\ asked' = [asked EXCEPT ![k] = "none"] /\ queue' = [queue EXCEPT ![k] = <<>>]
           /\ released' \in {released, [released EXCEPT ![k] = @ \o moved]}
  <2> HIDE DEF k
  <2>1. QueueBounded'
    <3>1. Len(<<>>) <= MaxPending
      BY ConstantsAssumption
    <3> QED BY <1>1, <1>4, <3>1 DEF QueueBounded, TypeOK, ControllersTyped
  <2>2. /\ Ordered(<<>>, released[k], punted[k])
        /\ Ordered(<<>>, released[k] \o moved, punted[k])
    BY <1>1, <1>2, NextOrdered, MovedOrdered
  <2>3. queue'[k] = <<>> /\ released'[k] \in {released[k], released[k] \o moved}
    BY <1>1, <1>4 DEF TypeOK, ControllersTyped, HistoryTyped
  <2>4. \A j \in Keys \ {k} : queue'[j] = queue[j] /\ released'[j] = released[j]
    BY <1>4 DEF TypeOK, ControllersTyped, HistoryTyped
  <2> HIDE DEF moved
  <2>5. \A j \in Keys : Ordered(queue'[j], released'[j], punted'[j])
    BY <1>1, <2>2, <2>3, <2>4
  <2> QED BY <2>1, <2>5
<1> QED BY <1>3, <1>4 DEF ReleaseQueue

LEMMA OrderStep == OrderInv /\ HandshakeInv /\ TypeOK' /\ [Next]_vars => OrderInv'
<1> SUFFICES ASSUME OrderInv, HandshakeInv, TypeOK', [Next]_vars PROVE OrderInv'
  OBVIOUS
<1>1. CASE \E k \in Keys : QueuePacket(k) \/ RequestPath(k)
  BY <1>1, QueuePacketOrder, RequestPathOrder
<1>2. CASE \E c \in Controllers : ReleaseQueue(c)
  BY <1>2, ReleaseQueueOrder
<1>3. CASE \E k \in Keys : Age(k)
  <2>1. PICK k \in Keys : Age(k)
    BY <1>3
  <2>2. UNCHANGED <<queue, punted, released>> /\ asked[k] # "none"
        /\ \A j \in Keys : asked'[j] = "none" => asked[j] = "none"
    BY <2>1, ConstantsAssumption DEF Age, history, OrderInv, TypeOK, ControllersTyped
  <2> QED BY <2>2 DEF OrderInv, QueueBounded
<1>4. CASE UNCHANGED <<asked, queue, punted, released>>
  BY <1>4 DEF OrderInv, QueueBounded
<1>5. CASE \E c \in Controllers : ThreadStep(c)
  <2>1. UNCHANGED ctlVars /\ UNCHANGED <<punted, released>>
    <3>1. CASE \E c \in Controllers : ReadRequest(c) \/ ReadAck(c) \/ RouteFailed(c)
      BY <3>1 DEF history, ReadRequest, ReadAck, RouteFailed
    <3>2. CASE \E c \in Controllers : RouteFound(c) \/ SendToTarget(c)
      BY <3>2 DEF history, RouteFound, SendToTarget
    <3>3. CASE \E c \in Controllers : AllAcked(c) \/ WaitTimeout(c)
      BY <3>3 DEF AllAcked, WaitTimeout, Answer
    <3> QED BY <1>5, <3>1, <3>2, <3>3 DEF ThreadStep
  <2> QED BY <1>4, <2>1 DEF ctlVars
<1>6. CASE \/ UNCHANGED vars
           \/ \E c \in Controllers :
                \/ ReceivePath(c) \/ BarrierDone(c) \/ SendAck(c)
                \/ LoseConnection(c) \/ Cleanup(c) \/ \E k \in Keys : Reroute(c, k)
  <2>1. UNCHANGED <<asked, queue, punted, released>>
    BY <1>6 DEF vars, ctlVars, history, ReceivePath, BarrierDone, SendAck, LoseConnection,
       Cleanup, Reroute
  <2> QED BY <1>4, <2>1
<1> QED BY <1>1, <1>2, <1>3, <1>5, <1>6 DEF Next, ControllerStep

LEMMA OrderImplies == OrderInv => QueueInv
<1> SUFFICES ASSUME OrderInv PROVE ForwardedInOrder
  BY DEF OrderInv, QueueInv
<1> SUFFICES ASSUME NEW k \in Keys
             PROVE  LET all == [n \in 1..Len(released[k]) |-> released[k][n].pkt] \o queue[k]
                    IN  \A m, n \in 1..Len(all) : m < n => all[m] < all[n]
  BY DEF ForwardedInOrder
<1> DEFINE q    == queue[k]
           done == released[k]
           r    == [n \in 1..Len(done) |-> done[n].pkt]
           all  == r \o q
<1>1. q \in Seq(Nat) /\ done \in Seq(Released) /\ Ordered(q, done, punted[k])
  BY DEF OrderInv, TypeOK, ControllersTyped, HistoryTyped, Released
<1> HIDE DEF q, done
<1>2. r \in Seq(Nat) /\ Len(r) = Len(done) /\ \A n \in 1..Len(r) : r[n] = done[n].pkt
  <2>1. \A n \in 1..Len(done) : done[n].pkt \in Nat
    BY <1>1, PacketNumbers
  <2>2. Len(done) \in Nat
    BY <1>1
  <2> QED BY <2>1, <2>2
<1> HIDE DEF r
<1>3. \A n \in 1..Len(all) :
        \/ n \in 1..Len(r) /\ all[n] = r[n]
        \/ n - Len(r) \in 1..Len(q) /\ all[n] = q[n - Len(r)]
  <2>1. \A n \in 1..Len(r \o q) :
          \/ n \in 1..Len(r) /\ (r \o q)[n] = r[n]
          \/ n - Len(r) \in 1..Len(q) /\ (r \o q)[n] = q[n - Len(r)]
    BY <1>1, <1>2, ConcatElements
  <2> QED BY <2>1
<1> HIDE DEF all
<1>4. ASSUME NEW m \in 1..Len(all), NEW n \in 1..Len(all), m < n
      PROVE  all[m] < all[n]
  <2>0. Len(r) \in Nat
    BY <1>2
  <2>1. CASE n \in 1..Len(r) /\ all[n] = r[n]
    <3>1. m \in 1..Len(r) /\ all[m] = r[m]
      BY <1>3, <1>4, <2>0, <2>1
    <3> QED BY <1>1, <1>2, <1>4, <2>1, <3>1 DEF Ordered
  <2>2. CASE n - Len(r) \in 1..Len(q) /\ all[n] = q[n - Len(r)]
    <3>1. CASE m \in 1..Len(r) /\ all[m] = r[m]
      BY <1>1, <1>2, <2>2, <3>1 DEF Ordered
    <3>2. CASE m - Len(r) \in 1..Len(q) /\ all[m] = q[m - Len(r)]
      <4>1. m - Len(r) < n - Len(r)
        BY <1>4, <2>0
      <4> QED BY <1>1, <2>2, <3>2, <4>1 DEF Ordered
    <3> QED BY <1>3, <3>1, <3>2
  <2> QED BY <1>3, <2>1, <2>2
<1> QED BY <1>4 DEF all, r, q, done

LEMMA OrderHolds == Spec => []OrderInv
<1>1. Init => OrderInv
  <2>1. Init => TypeOK
    BY HandshakeInit DEF HandshakeInv
  <2>2. Init => \A k \in Keys : Ordered(queue[k], released[k], punted[k])
    BY DEF Init, Ordered
  <2>3. Init => QueueBounded
    BY ConstantsAssumption DEF Init, QueueBounded
  <2> QED BY <2>1, <2>2, <2>3 DEF OrderInv
<1> QED BY <1>1, OrderStep, TypeCorrect, HandshakeCorrect, PTL DEF Spec

\* However many packets and requests a key has, its queue stays within the limit, is
\* empty without a request, and its packets leave it once and in their order.
THEOREM QueueInvHolds == Spec => []QueueInv
  BY OrderHolds, OrderImplies, PTL

-----------------------------------------------------------------------------
(* The acknowledgements a wait still needs: AcksInv *)

OnItsWay(p, d) ==
    \/ ~is_connected[d] \/ d \notin clients
    \/ d \in toSend[p[1]]
    \/ Response(p, log[p].key) \in InTransit(down[d])
    \/ greenlet[d] \in {"barrier", "ack"} /\ current[d].path_id = p
    \/ \E ok \in BOOLEAN : Ack(p, ok) \in InTransit(up[d])

\* A thread that sends a path sends it for the key it is of.
JobsTrue ==
    \A c \in Controllers : thread[c] = "send" =>
        job[c] = Response(job[c].path_id, log[job[c].path_id].key)

WaitInv == HandshakeInv /\ JobsTrue /\ EntriesOfWaits /\ AckOnItsWay

\* The key of a path is written once.
KeysKept == \A p \in DOMAIN log : p \in DOMAIN log' /\ log'[p].key = log[p].key

LEMMA KeysNeverChange == HandshakeInv /\ HandshakeInv' /\ [Next]_vars => KeysKept
<1> SUFFICES ASSUME HandshakeInv, HandshakeInv', [Next]_vars PROVE KeysKept
  OBVIOUS
<1>1. log \in [DOMAIN log -> Log] /\ DOMAIN log \subseteq PathIds
  BY DEF HandshakeInv, TypeOK, HistoryTyped
<1>2. CASE UNCHANGED log
  BY <1>2 DEF KeysKept
<1>3. CASE \E c \in Controllers : ReceivePath(c) \/ BarrierDone(c)
  BY <1>1, <1>3 DEF KeysKept, ReceivePath, BarrierDone, Log
<1>4. CASE \E c \in Controllers : RouteFound(c)
  <2>1. PICK c \in Controllers : RouteFound(c)
    BY <1>4
  <2>2. time_ns[c] \in Nat
    BY DEF HandshakeInv, TypeOK, ServerTyped
  <2>3. <<c, time_ns[c] + 1>> \notin DOMAIN log
    BY <2>2 DEF HandshakeInv, PathIdsFresh
  <2> QED BY <2>1, <2>3 DEF RouteFound, KeysKept
<1>5. CASE \E c \in Controllers : AllAcked(c) \/ WaitTimeout(c)
  BY <1>1, <1>5 DEF KeysKept, AllAcked, WaitTimeout, Answer, Log
<1>6. CASE \/ UNCHANGED vars
           \/ \E k \in Keys : QueuePacket(k) \/ RequestPath(k) \/ Age(k)
           \/ \E c \in Controllers :
                \/ SendAck(c) \/ ReleaseQueue(c) \/ ReadRequest(c) \/ ReadAck(c)
                \/ RouteFailed(c) \/ SendToTarget(c) \/ LoseConnection(c) \/ Cleanup(c)
                \/ \E k \in Keys : Reroute(c, k)
  <2>1. UNCHANGED log
    BY <1>6 DEF vars, history, QueuePacket, RequestPath, Age, SendAck, ReleaseQueue, ReadRequest,
       ReadAck, RouteFailed, SendToTarget, LoseConnection, Cleanup, Reroute
  <2> QED BY <1>2, <2>1
<1> QED BY <1>3, <1>4, <1>5, <1>6 DEF Next, ControllerStep, ThreadStep

\* Sent or read, a message that is not the one read stays in transit.
LEMMA StaysInTransit ==
    ASSUME NEW S, NEW s \in Seq(S)
    PROVE  /\ \A m \in S : InTransit(Append(s, m)) = InTransit(s) \cup {m}
           /\ s # <<>> => InTransit(s) = {Head(s)} \cup InTransit(Tail(s))
<1>1. ASSUME s # <<>> PROVE InTransit(s) \subseteq {Head(s)} \cup InTransit(Tail(s))
  <2>1. Len(s) \in Nat /\ Len(Tail(s)) = Len(s) - 1 /\ Head(s) = s[1]
    BY <1>1
  <2>2. \A n \in 1..Len(s) : n = 1 \/ (n - 1 \in 1..Len(Tail(s)) /\ Tail(s)[n - 1] = s[n])
    BY <1>1, <2>1
  <2> QED BY <2>1, <2>2 DEF InTransit
<1> QED BY <1>1, SendInTransit, ReadInTransit

\* What an entry says of its thread.
LEMMA WaitsOf ==
    ASSUME WaitInv, NEW p \in DOMAIN pending_path_installs
    PROVE  /\ p \in PathIds /\ p[1] \in Controllers /\ p \in DOMAIN log
           /\ thread[p[1]] = "send" /\ job[p[1]] = Response(p, log[p].key)
           /\ pending_path_installs[p] \subseteq Controllers
           /\ \A d \in pending_path_installs[p] : OnItsWay(p, d)
<1>1. PICK c \in Controllers : thread[c] = "send" /\ job[c].path_id = p
  BY DEF WaitInv, EntriesOfWaits
<1>2. p[1] = c
  BY <1>1 DEF WaitInv, HandshakeInv, ThreadsTrue
<1>3. p \in PathIds /\ pending_path_installs[p] \subseteq Controllers
  BY DEF WaitInv, HandshakeInv, TypeOK, ServerTyped
<1> QED BY <1>1, <1>2, <1>3 DEF WaitInv, HandshakeInv, EntriesTrue, JobsTrue, AckOnItsWay, OnItsWay

\* An ack stays on its way when the step takes nothing away from it.
LEMMA OnItsWayKept ==
    ASSUME NEW p, NEW d, OnItsWay(p, d), log'[p].key = log[p].key,
           is_connected'[d] => is_connected[d], d \in clients' => d \in clients,
           is_connected'[d] /\ d \in clients' =>
               /\ d \in toSend[p[1]] => d \in toSend'[p[1]]
               /\ InTransit(down[d]) \subseteq InTransit(down'[d])
               /\ InTransit(up[d]) \subseteq InTransit(up'[d])
               /\ greenlet[d] \in {"barrier", "ack"} =>
                    greenlet'[d] \in {"barrier", "ack"} /\ current'[d] = current[d]
    PROVE  OnItsWay(p, d)'
BY DEF OnItsWay, Response, Ack

\* A step that leaves the threads and their entries alone.
LEMMA WaitsKept ==
    ASSUME WaitInv, HandshakeInv', KeysKept,
           UNCHANGED <<thread, job, pending_path_installs>>,
           \A p \in DOMAIN pending_path_installs : \A d \in pending_path_installs[p] :
               OnItsWay(p, d)'
    PROVE  WaitInv'
<1>1. JobsTrue'
  BY DEF WaitInv, HandshakeInv, ThreadsTrue, EntriesTrue, JobsTrue, KeysKept, Response
<1>2. EntriesOfWaits'
  BY DEF WaitInv, EntriesOfWaits
<1>3. AckOnItsWay'
  BY DEF AckOnItsWay, OnItsWay
<1> QED BY <1>1, <1>2, <1>3 DEF WaitInv

\* A line to the server joins the others.
LEMMA Uploaded ==
    ASSUME HandshakeInv, NEW c \in Controllers, NEW m \in Requests \cup Acks, Upload(c, m)
    PROVE  /\ \A d \in Controllers : InTransit(up[d]) \subseteq InTransit(up'[d])
           /\ is_connected[c] /\ c \in clients => m \in InTransit(up'[c])
<1>1. up \in [Controllers -> Seq(Requests \cup Acks)]
  BY DEF HandshakeInv, TypeOK, ChannelsTyped
<1>2. InTransit(Append(up[c], m)) = InTransit(up[c]) \cup {m}
  BY <1>1, StaysInTransit
<1> QED BY <1>1, <1>2 DEF Upload

\* Steps of the controllers, and connections that break.
LEMMA ControllersWait ==
    ASSUME WaitInv, HandshakeInv', KeysKept, NEW c \in Controllers,
           \/ \E k \in Keys : \/ QueuePacket(k) \/ Age(k) \/ Reroute(c, k)
                              \/ RequestPath(k) /\ c = Home[k]
           \/ ControllerStep(c) \/ LoseConnection(c) \/ Cleanup(c)
           \/ UNCHANGED vars
    PROVE  WaitInv'
<1> USE DEF ctlVars, srvVars, history
<1>0. UNCHANGED <<thread, job, pending_path_installs, toSend>>
  BY DEF QueuePacket, Age, Reroute, RequestPath, Punt, ControllerStep, ReceivePath, BarrierDone,
     SendAck, ReleaseQueue, LoseConnection, Cleanup, vars
<1>t. /\ up \in [Controllers -> Seq(Requests \cup Acks)]
      /\ down \in [Controllers -> Seq(Responses \cup Errors)]
      /\ greenlet \in [Controllers -> {"recv", "barrier", "ack", "release"}]
      /\ current \in [Controllers -> Responses \cup {Idle}]
      /\ is_connected \in [Controllers -> BOOLEAN]
      /\ barriers_ok \in [Controllers -> BOOLEAN]
  BY DEF WaitInv, HandshakeInv, TypeOK, ControllersTyped, ChannelsTyped
<1> SUFFICES ASSUME NEW p \in DOMAIN pending_path_installs, NEW d \in pending_path_installs[p]
             PROVE  OnItsWay(p, d)'
  BY <1>0, WaitsKept
<1>p. p \in PathIds /\ log'[p].key = log[p].key /\ d \in Controllers /\ OnItsWay(p, d)
  BY WaitsOf DEF KeysKept
<1>1. CASE \/ \E k \in Keys : QueuePacket(k) \/ Age(k)
           \/ UNCHANGED vars
  <2>1. UNCHANGED <<is_connected, clients, down, up, greenlet, current>>
    BY <1>1 DEF QueuePacket, Age, Punt, vars
  <2> QED BY <1>0, <1>p, <2>1, OnItsWayKept
<1>2. CASE \E k \in Keys : Reroute(c, k) \/ (RequestPath(k) /\ c = Home[k])
  <2>1. PICK k \in Keys : Reroute(c, k) \/ (RequestPath(k) /\ c = Home[k])
    BY <1>2
  <2>2. /\ UNCHANGED <<is_connected, clients, down, greenlet, current>>
        /\ Upload(c, Request(k))
    BY <2>1 DEF Reroute, RequestPath, Punt
  <2>3. Request(k) \in Requests
    BY DEF Request, Requests
  <2>4. InTransit(up[d]) \subseteq InTransit(up'[d])
    BY <1>p, <2>2, <2>3, Uploaded DEF WaitInv
  <2> QED BY <1>0, <1>p, <2>2, <2>4, OnItsWayKept
<1>3. CASE ReceivePath(c)
  <2>1. /\ UNCHANGED <<is_connected, clients, up>> /\ down[c] # <<>>
        /\ down' = [down EXCEPT ![c] = Tail(@)] /\ greenlet[c] = "recv"
    BY <1>3 DEF ReceivePath
  <2>2. CASE d # c
    <3>1. UNCHANGED <<down[d], greenlet[d], current[d]>>
      BY <1>3, <1>t, <1>p, <2>1, <2>2 DEF ReceivePath
    <3> QED BY <1>0, <1>p, <2>1, <3>1, OnItsWayKept
  <2>3. CASE d = c
    <3>1. InTransit(down[c]) = {Head(down[c])} \cup InTransit(down'[c])
      BY <1>t, <2>1, StaysInTransit
    <3>2. CASE Head(down[c]) = Response(p, log[p].key)
      <4>1. greenlet'[c] = "barrier" /\ current'[c].path_id = p
        BY <1>3, <1>t, <3>2 DEF ReceivePath, Response
      <4> QED BY <2>3, <4>1 DEF OnItsWay
    <3>3. CASE Head(down[c]) # Response(p, log[p].key)
      BY <1>0, <1>p, <2>1, <2>3, <3>1, <3>3 DEF OnItsWay, Response, Ack
    <3> QED BY <3>2, <3>3
  <2> QED BY <2>2, <2>3
<1>4. CASE BarrierDone(c)
  <2>1. UNCHANGED <<is_connected, clients, up, down, current>>
        /\ greenlet' = [greenlet EXCEPT ![c] = "ack"]
    BY <1>4 DEF BarrierDone
  <2> QED BY <1>0, <1>t, <1>p, <2>1, OnItsWayKept
<1>5. CASE SendAck(c)
  <2>1. /\ UNCHANGED <<is_connected, clients, down, current>> /\ greenlet[c] = "ack"
        /\ greenlet' = [greenlet EXCEPT ![c] = "release"]
        /\ Upload(c, Ack(current[c].path_id, barriers_ok[c]))
    BY <1>5 DEF SendAck, Report
  <2>2. Ack(current[c].path_id, barriers_ok[c]) \in Acks
    BY <1>t, <2>1 DEF WaitInv, HandshakeInv, GreenletsTrue, Responses, Ack, Acks
  <2>3. /\ InTransit(up[d]) \subseteq InTransit(up'[d])
        /\ is_connected[c] /\ c \in clients =>
             Ack(current[c].path_id, barriers_ok[c]) \in InTransit(up'[c])
    BY <1>p, <2>1, <2>2, Uploaded DEF WaitInv
  <2>4. CASE d = c /\ current[c].path_id = p
    BY <1>t, <2>1, <2>3, <2>4 DEF OnItsWay
  <2>5. CASE d = c /\ current[c].path_id # p
    BY <1>0, <1>p, <2>1, <2>3, <2>5 DEF OnItsWay, Response, Ack
  <2>6. CASE d # c
    <3>1. greenlet'[d] = greenlet[d]
      BY <1>t, <1>p, <2>1, <2>6
    <3> QED BY <1>0, <1>p, <2>1, <2>3, <3>1, OnItsWayKept
  <2> QED BY <2>4, <2>5, <2>6
<1>6. CASE ReleaseQueue(c)
  <2>1. /\ UNCHANGED <<is_connected, clients, up, down>> /\ greenlet[c] = "release"
        /\ greenlet' = [greenlet EXCEPT ![c] = "recv"] /\ current' = [current EXCEPT ![c] = Idle]
    BY <1>6 DEF ReleaseQueue
  <2> QED BY <1>0, <1>t, <1>p, <2>1, OnItsWayKept
<1>7. CASE LoseConnection(c) \/ Cleanup(c)
  <2>1. /\ UNCHANGED <<greenlet, current>>
        /\ \A e \in Controllers : is_connected'[e] => is_connected[e]
        /\ clients' \subseteq clients
        /\ d = c => ~(is_connected'[d] /\ d \in clients')
    BY <1>7, <1>t DEF LoseConnection, Cleanup
  <2>2. d # c => UNCHANGED <<up[d], down[d]>>
    BY <1>7, <1>t, <1>p DEF LoseConnection, Cleanup
  <2> QED BY <1>0, <1>p, <2>1, <2>2, OnItsWayKept
<1> QED BY <1>1, <1>2, <1>3, <1>4, <1>5, <1>6, <1>7 DEF ControllerStep

\* A line to a controller joins the others.
LEMMA DeliveredStays ==
    ASSUME HandshakeInv, NEW d \in Controllers, NEW m \in Responses \cup Errors, Deliver(d, m)
    PROVE  /\ \A e \in Controllers : InTransit(down[e]) \subseteq InTransit(down'[e])
           /\ is_connected[d] /\ d \in clients => m \in InTransit(down'[d])
<1>1. down \in [Controllers -> Seq(Responses \cup Errors)]
  BY DEF HandshakeInv, TypeOK, ChannelsTyped
<1>2. InTransit(Append(down[d], m)) = InTransit(down[d]) \cup {m}
  BY <1>1, StaysInTransit
<1> QED BY <1>1, <1>2 DEF Deliver

\* The thread reads a line.
LEMMA ReadsWait ==
    ASSUME WaitInv, HandshakeInv', KeysKept, NEW c \in Controllers, ReadRequest(c) \/ ReadAck(c)
    PROVE  WaitInv'
<1> USE DEF ctlVars, history
<1>1. /\ up[c] # <<>> /\ up' = [up EXCEPT ![c] = Tail(@)]
      /\ thread[c] = "recv"
      /\ UNCHANGED <<is_connected, greenlet, current, down, clients, toSend, log>>
  BY DEF ReadRequest, ReadAck
<1>2. up \in [Controllers -> Seq(Requests \cup Acks)]
  BY DEF WaitInv, HandshakeInv, TypeOK, ChannelsTyped
<1>3. InTransit(up[c]) = {Head(up[c])} \cup InTransit(up'[c])
  BY <1>1, <1>2, StaysInTransit
<1>4. \A d \in Controllers \ {c} : up'[d] = up[d]
  BY <1>1, <1>2
<1>5. CASE ReadRequest(c)
  <2>1. /\ Head(up[c]).type = "path_request" /\ UNCHANGED pending_path_installs
        /\ thread'[c] # "send"
        /\ \A b \in Controllers \ {c} : thread'[b] = thread[b] /\ job'[b] = job[b]
    BY <1>5 DEF ReadRequest, WaitInv, HandshakeInv, TypeOK, ServerTyped
  <2>2. JobsTrue' /\ EntriesOfWaits'
    BY <1>1, <2>1 DEF WaitInv, JobsTrue, EntriesOfWaits
  <2>3. ASSUME NEW p \in DOMAIN pending_path_installs, NEW d \in pending_path_installs[p]
        PROVE  OnItsWay(p, d)'
    <3>1. d \in Controllers /\ OnItsWay(p, d)
      BY WaitsOf
    <3>2. \A ok \in BOOLEAN : Ack(p, ok) \in InTransit(up[d]) => Ack(p, ok) \in InTransit(up'[d])
      BY <1>3, <1>4, <2>1, <3>1 DEF Ack
    <3> QED BY <1>1, <3>1, <3>2 DEF OnItsWay, Response, Ack
  <2>4. AckOnItsWay'
    BY <2>1, <2>3 DEF AckOnItsWay, OnItsWay
  <2> QED BY <2>2, <2>4 DEF WaitInv
<1>6. CASE ReadAck(c)
  <2> DEFINE q == Head(up[c]).path_id
  <2>1. /\ UNCHANGED <<thread, job>>
        /\ DOMAIN pending_path_installs' = DOMAIN pending_path_installs
        /\ \A p \in DOMAIN pending_path_installs :
             pending_path_installs'[p] = IF p = q THEN pending_path_installs[p] \ {c}
                                                  ELSE pending_path_installs[p]
    BY <1>6 DEF ReadAck
  <2>2. JobsTrue' /\ EntriesOfWaits'
    BY <1>1, <2>1 DEF WaitInv, JobsTrue, EntriesOfWaits
  <2>3. ASSUME NEW p \in DOMAIN pending_path_installs, NEW d \in pending_path_installs'[p]
        PROVE  OnItsWay(p, d)'
    <3>1. d \in Controllers /\ OnItsWay(p, d)
      BY <2>1, WaitsOf
    <3>2. \A ok \in BOOLEAN : Ack(p, ok) \in InTransit(up[d]) => Ack(p, ok) \in InTransit(up'[d])
      <4>1. CASE d # c
        BY <1>4, <3>1, <4>1
      <4>2. CASE d = c
        <5>1. p # q
          BY <2>1, <4>2
        <5> QED BY <1>3, <4>2, <5>1 DEF Ack
      <4> QED BY <4>1, <4>2
    <3> QED BY <1>1, <3>1, <3>2 DEF OnItsWay, Response, Ack
  <2>4. AckOnItsWay'
    BY <2>1, <2>3 DEF AckOnItsWay, OnItsWay
  <2> QED BY <2>2, <2>4 DEF WaitInv
<1> QED BY <1>5, <1>6

\* The thread answers or sends the path on.
LEMMA SendsWait ==
    ASSUME WaitInv, HandshakeInv', KeysKept, NEW c \in Controllers,
           RouteFailed(c) \/ SendToTarget(c)
    PROVE  WaitInv'
<1> USE DEF ctlVars, history
<1>1. UNCHANGED <<is_connected, greenlet, current, up, clients, pending_path_installs, log>>
  BY DEF RouteFailed, SendToTarget
<1>2. CASE RouteFailed(c)
  <2>1. /\ thread[c] = "route" /\ thread'[c] = "recv" /\ Deliver(c, Error(job[c].key))
        /\ UNCHANGED toSend
        /\ \A b \in Controllers \ {c} : thread'[b] = thread[b] /\ job'[b] = job[b]
    BY <1>2 DEF RouteFailed, WaitInv, HandshakeInv, TypeOK, ServerTyped
  <2>2. JobsTrue' /\ EntriesOfWaits'
    BY <1>1, <2>1 DEF WaitInv, JobsTrue, EntriesOfWaits
  <2>3. Error(job[c].key) \in Errors
    BY <2>1 DEF WaitInv, HandshakeInv, ThreadsTrue, Requests, Error, Errors
  <2>4. \A d \in Controllers : InTransit(down[d]) \subseteq InTransit(down'[d])
    BY <2>1, <2>3, DeliveredStays DEF WaitInv
  <2>5. ASSUME NEW p \in DOMAIN pending_path_installs, NEW d \in pending_path_installs[p]
        PROVE  OnItsWay(p, d)'
    <3>1. d \in Controllers /\ OnItsWay(p, d)
      BY WaitsOf
    <3> QED BY <1>1, <2>1, <2>4, <3>1, OnItsWayKept
  <2>6. AckOnItsWay'
    BY <1>1, <2>5 DEF AckOnItsWay, OnItsWay
  <2> QED BY <2>2, <2>6 DEF WaitInv
<1>3. CASE SendToTarget(c)
  <2>1. PICK t \in toSend[c] :
          toSend' = [toSend EXCEPT ![c] = @ \ {t}] /\ Deliver(t, job[c])
    BY <1>3 DEF SendToTarget
  <2>2. /\ thread[c] = "send" /\ UNCHANGED <<thread, job>>
        /\ toSend \in [Controllers -> SUBSET Controllers] /\ t \in Controllers
    BY <1>3, <2>1 DEF SendToTarget, WaitInv, HandshakeInv, TypeOK, ServerTyped
  <2>3. job[c] \in Responses
    BY <2>2 DEF WaitInv, HandshakeInv, ThreadsTrue
  <2>4. /\ \A d \in Controllers : InTransit(down[d]) \subseteq InTransit(down'[d])
        /\ is_connected[t] /\ t \in clients => job[c] \in InTransit(down'[t])
    BY <2>1, <2>2, <2>3, DeliveredStays DEF WaitInv
  <2>5. ASSUME NEW p \in DOMAIN pending_path_installs, NEW d \in pending_path_installs[p]
        PROVE  OnItsWay(p, d)'
    <3>1. /\ d \in Controllers /\ OnItsWay(p, d)
          /\ p[1] \in Controllers /\ job[p[1]] = Response(p, log[p].key)
      BY WaitsOf
    <3>2. CASE p[1] = c /\ d = t
      BY <1>1, <2>4, <3>1, <3>2 DEF OnItsWay
    <3>3. CASE ~(p[1] = c /\ d = t)
      <4>1. d \in toSend[p[1]] => d \in toSend'[p[1]]
        BY <2>1, <2>2, <3>1, <3>3
      <4> QED BY <1>1, <2>4, <3>1, <4>1, OnItsWayKept
    <3> QED BY <3>2, <3>3
  <2> QED BY <1>1, <2>2, <2>5, WaitsKept
<1> QED BY <1>2, <1>3

\* The thread opens an entry, with everyone it waits for still to be sent the path.
LEMMA RouteFoundWait ==
    ASSUME WaitInv, HandshakeInv', KeysKept, NEW c \in Controllers, RouteFound(c)
    PROVE  WaitInv'
<1> USE DEF ctlVars, history
<1> DEFINE q == <<c, time_ns[c] + 1>>
<1>1. PICK others \in SUBSET Controllers :
        /\ job' = [job EXCEPT ![c] = Response(q, job[c].key)]
        /\ toSend' = [toSend EXCEPT ![c] = others]
        /\ pending_path_installs' =
             [p \in DOMAIN pending_path_installs \cup {q} |->
                IF p = q THEN others ELSE pending_path_installs[p]]
        /\ log' = [p \in DOMAIN log \cup {q} |->
                     IF p = q
                     THEN [key |-> job[c].key, targets |-> others,
                           installed |-> {}, confirmed |-> {}, missing |-> {}]
                     ELSE log[p]]
  BY DEF RouteFound, WaitInv, HandshakeInv, TypeOK, ServerTyped
<1>2. /\ thread[c] = "route" /\ thread' = [thread EXCEPT ![c] = "send"]
      /\ UNCHANGED <<is_connected, greenlet, current, up, down, clients>>
  BY DEF RouteFound
<1>3. /\ thread \in [Controllers -> {"recv", "route", "send"}]
      /\ toSend \in [Controllers -> SUBSET Controllers]
      /\ job \in [Controllers -> Requests \cup Responses \cup {Idle}]
  BY DEF WaitInv, HandshakeInv, TypeOK, ServerTyped
<1>4. \A p \in DOMAIN pending_path_installs : p[1] # c
  BY <1>2, WaitsOf
<1>5. job'[c] = Response(q, job[c].key) /\ job'[c].path_id = q /\ log'[q].key = job[c].key
  BY <1>1, <1>3 DEF Response
<1>6. \A b \in Controllers \ {c} : /\ thread'[b] = thread[b] /\ job'[b] = job[b]
                                   /\ toSend'[b] = toSend[b]
  BY <1>1, <1>2, <1>3
<1>7. thread'[c] = "send" /\ toSend'[c] = others /\ q[1] = c
  BY <1>1, <1>2, <1>3
<1> HIDE DEF q
<1>8. JobsTrue'
  <2> SUFFICES ASSUME NEW b \in Controllers, thread'[b] = "send"
               PROVE  job'[b] = Response(job'[b].path_id, log'[job'[b].path_id].key)
    BY DEF JobsTrue, Response
  <2>1. CASE b = c
    BY <1>5, <2>1
  <2>2. CASE b # c
    <3>1. /\ job'[b] = Response(job[b].path_id, log[job[b].path_id].key)
          /\ job[b].path_id \in DOMAIN log
      BY <1>6, <2>2 DEF WaitInv, HandshakeInv, JobsTrue, ThreadsTrue, EntriesTrue
    <3> QED BY <1>6, <2>2, <3>1 DEF KeysKept
  <2> QED BY <2>1, <2>2
<1>9. EntriesOfWaits'
  <2>1. {job'[b].path_id : b \in {e \in Controllers : thread'[e] = "send"}}
          = {job[b].path_id : b \in {e \in Controllers : thread[e] = "send"}} \cup {q}
    BY <1>2, <1>5, <1>6, <1>7
  <2> QED BY <1>1, <2>1 DEF WaitInv, EntriesOfWaits
<1>10. AckOnItsWay'
  <2> SUFFICES ASSUME NEW p \in DOMAIN pending_path_installs', NEW d \in pending_path_installs'[p]
               PROVE  OnItsWay(p, d)'
    BY DEF AckOnItsWay, OnItsWay
  <2>1. CASE p = q
    BY <1>1, <1>7, <2>1 DEF OnItsWay
  <2>2. CASE p # q
    <3>1. p \in DOMAIN pending_path_installs /\ d \in pending_path_installs[p]
      BY <1>1, <2>2
    <3>2. /\ OnItsWay(p, d) /\ p[1] \in Controllers \ {c} /\ log'[p].key = log[p].key
      BY <1>4, <3>1, WaitsOf DEF KeysKept
    <3> QED BY <1>2, <1>6, <3>2, OnItsWayKept
  <2> QED BY <2>1, <2>2
<1> QED BY <1>8, <1>9, <1>10 DEF WaitInv

\* The thread closes its entry.
LEMMA AnswerWait ==
    ASSUME WaitInv, HandshakeInv', KeysKept, NEW c \in Controllers, NEW missing,
           thread[c] = "send", Answer(c, missing)
    PROVE  WaitInv'
<1> USE DEF ctlVars
<1> DEFINE q == job[c].path_id
<1>1. /\ thread' = [thread EXCEPT ![c] = "recv"] /\ job' = [job EXCEPT ![c] = Idle]
      /\ pending_path_installs' = [p \in DOMAIN pending_path_installs \ {q} |->
                                     pending_path_installs[p]]
      /\ Deliver(c, job[c])
      /\ UNCHANGED <<is_connected, greenlet, current, up, clients, toSend>>
  BY DEF Answer, Popped
<1>2. /\ thread \in [Controllers -> {"recv", "route", "send"}]
      /\ job \in [Controllers -> Requests \cup Responses \cup {Idle}]
      /\ job[c] \in Responses /\ q[1] = c
  BY DEF WaitInv, HandshakeInv, TypeOK, ServerTyped, ThreadsTrue
<1>3. \A d \in Controllers : InTransit(down[d]) \subseteq InTransit(down'[d])
  BY <1>1, <1>2, DeliveredStays DEF WaitInv
<1>4. thread'[c] # "send" /\ \A b \in Controllers \ {c} : thread'[b] = thread[b] /\ job'[b] = job[b]
  BY <1>1, <1>2
<1>5. JobsTrue'
  <2> SUFFICES ASSUME NEW b \in Controllers, thread'[b] = "send"
               PROVE  job'[b] = Response(job'[b].path_id, log'[job'[b].path_id].key)
    BY DEF JobsTrue, Response
  <2>1. /\ b # c /\ job'[b] = Response(job[b].path_id, log[job[b].path_id].key)
        /\ job[b].path_id \in DOMAIN log
    BY <1>4 DEF WaitInv, HandshakeInv, JobsTrue, ThreadsTrue, EntriesTrue
  <2> QED BY <1>4, <2>1 DEF KeysKept
<1>6. EntriesOfWaits'
  <2>1. \A b \in Controllers \ {c} : thread[b] = "send" => job[b].path_id # q
    BY <1>2 DEF WaitInv, HandshakeInv, ThreadsTrue
  <2>2. {job'[b].path_id : b \in {e \in Controllers : thread'[e] = "send"}}
          = {job[b].path_id : b \in {e \in Controllers : thread[e] = "send"}} \ {q}
    BY <1>4, <2>1
  <2> QED BY <1>1, <2>2 DEF WaitInv, EntriesOfWaits
<1>7. AckOnItsWay'
  <2> SUFFICES ASSUME NEW p \in DOMAIN pending_path_installs', NEW d \in pending_path_installs'[p]
               PROVE  OnItsWay(p, d)'
    BY DEF AckOnItsWay, OnItsWay
  <2>1. p \in DOMAIN pending_path_installs /\ d \in pending_path_installs[p]
    BY <1>1
  <2>2. OnItsWay(p, d) /\ d \in Controllers /\ log'[p].key = log[p].key
    BY <2>1, WaitsOf DEF KeysKept
  <2> QED BY <1>1, <1>3, <2>2, OnItsWayKept
<1> QED BY <1>5, <1>6, <1>7 DEF WaitInv

LEMMA WaitStep == WaitInv /\ HandshakeInv' /\ [Next]_vars => WaitInv'
<1> SUFFICES ASSUME WaitInv, HandshakeInv', [Next]_vars PROVE WaitInv'
  OBVIOUS
<1>0. KeysKept
  BY KeysNeverChange DEF WaitInv
<1>1. CASE \E k \in Keys : QueuePacket(k) \/ RequestPath(k) \/ Age(k)
  <2>1. PICK k \in Keys : QueuePacket(k) \/ RequestPath(k) \/ Age(k)
    BY <1>1
  <2>2. Home[k] \in Controllers
    BY ConstantsAssumption
  <2> QED BY <1>0, <2>1, <2>2, ControllersWait
<1>2. CASE \E c \in Controllers :
             \/ ControllerStep(c) \/ LoseConnection(c) \/ Cleanup(c)
             \/ \E k \in Keys : Reroute(c, k)
  BY <1>0, <1>2, ControllersWait
<1>3. CASE \E c \in Controllers : ThreadStep(c)
  <2>1. PICK c \in Controllers : ThreadStep(c)
    BY <1>3
  <2>2. CASE AllAcked(c) \/ WaitTimeout(c)
    BY <1>0, <2>2, AnswerWait DEF AllAcked, WaitTimeout
  <2> QED BY <1>0, <2>1, <2>2, ReadsWait, SendsWait, RouteFoundWait DEF ThreadStep
<1>4. CASE UNCHANGED vars
  <2>1. CASE Controllers # {}
    BY <1>0, <1>4, <2>1, ControllersWait
  <2>2. CASE Controllers = {}
    BY <1>4, <2>2 DEF WaitInv, JobsTrue, EntriesOfWaits, AckOnItsWay, vars, ctlVars, srvVars, history
  <2> QED BY <2>1, <2>2
<1> QED BY <1>1, <1>2, <1>3, <1>4 DEF Next

\* Nobody waits for an ack that can not come any more, and the entries are those of
\* the threads that wait, with any number of controllers, paths and losses.
THEOREM AcksInvHolds == Spec => []AcksInv
<1>1. Init => WaitInv
  <2>1. Init => JobsTrue /\ EntriesOfWaits /\ AckOnItsWay
    BY DEF Init, JobsTrue, EntriesOfWaits, AckOnItsWay
  <2> QED BY <2>1, HandshakeInit DEF WaitInv
<1>2. WaitInv => AcksInv
  BY DEF WaitInv, AcksInv
<1> QED BY <1>1, <1>2, WaitStep, HandshakeCorrect, PTL DEF Spec
-----------------------------------------------------------------------------
(* PathInstall implements InstallPromise. *)

\* Only controllers that a path needs are sent it, awaited for it or missed, its
\* requester is none of them, and a requester's paths are numbered without a gap.
Addressed ==
    /\ \A p \in DOMAIN log : p[1] \notin log[p].targets
    /\ \A c \in Controllers : thread[c] = "send" => toSend[c] \subseteq log[job[c].path_id].targets
    /\ \A p \in DOMAIN pending_path_installs : pending_path_installs[p] \subseteq log[p].targets
    /\ \A c \in Controllers : \A m \in InTransit(down[c]) :
         m.type = "path_response" => c \in log[m.path_id].targets \cup {m.path_id[1]}
    /\ \A c \in Controllers : \A n \in 1..time_ns[c] : <<c, n>> \in DOMAIN log

\* Packets are numbered from 1 on, and the bound on them holds.
Numbered ==
    \A k \in Keys : /\ punted[k] <= MaxPackets
                    /\ \A n \in 1..Len(queue[k]) : queue[k][n] >= 1

PromiseInv == HandshakeInv /\ OrderInv /\ Addressed /\ Numbered

\* No path is forgotten or changes its targets.
TargetsKept ==
    /\ DOMAIN log' = DOMAIN log
    /\ \A p \in DOMAIN log : log'[p].targets = log[p].targets

\* A step keeps Addressed that decides no path, opens no wait, and sends a path to
\* none but the controllers it is for.
LEMMA AddressedKept ==
    ASSUME HandshakeInv, Addressed, TargetsKept, time_ns' = time_ns,
           \A c \in Controllers : thread'[c] = "send" =>
               thread[c] = "send" /\ job'[c] = job[c] /\ toSend'[c] \subseteq toSend[c],
           \A p \in DOMAIN pending_path_installs' :
               /\ p \in DOMAIN pending_path_installs
               /\ pending_path_installs'[p] \subseteq pending_path_installs[p],
           \A c \in Controllers : \A m \in InTransit(down'[c]) :
               \/ m \in InTransit(down[c])
               \/ m.type = "path_response" =>
                    m.path_id \in DOMAIN log /\ c \in log[m.path_id].targets \cup {m.path_id[1]}
    PROVE  Addressed'
<1> USE DEF Addressed, TargetsKept
<1>1. \A p \in DOMAIN log' : p[1] \notin log'[p].targets
  OBVIOUS
<1>2. \A c \in Controllers : thread[c] = "send" => job[c].path_id \in DOMAIN log
  BY DEF HandshakeInv, ThreadsTrue, EntriesTrue
<1>3. \A c \in Controllers : thread'[c] = "send" => toSend'[c] \subseteq log'[job'[c].path_id].targets
  BY <1>2
<1>4. \A p \in DOMAIN pending_path_installs' : pending_path_installs'[p] \subseteq log'[p].targets
  BY DEF HandshakeInv, EntriesTrue
<1>5. \A c \in Controllers : \A m \in InTransit(down'[c]) :
        m.type = "path_response" => c \in log'[m.path_id].targets \cup {m.path_id[1]}
  BY DEF HandshakeInv, DownTrue
<1>6. \A c \in Controllers : \A n \in 1..time_ns'[c] : <<c, n>> \in DOMAIN log'
  OBVIOUS
<1> QED BY <1>1, <1>3, <1>4, <1>5, <1>6

\* Steps of a controller's event loop and receive greenlet.
LEMMA ControllersAddressed ==
    ASSUME HandshakeInv, Addressed, NEW c \in Controllers,
           ControllerStep(c) \/ \E k \in Keys : QueuePacket(k) \/ RequestPath(k) \/ Age(k) \/ Reroute(c, k)
    PROVE  Addressed'
<1>1. UNCHANGED <<thread, job, toSend, time_ns, pending_path_installs>>
  BY DEF ControllerStep, ReceivePath, BarrierDone, SendAck, ReleaseQueue, QueuePacket, RequestPath,
     Age, Reroute, srvVars
<1>2. TargetsKept
  <2>1. log \in [DOMAIN log -> Log]
    BY DEF HandshakeInv, TypeOK, HistoryTyped
  <2>2. CASE ReceivePath(c) \/ BarrierDone(c)
    BY <2>1, <2>2 DEF ReceivePath, BarrierDone, TargetsKept, Log
  <2>3. CASE \/ SendAck(c) \/ ReleaseQueue(c)
             \/ \E k \in Keys : QueuePacket(k) \/ RequestPath(k) \/ Age(k) \/ Reroute(c, k)
    BY <2>3 DEF SendAck, ReleaseQueue, QueuePacket, RequestPath, Age, Reroute, history, TargetsKept
  <2> QED BY <2>2, <2>3 DEF ControllerStep
<1>3. \A d \in Controllers : InTransit(down'[d]) \subseteq InTransit(down[d])
  <2>1. CASE ReceivePath(c)
    <3>1. down[c] \in Seq(Responses \cup Errors) /\ down[c] # <<>> /\ down' = [down EXCEPT ![c] = Tail(@)]
      BY <2>1 DEF ReceivePath, HandshakeInv, TypeOK, ChannelsTyped
    <3>2. InTransit(Tail(down[c])) \subseteq InTransit(down[c])
      BY <3>1, ReadInTransit
    <3> QED BY <3>1, <3>2 DEF HandshakeInv, TypeOK, ChannelsTyped
  <2>2. CASE UNCHANGED down
    BY <2>2
  <2> QED BY <2>1, <2>2 DEF ControllerStep, BarrierDone, SendAck, ReleaseQueue, QueuePacket,
             RequestPath, Age, Reroute
<1> QED BY <1>1, <1>2, <1>3, AddressedKept

\* Steps of a server thread that decide no path.
LEMMA ThreadsAddressed ==
    ASSUME HandshakeInv, Addressed, NEW c \in Controllers,
           \/ ReadRequest(c) \/ ReadAck(c) \/ RouteFailed(c) \/ SendToTarget(c)
           \/ AllAcked(c) \/ WaitTimeout(c)
    PROVE  Addressed'
<1>0. /\ job[c] \in Requests \cup Responses \cup {Idle}
      /\ thread[c] = "send" => /\ job[c] \in Responses /\ job[c].path_id \in DOMAIN log
                               /\ job[c].path_id[1] = c
                               /\ toSend[c] \subseteq log[job[c].path_id].targets
                               /\ toSend[c] \subseteq Controllers
      /\ thread[c] = "route" => job[c] \in Requests
  BY DEF HandshakeInv, ThreadsTrue, EntriesTrue, Addressed, TypeOK, ServerTyped
<1>1. CASE ReadRequest(c) \/ ReadAck(c)
  <2>1. TargetsKept /\ time_ns' = time_ns /\ down' = down
    BY <1>1 DEF ReadRequest, ReadAck, TargetsKept, history
  <2>2. \A d \in Controllers : thread'[d] = "send" =>
          thread[d] = "send" /\ job'[d] = job[d] /\ toSend'[d] \subseteq toSend[d]
    BY <1>1 DEF ReadRequest, ReadAck, HandshakeInv, TypeOK, ServerTyped
  <2>3. \A p \in DOMAIN pending_path_installs' :
          /\ p \in DOMAIN pending_path_installs
          /\ pending_path_installs'[p] \subseteq pending_path_installs[p]
    BY <1>1 DEF ReadRequest, ReadAck, HandshakeInv, TypeOK, ServerTyped
  <2> QED BY <2>1, <2>2, <2>3, AddressedKept
<1>2. CASE RouteFailed(c)
  <2>1. /\ TargetsKept /\ time_ns' = time_ns /\ pending_path_installs' = pending_path_installs
        /\ Deliver(c, Error(job[c].key)) /\ Error(job[c].key) \in Responses \cup Errors
        /\ Error(job[c].key).type = "error"
    BY <1>0, <1>2 DEF RouteFailed, TargetsKept, history, Error, Errors, Requests
  <2>2. \A d \in Controllers : thread'[d] = "send" =>
          thread[d] = "send" /\ job'[d] = job[d] /\ toSend'[d] \subseteq toSend[d]
    BY <1>2 DEF RouteFailed, HandshakeInv, TypeOK, ServerTyped
  <2>3. \A d \in Controllers : \A m \in InTransit(down'[d]) :
          \/ m \in InTransit(down[d])
          \/ m.type = "path_response" =>
               m.path_id \in DOMAIN log /\ d \in log[m.path_id].targets \cup {m.path_id[1]}
    <3>1. \A d \in Controllers : \A m \in InTransit(down'[d]) :
            m \in InTransit(down[d]) \/ m = Error(job[c].key)
      BY <2>1, Delivered
    <3> QED BY <2>1, <3>1
  <2> QED BY <2>1, <2>2, <2>3, AddressedKept
<1>3. CASE SendToTarget(c)
  <2>1. PICK d \in toSend[c] : toSend' = [toSend EXCEPT ![c] = @ \ {d}] /\ Deliver(d, job[c])
    BY <1>3 DEF SendToTarget
  <2>2. /\ TargetsKept /\ time_ns' = time_ns /\ pending_path_installs' = pending_path_installs
        /\ thread' = thread /\ job' = job /\ thread[c] = "send"
    BY <1>3 DEF SendToTarget, TargetsKept, history
  <2>3. \A e \in Controllers : \A m \in InTransit(down'[e]) :
          m \in InTransit(down[e]) \/ (e = d /\ m = job[c])
    BY <1>0, <2>1, <2>2, Delivered
  <2>4. \A e \in Controllers : toSend'[e] \subseteq toSend[e]
    BY <2>1 DEF HandshakeInv, TypeOK, ServerTyped
  <2>5. job[c].path_id \in DOMAIN log /\ d \in log[job[c].path_id].targets \cup {job[c].path_id[1]}
    BY <1>0, <2>1, <2>2
  <2>6. \A e \in Controllers : \A m \in InTransit(down'[e]) :
          \/ m \in InTransit(down[e])
          \/ m.type = "path_response" =>
               m.path_id \in DOMAIN log /\ e \in log[m.path_id].targets \cup {m.path_id[1]}
    BY <2>3, <2>5
  <2> QED BY <2>2, <2>4, <2>6, AddressedKept
<1>4. CASE AllAcked(c) \/ WaitTimeout(c)
  <2> DEFINE p == job[c].path_id
  <2>1. thread[c] = "send" /\ \E missing : Answer(c, missing)
    <3>1. CASE AllAcked(c)
      <4>1. Answer(c, {})
        BY <3>1 DEF AllAcked
      <4> QED BY <3>1, <4>1, Zenon DEF AllAcked
    <3>2. CASE WaitTimeout(c)
      <4>1. Answer(c, Missing(p))
        BY <3>2 DEF WaitTimeout
      <4> QED BY <3>2, <4>1, Zenon DEF WaitTimeout
    <3> QED BY <1>4, <3>1, <3>2
  <2>2. PICK missing : Answer(c, missing)
    BY <2>1
  <2>3. TargetsKept /\ time_ns' = time_ns
    BY <2>1, <2>2 DEF Answer, TargetsKept, HandshakeInv, TypeOK, HistoryTyped, Log
  <2>4. \A d \in Controllers : thread'[d] = "send" =>
          thread[d] = "send" /\ job'[d] = job[d] /\ toSend'[d] \subseteq toSend[d]
    BY <2>1, <2>2 DEF Answer, HandshakeInv, TypeOK, ServerTyped
  <2>5. \A q \in DOMAIN pending_path_installs' :
          /\ q \in DOMAIN pending_path_installs
          /\ pending_path_installs'[q] \subseteq pending_path_installs[q]
    BY <2>1, <2>2 DEF Answer, Popped
  <2>6. \A d \in Controllers : \A m \in InTransit(down'[d]) :
          m \in InTransit(down[d]) \/ (d = c /\ m = job[c])
    <3>1. Deliver(c, job[c]) /\ job[c] \in Responses \cup Errors
      BY <1>0, <2>1, <2>2 DEF Answer
    <3> QED BY <3>1, Delivered
  <2>7. job[c].path_id \in DOMAIN log /\ c \in log[job[c].path_id].targets \cup {job[c].path_id[1]}
    BY <1>0, <2>1
  <2>8. \A d \in Controllers : \A m \in InTransit(down'[d]) :
          \/ m \in InTransit(down[d])
          \/ m.type = "path_response" =>
               m.path_id \in DOMAIN log /\ d \in log[m.path_id].targets \cup {m.path_id[1]}
    BY <2>6, <2>7
  <2> QED BY <2>3, <2>4, <2>5, <2>8, AddressedKept
<1> QED BY <1>1, <1>2, <1>3, <1>4

\* The path that is decided has the next number and is for the targets.
LEMMA RouteFoundAddressed ==
    ASSUME HandshakeInv, Addressed, NEW c \in Controllers, RouteFound(c)
    PROVE  Addressed'
<1> DEFINE p == <<c, time_ns[c] + 1>>
<1>1. /\ time_ns[c] \in Nat /\ p \notin DOMAIN log
      /\ \A d \in Controllers : time_ns[d] \in Nat
  BY DEF HandshakeInv, TypeOK, ServerTyped, PathIdsFresh
<1>2. PICK owners \in Routes[job[c].key] :
        LET others == (owners \cap clients) \ {c} IN
        /\ time_ns' = [time_ns EXCEPT ![c] = @ + 1]
        /\ job' = [job EXCEPT ![c] = Response(p, job[c].key)]
        /\ toSend' = [toSend EXCEPT ![c] = others]
        /\ pending_path_installs' =
             [q \in DOMAIN pending_path_installs \cup {p} |->
                IF q = p THEN others ELSE pending_path_installs[q]]
        /\ log' = [q \in DOMAIN log \cup {p} |->
                     IF q = p
                     THEN [key |-> job[c].key, targets |-> others, installed |-> {},
                           confirmed |-> {}, missing |-> {}]
                     ELSE log[q]]
  BY DEF RouteFound
<1> DEFINE others == (owners \cap clients) \ {c}
<1>3. /\ DOMAIN log' = DOMAIN log \cup {p}
      /\ \A q \in DOMAIN log : log'[q] = log[q]
      /\ log'[p].targets = others
  BY <1>1, <1>2
<1>4. \A q \in DOMAIN log' : q[1] \notin log'[q].targets
  BY <1>3 DEF Addressed
<1>5. ASSUME NEW d \in Controllers, thread'[d] = "send"
      PROVE  toSend'[d] \subseteq log'[job'[d].path_id].targets
  <2>1. CASE d = c
    <3>1. toSend'[c] = others /\ job'[c].path_id = p
      BY <1>2 DEF Response, HandshakeInv, TypeOK, ServerTyped
    <3> QED BY <2>1, <3>1, <1>3
  <2>2. CASE d # c
    <3>1. thread[d] = "send" /\ job'[d] = job[d] /\ toSend'[d] = toSend[d]
      BY <1>2, <1>5, <2>2 DEF RouteFound, HandshakeInv, TypeOK, ServerTyped
    <3>2. job[d].path_id \in DOMAIN log
      BY <3>1 DEF HandshakeInv, ThreadsTrue, EntriesTrue
    <3> QED BY <3>1, <3>2, <1>3 DEF Addressed
  <2> QED BY <2>1, <2>2
<1>6. \A q \in DOMAIN pending_path_installs' : pending_path_installs'[q] \subseteq log'[q].targets
  <2>1. \A q \in DOMAIN pending_path_installs : q \in DOMAIN log
    BY DEF HandshakeInv, EntriesTrue
  <2> QED BY <2>1, <1>1, <1>2, <1>3 DEF Addressed
<1>7. \A d \in Controllers : \A m \in InTransit(down'[d]) :
        m.type = "path_response" => d \in log'[m.path_id].targets \cup {m.path_id[1]}
  BY <1>3 DEF RouteFound, Addressed, HandshakeInv, DownTrue
<1>8. \A d \in Controllers : \A n \in 1..time_ns'[d] : <<d, n>> \in DOMAIN log'
  <2> SUFFICES ASSUME NEW d \in Controllers, NEW n \in 1..time_ns'[d] PROVE <<d, n>> \in DOMAIN log'
    OBVIOUS
  <2>1. n \in 1..time_ns[d] \/ (d = c /\ n = time_ns[c] + 1)
    <3>1. time_ns'[d] = IF d = c THEN time_ns[c] + 1 ELSE time_ns[d]
      BY <1>2 DEF HandshakeInv, TypeOK, ServerTyped
    <3> QED BY <1>1, <3>1
  <2> QED BY <2>1, <1>3 DEF Addressed
<1> QED BY <1>4, <1>5, <1>6, <1>7, <1>8 DEF Addressed


LEMMA PromiseStutters ==
    ASSUME UNCHANGED <<log, released>>
    PROVE  UNCHANGED Promise!vars
  BY DEF Promise!vars, Need, Done, Excused, Moved

\* A greenlet that takes a path installs it.
LEMMA ReceivePathKeeps ==
    ASSUME PromiseInv, NEW c \in Controllers, ReceivePath(c)
    PROVE  [Promise!Next]_(Promise!vars)
<1> DEFINE m == Head(down[c])
           p == m.path_id
<1>1. down[c] \in Seq(Responses \cup Errors) /\ down[c] # <<>> /\ released' = released
  BY DEF ReceivePath, PromiseInv, HandshakeInv, TypeOK, ChannelsTyped
<1>2. m \in InTransit(down[c])
  BY <1>1, ReadInTransit
<1>3. CASE m.type # "path_response"
  <2>1. UNCHANGED <<log, released>>
    BY <1>1, <1>3 DEF ReceivePath
  <2> QED BY <2>1, PromiseStutters
<1>4. CASE m.type = "path_response"
  <2>1. /\ p \in DOMAIN log /\ c \in log[p].targets \cup {p[1]}
        /\ log' = [log EXCEPT ![p].installed = @ \cup {c}]
        /\ log \in [DOMAIN log -> Log]
    BY <1>2, <1>4 DEF ReceivePath, PromiseInv, HandshakeInv, DownTrue, Addressed, TypeOK, HistoryTyped
  <2> HIDE DEF p, m
  <2>2. /\ DOMAIN log' = DOMAIN log
        /\ \A q \in DOMAIN log :
             /\ log'[q].targets = log[q].targets
             /\ log'[q].missing = log[q].missing
             /\ log'[q].installed = IF q = p THEN log[p].installed \cup {c} ELSE log[q].installed
    BY <2>1 DEF Log
  <2>3. Need' = Need /\ Excused' = Excused
    BY <2>2 DEF Need, Excused
  <2>4. Done' = [Done EXCEPT ![p] = @ \cup {c}]
    BY <2>1, <2>2 DEF Done
  <2>5. Moved' = Moved
    BY <1>1 DEF Moved
  <2>6. DOMAIN Need = DOMAIN log /\ c \in Need[p]
    BY <2>1 DEF Need
  <2>7. Promise!Install(p, c)
    BY <2>1, <2>3, <2>4, <2>5, <2>6 DEF Promise!Install
  <2> QED BY <2>1, <2>6, <2>7 DEF Promise!Next
<1> QED BY <1>3, <1>4

\* Barriers do not count for the promise.
LEMMA BarrierDoneKeeps ==
    ASSUME PromiseInv, NEW c \in Controllers, BarrierDone(c)
    PROVE  [Promise!Next]_(Promise!vars)
<1>1. log \in [DOMAIN log -> Log] /\ released' = released
  BY DEF BarrierDone, PromiseInv, HandshakeInv, TypeOK, HistoryTyped
<1>2. /\ DOMAIN log' = DOMAIN log
      /\ \A q \in DOMAIN log : /\ log'[q].targets = log[q].targets
                               /\ log'[q].missing = log[q].missing
                               /\ log'[q].installed = log[q].installed
  BY <1>1 DEF BarrierDone, Log
<1>3. Need' = Need /\ Done' = Done /\ Excused' = Excused /\ Moved' = Moved
  BY <1>1, <1>2 DEF Need, Done, Excused, Moved
<1> QED BY <1>3 DEF Promise!vars

\* A thread that has found a path decides it, for the targets and the requester.
LEMMA RouteFoundKeeps ==
    ASSUME PromiseInv, NEW c \in Controllers, RouteFound(c)
    PROVE  [Promise!Next]_(Promise!vars)
<1> DEFINE t == time_ns[c]
           p == <<c, t + 1>>
<1>1. /\ t \in Nat /\ p \notin DOMAIN log
      /\ \A n \in 1..t : <<c, n>> \in DOMAIN log
  BY DEF PromiseInv, HandshakeInv, TypeOK, ServerTyped, PathIdsFresh, Addressed
<1>2. PICK others \in SUBSET Controllers :
        log' = [q \in DOMAIN log \cup {p} |->
                  IF q = p
                  THEN [key |-> job[c].key, targets |-> others, installed |-> {},
                        confirmed |-> {}, missing |-> {}]
                  ELSE log[q]]
  <2>1. clients \subseteq Controllers
    BY DEF PromiseInv, HandshakeInv, TypeOK, ServerTyped
  <2>2. PICK owners \in Routes[job[c].key] :
          log' = [q \in DOMAIN log \cup {p} |->
                    IF q = p
                    THEN [key |-> job[c].key, targets |-> (owners \cap clients) \ {c},
                          installed |-> {}, confirmed |-> {}, missing |-> {}]
                    ELSE log[q]]
    BY DEF RouteFound
  <2>3. (owners \cap clients) \ {c} \in SUBSET Controllers
    BY <2>1
  <2> QED BY <2>2, <2>3
<1>3. /\ DOMAIN log' = DOMAIN log \cup {p}
      /\ \A q \in DOMAIN log : log'[q] = log[q]
      /\ log'[p].targets = others /\ log'[p].installed = {} /\ log'[p].missing = {}
      /\ p[1] = c
  BY <1>1, <1>2
<1> DEFINE owners == others \cup {c}
<1>4. DOMAIN Need = DOMAIN log /\ DOMAIN Done = DOMAIN log /\ DOMAIN Excused = DOMAIN log
  BY DEF Need, Done, Excused
<1>5. Need' = [q \in DOMAIN Need \cup {p} |-> IF q = p THEN owners ELSE Need[q]]
  BY <1>1, <1>3 DEF Need
<1>6. Done' = [q \in DOMAIN Done \cup {p} |-> IF q = p THEN {} ELSE Done[q]]
  BY <1>1, <1>3 DEF Done
<1>7. Excused' = [q \in DOMAIN Excused \cup {p} |-> IF q = p THEN {} ELSE Excused[q]]
  BY <1>1, <1>3 DEF Excused
<1>8. Moved' = Moved
  BY DEF RouteFound, Moved
<1>9. owners \in SUBSET Controllers
  BY <1>2
<1>10. t + 1 \in Promise!NextNumbers(c)
  <2>1. CASE t = 0
    BY <2>1 DEF Promise!NextNumbers
  <2>2. CASE t # 0
    <3>1. t \in 1..t
      BY <1>1, <2>2
    <3>2. <<c, t>> \in {r \in DOMAIN Need : r[1] = c} /\ <<c, t>>[2] = t
      BY <1>1, <1>4, <3>1
    <3> QED BY <3>2 DEF Promise!NextNumbers
  <2> QED BY <2>1, <2>2
<1> HIDE DEF owners, t
<1>11. Promise!Decide(<<c, t + 1>>, owners)
  BY <1>1, <1>4, <1>5, <1>6, <1>7, <1>8 DEF Promise!Decide
<1> QED BY <1>9, <1>10, <1>11 DEF Promise!Next

\* A thread that answers excuses whom it did not hear of.
LEMMA AnswerKeeps ==
    ASSUME PromiseInv, NEW c \in Controllers, AllAcked(c) \/ WaitTimeout(c)
    PROVE  [Promise!Next]_(Promise!vars)
<1> DEFINE p == job[c].path_id
<1>1. /\ thread[c] = "send" /\ p \in DOMAIN log /\ p[1] = c
      /\ p \in DOMAIN pending_path_installs
      /\ pending_path_installs[p] \subseteq log[p].targets
      /\ c \notin log[p].targets
      /\ log \in [DOMAIN log -> Log]
  BY DEF AllAcked, WaitTimeout, PromiseInv, HandshakeInv, ThreadsTrue, EntriesTrue, Addressed,
     TypeOK, HistoryTyped
<1>2. PICK missing \in SUBSET log[p].targets : Answer(c, missing)
  <2>1. CASE AllAcked(c)
    BY <2>1 DEF AllAcked
  <2>2. CASE WaitTimeout(c)
    BY <1>1, <2>2 DEF WaitTimeout, Missing
  <2> QED BY <2>1, <2>2
<1> HIDE DEF p
<1>3. log' = [log EXCEPT ![p].missing = missing] /\ released' = released
  BY <1>2 DEF Answer, p
<1>4. /\ DOMAIN log' = DOMAIN log
      /\ \A q \in DOMAIN log :
           /\ log'[q].targets = log[q].targets
           /\ log'[q].installed = log[q].installed
           /\ log'[q].missing = IF q = p THEN missing ELSE log[q].missing
  BY <1>1, <1>3 DEF Log
<1>5. Need' = Need /\ Done' = Done /\ Moved' = Moved
  BY <1>3, <1>4 DEF Need, Done, Moved
<1>6. Excused' = [Excused EXCEPT ![p] = missing]
  BY <1>1, <1>4 DEF Excused
<1>7. DOMAIN Need = DOMAIN log /\ missing \subseteq Need[p] \ {p[1]} /\ missing \in SUBSET Controllers
  <2>1. log[p].targets \subseteq Controllers
    BY <1>1 DEF Log
  <2> QED BY <1>1, <2>1 DEF Need
<1>8. Promise!Excuse(p, missing)
  BY <1>1, <1>5, <1>6, <1>7 DEF Promise!Excuse
<1> QED BY <1>1, <1>7, <1>8 DEF Promise!Next

\* The queue that is released is moved over the path: its packets are none that were
\* moved before, and the path is installed where it has to be.
LEMMA ReleaseQueueKeeps ==
    ASSUME PromiseInv, NEW c \in Controllers, ReleaseQueue(c)
    PROVE  [Promise!Next]_(Promise!vars)
<1> DEFINE k == current[c].key
           p == current[c].path_id
           packets == {<<k, queue[k][n]>> : n \in 1..Len(queue[k])}
<1>1. /\ k \in Keys /\ p \in DOMAIN log /\ c \in log[p].installed
      /\ p[1] = c => log[p].targets \subseteq log[p].installed \cup log[p].missing
      /\ log' = log
  BY DEF ReleaseQueue, PromiseInv, HandshakeInv, GreenletsTrue, Settled, Responses
<1>2. Need' = Need /\ Done' = Done /\ Excused' = Excused
  BY <1>1 DEF Need, Done, Excused
<1>3. CASE released' = released
  BY <1>1, <1>3, PromiseStutters
<1>4. CASE /\ Home[k] = c
           /\ released' = [released EXCEPT ![k] = @ \o
                             [n \in 1..Len(queue[k]) |-> [pkt |-> queue[k][n], path_id |-> p]]]
  <2> DEFINE moved == [n \in 1..Len(queue[k]) |-> [pkt |-> queue[k][n], path_id |-> p]]
             pkts(r) == {<<k, r[n].pkt>> : n \in 1..Len(r)}
  <2> HIDE DEF k, p
  <2>1. /\ queue[k] \in Seq(Nat) /\ released[k] \in Seq(Released) /\ punted[k] \in Nat
        /\ punted[k] <= MaxPackets /\ Ordered(queue[k], released[k], punted[k]) /\ p \in PathIds
        /\ MaxPackets \in Nat /\ \A n \in 1..Len(queue[k]) : queue[k][n] >= 1
    BY <1>1, ConstantsAssumption DEF PromiseInv, OrderInv, Numbered, HandshakeInv, TypeOK, ControllersTyped,
       HistoryTyped, Released
  <2>2. /\ moved \in Seq(Released) /\ Len(moved) = Len(queue[k])
        /\ \A n \in 1..Len(moved) : moved[n].pkt = queue[k][n]
    <3>1. Len(queue[k]) \in Nat /\ \A n \in 1..Len(queue[k]) : queue[k][n] \in Nat
      BY <2>1
    <3> QED BY <2>1, <3>1 DEF Released
  <2> HIDE DEF moved
  <2>3. pkts(released[k] \o moved) = pkts(released[k]) \cup pkts(moved)
    <3>1. \A n \in 1..Len(released[k] \o moved) :
            \/ n \in 1..Len(released[k]) /\ (released[k] \o moved)[n] = released[k][n]
            \/ n - Len(released[k]) \in 1..Len(moved)
               /\ (released[k] \o moved)[n] = moved[n - Len(released[k])]
      BY <2>1, <2>2, ConcatElements
    <3>2. \A n \in 1..Len(released[k]) :
            n \in 1..Len(released[k] \o moved) /\ (released[k] \o moved)[n] = released[k][n]
      BY <2>1, <2>2
    <3>3. \A n \in 1..Len(moved) :
            /\ Len(released[k]) + n \in 1..Len(released[k] \o moved)
            /\ (released[k] \o moved)[Len(released[k]) + n] = moved[n]
      BY <2>1, <2>2
    <3>4. \A x : x \in pkts(released[k] \o moved) => x \in pkts(released[k]) \/ x \in pkts(moved)
      BY <3>1
    <3>5. \A x : x \in pkts(released[k]) => x \in pkts(released[k] \o moved)
      BY <3>2
    <3>6. \A x : x \in pkts(moved) => x \in pkts(released[k] \o moved)
      BY <3>3
    <3> HIDE DEF pkts
    <3> QED BY <3>4, <3>5, <3>6
  <2>4. pkts(moved) = packets
    <3>1. \A n \in 1..Len(queue[k]) : <<k, moved[n].pkt>> = <<k, queue[k][n]>>
      BY <2>2
    <3> QED BY <2>2, <3>1, Zenon
  <2>5. released'[k] = released[k] \o moved /\ \A j \in Keys \ {k} : released'[j] = released[j]
    BY <1>1, <1>4 DEF moved, PromiseInv, HandshakeInv, TypeOK, HistoryTyped
  <2>6. Moved' = Moved \cup packets
    <3> DEFINE of(j, r) == {<<j, r[n].pkt>> : n \in 1..Len(r)}
    <3>1. Moved = UNION {of(j, released[j]) : j \in Keys} /\ Moved' = UNION {of(j, released'[j]) : j \in Keys}
      BY DEF Moved
    <3>2. of(k, released'[k]) = of(k, released[k]) \cup packets
      <4>1. pkts(released'[k]) = pkts(released[k]) \cup pkts(moved)
        BY <2>3, <2>5, Zenon
      <4>2. \A r : pkts(r) = of(k, r)
        OBVIOUS
      <4> HIDE DEF pkts, of, packets
      <4> QED BY <2>4, <4>1, <4>2
    <3> HIDE DEF of, packets
    <3>3. \A j \in Keys \ {k} : of(j, released'[j]) = of(j, released[j])
      BY <2>5
    <3> QED BY <1>1, <3>1, <3>2, <3>3
  <2>7. packets \subseteq Keys \X (1..MaxPackets)
    <3>1. \A n \in 1..Len(queue[k]) : queue[k][n] \in Nat /\ queue[k][n] <= punted[k]
      BY <2>1 DEF Ordered
    <3>2. \A n \in 1..Len(queue[k]) : queue[k][n] \in 1..MaxPackets
      BY <2>1, <3>1
    <3> QED BY <1>1, <3>2
  <2>8. packets \cap Moved = {}
    <3> SUFFICES ASSUME NEW n \in 1..Len(queue[k]), <<k, queue[k][n]>> \in Moved PROVE FALSE
      OBVIOUS
    <3>1. PICK j \in Keys : <<k, queue[k][n]>> \in {<<j, released[j][i].pkt>> : i \in 1..Len(released[j])}
      BY DEF Moved
    <3>2. PICK i \in 1..Len(released[j]) : <<k, queue[k][n]>> = <<j, released[j][i].pkt>>
      BY <3>1
    <3>3. j = k /\ released[k][i].pkt = queue[k][n] /\ i \in 1..Len(released[k])
      BY <3>2
    <3>4. released[k][i].pkt < queue[k][n] /\ queue[k][n] \in Nat
      BY <2>1, <3>3 DEF Ordered
    <3> QED BY <3>3, <3>4
  <2>9. \A x \in packets : [y \in Keys \X (1..MaxPackets) |-> Home[y[1]]][x] = c
    BY <1>4, <2>7
  <2>10. /\ DOMAIN Need = DOMAIN log /\ c \in Done[p]
         /\ p[1] = c => Need[p] \subseteq Done[p] \cup Excused[p]
    BY <1>1 DEF Need, Done, Excused
  <2> HIDE DEF packets, p
  <2>11. Promise!Move(p, c, packets)
    BY <1>1, <1>2, <2>6, <2>7, <2>8, <2>9, <2>10 DEF Promise!Move
  <2> QED BY <1>1, <2>7, <2>10, <2>11 DEF Promise!Next
<1> QED BY <1>1, <1>3, <1>4 DEF ReleaseQueue, HasRequest


\* A packet gets the next number, if the bound allows one more.
LEMMA PuntNumbered ==
    ASSUME OrderInv, Numbered, NEW k \in Keys, QueuePacket(k) \/ RequestPath(k)
    PROVE  Numbered'
<1>1. punted[k] < MaxPackets /\ punted' = [punted EXCEPT ![k] = @ + 1]
  BY DEF QueuePacket, RequestPath, Punt
<1>2. MaxPackets \in Nat /\ \A j \in Keys : punted[j] \in Nat /\ queue[j] \in Seq(Nat)
  BY ConstantsAssumption DEF OrderInv, TypeOK, HistoryTyped, ControllersTyped
<1>3. \A j \in Keys : punted'[j] <= MaxPackets
  <2>1. punted[k] + 1 <= MaxPackets
    BY <1>1, <1>2
  <2> QED BY <1>1, <2>1 DEF Numbered, OrderInv, TypeOK, HistoryTyped
<1>4. ASSUME NEW j \in Keys, NEW n \in 1..Len(queue'[j]) PROVE queue'[j][n] >= 1
  <2> DEFINE last == punted[k] + 1
  <2>1. queue'[j] \in {queue[j], <<>>, <<last>>} \/ (j = k /\ queue'[j] = Append(queue[k], last))
    BY DEF QueuePacket, RequestPath, Enqueue
  <2>2. last >= 1 /\ last \in Nat
    BY <1>2
  <2> HIDE DEF last
  <2>3. CASE queue'[j] = queue[j]
    BY <2>3, <1>4 DEF Numbered
  <2>4. CASE queue'[j] = <<>> \/ queue'[j] = <<last>>
    BY <2>2, <2>4, <1>4
  <2>5. CASE j = k /\ queue'[j] = Append(queue[k], last)
    <3>1. \/ n \in 1..Len(queue[k]) /\ queue'[j][n] = queue[k][n]
          \/ queue'[j][n] = last
      BY <1>2, <2>5, <1>4
    <3> QED BY <2>2, <3>1 DEF Numbered
  <2> QED BY <2>1, <2>3, <2>4, <2>5
<1> QED BY <1>3, <1>4 DEF Numbered

LEMMA NumberedStep == OrderInv /\ HandshakeInv /\ Numbered /\ [Next]_vars => Numbered'
<1> SUFFICES ASSUME OrderInv, HandshakeInv, Numbered, [Next]_vars PROVE Numbered'
  OBVIOUS
<1>1. CASE \E k \in Keys : QueuePacket(k) \/ RequestPath(k)
  BY <1>1, PuntNumbered
<1>2. CASE \E c \in Controllers : ReleaseQueue(c)
  <2>1. punted' = punted /\ \A k \in Keys : queue'[k] \in {queue[k], <<>>}
    BY <1>2 DEF ReleaseQueue, OrderInv, TypeOK, ControllersTyped
  <2>2. \A k \in Keys : \A n \in 1..Len(queue'[k]) : queue'[k] = queue[k]
    BY <2>1
  <2> QED BY <2>1, <2>2 DEF Numbered
<1>3. CASE UNCHANGED <<queue, punted>>
  BY <1>3 DEF Numbered
<1>4. CASE \E c \in Controllers : ThreadStep(c)
  <2>1. UNCHANGED <<queue, punted>>
    <3>1. CASE \E c \in Controllers : ReadRequest(c) \/ ReadAck(c) \/ RouteFailed(c)
      BY <3>1 DEF ctlVars, history, ReadRequest, ReadAck, RouteFailed
    <3>2. CASE \E c \in Controllers : RouteFound(c) \/ SendToTarget(c)
      BY <3>2 DEF ctlVars, history, RouteFound, SendToTarget
    <3>3. CASE \E c \in Controllers : AllAcked(c) \/ WaitTimeout(c)
      BY <3>3 DEF ctlVars, AllAcked, WaitTimeout, Answer
    <3> QED BY <1>4, <3>1, <3>2, <3>3 DEF ThreadStep
  <2> QED BY <1>3, <2>1
<1>5. CASE \/ UNCHANGED vars
           \/ \E k \in Keys : Age(k)
           \/ \E c \in Controllers :
                \/ ReceivePath(c) \/ BarrierDone(c) \/ SendAck(c)
                \/ LoseConnection(c) \/ Cleanup(c) \/ \E k \in Keys : Reroute(c, k)
  <2>1. UNCHANGED <<queue, punted>>
    BY <1>5 DEF vars, ctlVars, history, Age, ReceivePath, BarrierDone, SendAck, LoseConnection,
       Cleanup, Reroute
  <2> QED BY <1>3, <2>1
<1> QED BY <1>1, <1>2, <1>4, <1>5 DEF Next, ControllerStep

\* A broken connection, or none of it.
LEMMA LossAddressed ==
    ASSUME HandshakeInv, Addressed,
           UNCHANGED vars \/ \E c \in Controllers : LoseConnection(c) \/ Cleanup(c)
    PROVE  Addressed'
<1>1. UNCHANGED <<thread, job, toSend, time_ns, pending_path_installs>> /\ TargetsKept
  BY DEF vars, LoseConnection, Cleanup, srvVars, history, TargetsKept
<1>2. \A d \in Controllers : InTransit(down'[d]) \subseteq InTransit(down[d])
  <2>1. CASE \E c \in Controllers : LoseConnection(c)
    <3>1. PICK c \in Controllers : LoseConnection(c)
      BY <2>1
    <3>2. PICK rest \in Buffered(greenlet[c] # "recv", down[c]) : down' = [down EXCEPT ![c] = rest]
      BY <3>1 DEF LoseConnection
    <3>3. down \in [Controllers -> Seq(Responses \cup Errors)] /\ (greenlet[c] # "recv") \in BOOLEAN
      BY DEF HandshakeInv, TypeOK, ChannelsTyped
    <3>4. InTransit(rest) \subseteq InTransit(down[c])
      BY <3>3, BufferedInTransit
    <3> QED BY <3>2, <3>3, <3>4
  <2>2. CASE down' = down
    BY <2>2
  <2> QED BY <2>1, <2>2 DEF vars, Cleanup
<1> QED BY <1>1, <1>2, AddressedKept

LEMMA AddressedStep == HandshakeInv /\ Addressed /\ [Next]_vars => Addressed'
<1> SUFFICES ASSUME HandshakeInv, Addressed, [Next]_vars PROVE Addressed'
  OBVIOUS
<1>1. CASE \E k \in Keys : QueuePacket(k) \/ RequestPath(k) \/ Age(k)
  <2>1. PICK k \in Keys : QueuePacket(k) \/ RequestPath(k) \/ Age(k)
    BY <1>1
  <2>2. Home[k] \in Controllers
    BY ConstantsAssumption
  <2> QED BY <2>1, <2>2, ControllersAddressed
<1>2. CASE \E c \in Controllers : ControllerStep(c) \/ \E k \in Keys : Reroute(c, k)
  BY <1>2, ControllersAddressed
<1>3. CASE \E c \in Controllers : ThreadStep(c)
  BY <1>3, ThreadsAddressed, RouteFoundAddressed DEF ThreadStep
<1> QED BY <1>1, <1>2, <1>3, LossAddressed DEF Next

LEMMA PromiseStep == PromiseInv /\ [Next]_vars => [Promise!Next]_(Promise!vars)
<1> SUFFICES ASSUME PromiseInv, [Next]_vars PROVE [Promise!Next]_(Promise!vars)
  OBVIOUS
<1>1. CASE \E c \in Controllers : ReceivePath(c) \/ BarrierDone(c) \/ ReleaseQueue(c)
  BY <1>1, ReceivePathKeeps, BarrierDoneKeeps, ReleaseQueueKeeps
<1>2. CASE \E c \in Controllers : RouteFound(c) \/ AllAcked(c) \/ WaitTimeout(c)
  BY <1>2, RouteFoundKeeps, AnswerKeeps
<1>3. CASE \/ UNCHANGED vars
           \/ \E k \in Keys : QueuePacket(k) \/ RequestPath(k) \/ Age(k)
           \/ \E c \in Controllers :
                \/ SendAck(c) \/ ReadRequest(c) \/ ReadAck(c) \/ RouteFailed(c) \/ SendToTarget(c)
                \/ LoseConnection(c) \/ Cleanup(c) \/ \E k \in Keys : Reroute(c, k)
  <2>1. UNCHANGED <<log, released>>
    BY <1>3 DEF vars, history, QueuePacket, RequestPath, Age, SendAck, ReadRequest, ReadAck,
       RouteFailed, SendToTarget, LoseConnection, Cleanup, Reroute
  <2> QED BY <2>1, PromiseStutters
<1> QED BY <1>1, <1>2, <1>3 DEF Next, ControllerStep, ThreadStep

LEMMA PromiseInit == Init => Promise!Init /\ Addressed /\ Numbered
<1> SUFFICES ASSUME Init PROVE Promise!Init /\ Addressed /\ Numbered
  OBVIOUS
<1>1. DOMAIN log = {} /\ \A k \in Keys : released[k] = <<>> /\ queue[k] = <<>> /\ punted[k] = 0
  BY DEF Init
<1>2. Promise!Init
  <2>1. Need = [p \in {} |-> {}] /\ Done = [p \in {} |-> {}] /\ Excused = [p \in {} |-> {}]
    BY <1>1 DEF Need, Done, Excused
  <2>2. Moved = {}
    BY <1>1 DEF Moved
  <2> QED BY <2>1, <2>2 DEF Promise!Init
<1>3. Addressed
  BY NothingInTransit DEF Init, Addressed
<1>4. Numbered
  BY <1>1, ConstantsAssumption DEF Numbered
<1> QED BY <1>2, <1>3, <1>4

\* Path installation keeps its promise: seen from outside, each of its steps decides a
\* path, installs it at a controller it needs, excuses controllers, or moves packets
\* that were not moved before over a path that is in place, or is no step at all.
THEOREM PromiseKeptHolds == Spec => PromiseKept
<1>1. Spec => []PromiseInv
  <2>1. Spec => []Addressed
    BY PromiseInit, AddressedStep, HandshakeCorrect, PTL DEF Spec
  <2>2. Spec => []Numbered
    BY PromiseInit, NumberedStep, HandshakeCorrect, OrderHolds, PTL DEF Spec
  <2> QED BY <2>1, <2>2, HandshakeCorrect, OrderHolds, PTL DEF PromiseInv
<1> QED BY <1>1, PromiseInit, PromiseStep, PTL DEF Spec, PromiseKept, Promise!Spec

-----------------------------------------------------------------------------
(* A stale path never overwrites a newer one.                                *)

\* m is no path of p's requester that was decided before p.
Behind(p, m) == m.type = "path_response" /\ m.path_id[1] = p[1] => p[2] <= m.path_id[2]

\* A requester's paths reach a controller in the order of their numbers, and those it
\* has installed come before those in flight.
Fifo(s) ==
    \A i, j \in 1..Len(s) : i < j /\ s[i].type = "path_response" => Behind(s[i].path_id, s[j])

InOrder ==
    \A d \in Controllers :
        /\ Fifo(down[d])
        /\ \A p \in DOMAIN log : d \in log[p].installed =>
             \A m \in InTransit(down[d]) : Behind(p, m)

\* The path a thread sends is the last one its client got.
SendsLast == \A c \in Controllers : thread[c] = "send" => job[c].path_id[2] = time_ns[c]

NewestInv == HandshakeInv /\ InOrder /\ SendsLast

\* Nothing new is installed.
NoneInstalled ==
    \A p \in DOMAIN log' : \A d \in log'[p].installed : p \in DOMAIN log /\ d \in log[p].installed

\* Part of a channel is in order if the whole is.
LEMMA PartInOrder ==
    ASSUME NewestInv, NoneInstalled, HandshakeInv',
           \A d \in Controllers : \/ down'[d] = down[d]
                                  \/ \E n \in 0..Len(down[d]) : down'[d] = SubSeq(down[d], 1, n)
    PROVE  InOrder'
<1> SUFFICES ASSUME NEW d \in Controllers
             PROVE  /\ Fifo(down'[d])
                    /\ \A p \in DOMAIN log' : d \in log'[p].installed =>
                         \A m \in InTransit(down'[d]) : Behind(p, m)
  BY DEF InOrder, Fifo, Behind
<1>1. down[d] \in Seq(Responses \cup Errors)
  BY DEF NewestInv, HandshakeInv, TypeOK, ChannelsTyped
<1>2. /\ Len(down'[d]) \in Nat /\ Len(down'[d]) <= Len(down[d])
      /\ \A i \in 1..Len(down'[d]) : down'[d][i] = down[d][i]
  BY <1>1
<1>3. \A i \in 1..Len(down'[d]) : i \in 1..Len(down[d])
  BY <1>1, <1>2
<1>4. Fifo(down'[d])
  BY <1>2, <1>3 DEF NewestInv, InOrder, Fifo
<1>5. InTransit(down'[d]) \subseteq InTransit(down[d])
  BY <1>2, <1>3 DEF InTransit
<1> QED BY <1>4, <1>5 DEF NewestInv, InOrder, NoneInstalled

\* A message that is behind all the paths decided so far may follow the others.
LEMMA SentInOrder ==
    ASSUME NewestInv, NoneInstalled, NEW d \in Controllers, NEW m \in Responses \cup Errors,
           Deliver(d, m), \A p \in DOMAIN log : Behind(p, m)
    PROVE  InOrder'
<1> SUFFICES ASSUME NEW e \in Controllers
             PROVE  /\ Fifo(down'[e])
                    /\ \A p \in DOMAIN log' : e \in log'[p].installed =>
                         \A x \in InTransit(down'[e]) : Behind(p, x)
  BY DEF InOrder, Fifo, Behind
<1>1. InTransit(down'[e]) \subseteq InTransit(down[e]) \cup {m}
  BY Delivered DEF NewestInv
<1>2. \A p \in DOMAIN log' : e \in log'[p].installed => \A x \in InTransit(down'[e]) : Behind(p, x)
  BY <1>1 DEF NewestInv, InOrder, NoneInstalled
<1>3. CASE down'[e] = down[e]
  BY <1>2, <1>3 DEF NewestInv, InOrder
<1>4. CASE down'[e] = Append(down[e], m)
  <2> DEFINE s == down[e]
             a == Append(s, m)
  <2>1. s \in Seq(Responses \cup Errors)
    BY DEF NewestInv, HandshakeInv, TypeOK, ChannelsTyped
  <2>2. \A i \in 1..Len(s) : s[i].type = "path_response" => Behind(s[i].path_id, m)
    BY DEF NewestInv, HandshakeInv, DownTrue, InTransit
  <2>3. Fifo(s)
    BY DEF NewestInv, InOrder
  <2>4. /\ Len(s) \in Nat /\ Len(a) = Len(s) + 1 /\ a[Len(s) + 1] = m
        /\ \A i \in 1..Len(s) : a[i] = s[i]
    BY <2>1
  <2> HIDE DEF s, a
  <2>5. ASSUME NEW i \in 1..Len(a), NEW j \in 1..Len(a), i < j, a[i].type = "path_response"
        PROVE  Behind(a[i].path_id, a[j])
    <3>1. i \in 1..Len(s) /\ a[i] = s[i]
      BY <2>4, <2>5
    <3>2. CASE j \in 1..Len(s)
      BY <2>3, <2>4, <2>5, <3>1, <3>2 DEF Fifo
    <3>3. CASE j = Len(s) + 1
      BY <2>2, <2>4, <2>5, <3>1, <3>3
    <3> QED BY <2>4, <3>2, <3>3
  <2>6. Fifo(a)
    BY <2>5 DEF Fifo
  <2> QED BY <1>2, <1>4, <2>6 DEF a, s
<1>5. down'[e] \in {down[e], Append(down[e], m)}
  BY DEF Deliver, NewestInv, HandshakeInv, TypeOK, ChannelsTyped
<1> QED BY <1>3, <1>4, <1>5

\* The path that is installed was the first of its channel.
LEMMA ReceivedInOrder ==
    ASSUME NewestInv, NEW c \in Controllers, ReceivePath(c)
    PROVE  InOrder'
<1> DEFINE s == down[c]
           m == Head(s)
<1>1. /\ down \in [Controllers -> Seq(Responses \cup Errors)] /\ s # <<>>
      /\ down' = [down EXCEPT ![c] = Tail(@)]
  BY DEF ReceivePath, NewestInv, HandshakeInv, TypeOK, ChannelsTyped
<1>2. /\ Len(s) \in Nat /\ Len(s) >= 1 /\ Len(Tail(s)) = Len(s) - 1 /\ s[1] = m
      /\ \A i \in 1..Len(Tail(s)) : i + 1 \in 1..Len(s) /\ Tail(s)[i] = s[i + 1]
  BY <1>1
<1>3. Fifo(s) /\ \A p \in DOMAIN log : c \in log[p].installed => \A x \in InTransit(s) : Behind(p, x)
  BY DEF NewestInv, InOrder
<1>4. m.type = "path_response" => \A x \in InTransit(Tail(s)) : Behind(m.path_id, x)
  <2> HIDE DEF s, m
  <2> SUFFICES ASSUME m.type = "path_response", NEW i \in 1..Len(Tail(s)) PROVE Behind(m.path_id, Tail(s)[i])
    BY DEF InTransit
  <2>1. i + 1 \in 1..Len(s) /\ 1 \in 1..Len(s) /\ 1 < i + 1
    BY <1>2
  <2> QED BY <1>2, <1>3, <2>1 DEF Fifo
<1>5. InTransit(Tail(s)) \subseteq InTransit(s)
  BY <1>2 DEF InTransit
<1>6. Fifo(Tail(s))
  <2> HIDE DEF s
  <2> SUFFICES ASSUME NEW i \in 1..Len(Tail(s)), NEW j \in 1..Len(Tail(s)), i < j,
                      Tail(s)[i].type = "path_response"
               PROVE  Behind(Tail(s)[i].path_id, Tail(s)[j])
    BY DEF Fifo
  <2>1. i + 1 < j + 1
    OBVIOUS
  <2> QED BY <1>2, <1>3, <2>1 DEF Fifo
<1>7. \A p \in DOMAIN log' : p \in DOMAIN log /\ \A d \in log'[p].installed :
        d \in log[p].installed \/ (d = c /\ p = m.path_id /\ m.type = "path_response")
  <2>1. log \in [DOMAIN log -> Log]
    BY DEF NewestInv, HandshakeInv, TypeOK, HistoryTyped
  <2> QED BY <2>1 DEF ReceivePath, Log
<1>8. ASSUME NEW d \in Controllers
      PROVE  /\ Fifo(down'[d])
             /\ \A p \in DOMAIN log' : d \in log'[p].installed =>
                  \A x \in InTransit(down'[d]) : Behind(p, x)
  <2>1. CASE d = c
    <3>1. down'[c] = Tail(s)
      BY <1>1
    <3> HIDE DEF s, m
    <3> QED BY <1>3, <1>4, <1>5, <1>6, <1>7, <2>1, <3>1
  <2>2. CASE d # c
    <3>1. down'[d] = down[d]
      BY <1>1, <2>2
    <3> HIDE DEF s, m
    <3> QED BY <1>7, <2>2, <3>1 DEF NewestInv, InOrder
  <2> QED BY <2>1, <2>2
<1> QED BY <1>8 DEF InOrder, Fifo, Behind

\* What a thread sends is behind every path decided so far.
LEMMA JobBehind ==
    ASSUME NewestInv, NEW c \in Controllers, thread[c] = "send"
    PROVE  job[c] \in Responses /\ \A p \in DOMAIN log : Behind(p, job[c])
<1>1. job[c] \in Responses /\ job[c].path_id[1] = c /\ job[c].path_id[2] = time_ns[c]
  BY DEF NewestInv, HandshakeInv, ThreadsTrue, SendsLast
<1> QED BY <1>1 DEF NewestInv, HandshakeInv, PathIdsFresh, Behind

LEMMA ThreadsInOrder ==
    ASSUME NewestInv, HandshakeInv', NEW c \in Controllers, ThreadStep(c)
    PROVE  InOrder' /\ SendsLast'
<1>0. /\ thread \in [Controllers -> {"recv", "route", "send"}]
      /\ job \in [Controllers -> Requests \cup Responses \cup {Idle}]
      /\ time_ns \in [Controllers -> Nat] /\ log \in [DOMAIN log -> Log]
  BY DEF NewestInv, HandshakeInv, TypeOK, ServerTyped, HistoryTyped
<1>1. CASE ReadRequest(c) \/ ReadAck(c)
  <2>1. NoneInstalled /\ UNCHANGED down
    BY <1>1 DEF ReadRequest, ReadAck, history, NoneInstalled
  <2>2. SendsLast'
    BY <1>0, <1>1 DEF ReadRequest, ReadAck, NewestInv, SendsLast
  <2> QED BY <2>1, <2>2, PartInOrder
<1>2. CASE RouteFailed(c)
  <2>1. /\ NoneInstalled /\ Deliver(c, Error(job[c].key)) /\ Error(job[c].key) \in Errors
        /\ \A p \in DOMAIN log : Behind(p, Error(job[c].key))
    BY <1>2 DEF RouteFailed, history, NoneInstalled, Error, Errors, Behind, NewestInv, HandshakeInv,
       ThreadsTrue, Requests
  <2>2. SendsLast'
    BY <1>0, <1>2 DEF RouteFailed, NewestInv, SendsLast
  <2> QED BY <2>1, <2>2, SentInOrder
<1>3. CASE RouteFound(c)
  <2>1. NoneInstalled /\ UNCHANGED down
    BY <1>3 DEF RouteFound, NoneInstalled
  <2>2. /\ thread' = [thread EXCEPT ![c] = "send"] /\ time_ns' = [time_ns EXCEPT ![c] = @ + 1]
        /\ job' = [job EXCEPT ![c] = Response(<<c, time_ns[c] + 1>>, job[c].key)]
    BY <1>3 DEF RouteFound
  <2>3. SendsLast'
    BY <1>0, <2>2 DEF NewestInv, SendsLast, Response
  <2> QED BY <2>1, <2>3, PartInOrder
<1>4. CASE SendToTarget(c)
  <2>1. PICK d \in toSend[c] : Deliver(d, job[c])
    BY <1>4 DEF SendToTarget
  <2>2. thread[c] = "send" /\ UNCHANGED <<thread, job, time_ns>> /\ NoneInstalled /\ d \in Controllers
    BY <1>4 DEF SendToTarget, history, NoneInstalled, NewestInv, HandshakeInv, TypeOK, ServerTyped
  <2>3. SendsLast'
    BY <2>2 DEF NewestInv, SendsLast
  <2> QED BY <2>1, <2>2, <2>3, JobBehind, SentInOrder
<1>5. CASE AllAcked(c) \/ WaitTimeout(c)
  <2>1. thread[c] = "send" /\ \E missing : Answer(c, missing)
    <3>1. CASE AllAcked(c)
      <4>1. Answer(c, {})
        BY <3>1 DEF AllAcked
      <4> QED BY <3>1, <4>1, Zenon DEF AllAcked
    <3>2. CASE WaitTimeout(c)
      <4>1. Answer(c, Missing(job[c].path_id))
        BY <3>2 DEF WaitTimeout
      <4> QED BY <3>2, <4>1, Zenon DEF WaitTimeout
    <3> QED BY <1>5, <3>1, <3>2
  <2>2. PICK missing : Answer(c, missing)
    BY <2>1
  <2>3. NoneInstalled /\ Deliver(c, job[c])
    BY <1>0, <2>2 DEF Answer, NoneInstalled, Log
  <2>4. SendsLast'
    BY <1>0, <2>2 DEF Answer, NewestInv, SendsLast
  <2> QED BY <2>1, <2>3, <2>4, JobBehind, SentInOrder
<1> QED BY <1>1, <1>2, <1>3, <1>4, <1>5 DEF ThreadStep

LEMMA NewestStep == NewestInv /\ HandshakeInv' /\ [Next]_vars => NewestInv'
<1> SUFFICES ASSUME NewestInv, HandshakeInv', [Next]_vars PROVE InOrder' /\ SendsLast'
  BY DEF NewestInv
<1>1. CASE \E c \in Controllers : ThreadStep(c)
  BY <1>1, ThreadsInOrder
<1>2. CASE \E c \in Controllers : ReceivePath(c)
  <2>1. UNCHANGED <<thread, job, time_ns>>
    BY <1>2 DEF ReceivePath, srvVars
  <2> QED BY <1>2, <2>1, ReceivedInOrder DEF NewestInv, SendsLast
<1>3. CASE \/ UNCHANGED vars
           \/ \E k \in Keys : QueuePacket(k) \/ RequestPath(k) \/ Age(k)
           \/ \E c \in Controllers :
                \/ BarrierDone(c) \/ SendAck(c) \/ ReleaseQueue(c)
                \/ LoseConnection(c) \/ Cleanup(c) \/ \E k \in Keys : Reroute(c, k)
  <2>1. UNCHANGED <<thread, job, time_ns>>
    BY <1>3 DEF vars, srvVars, QueuePacket, RequestPath, Age, BarrierDone, SendAck, ReleaseQueue,
       LoseConnection, Cleanup, Reroute
  <2>2. NoneInstalled
    <3>1. CASE \E c \in Controllers : BarrierDone(c)
      <4>1. log \in [DOMAIN log -> Log]
        BY DEF NewestInv, HandshakeInv, TypeOK, HistoryTyped
      <4> QED BY <3>1, <4>1 DEF BarrierDone, NoneInstalled, Log
    <3>2. CASE UNCHANGED log
      BY <3>2 DEF NoneInstalled
    <3> QED BY <1>3, <3>1, <3>2 DEF vars, history, QueuePacket, RequestPath, Age, SendAck,
               ReleaseQueue, LoseConnection, Cleanup, Reroute
  <2>3. ASSUME NEW d \in Controllers
        PROVE  \/ down'[d] = down[d]
               \/ \E n \in 0..Len(down[d]) : down'[d] = SubSeq(down[d], 1, n)
    <3>1. CASE \E c \in Controllers : LoseConnection(c)
      <4>1. PICK c \in Controllers : LoseConnection(c)
        BY <3>1
      <4>2. PICK rest \in Buffered(greenlet[c] # "recv", down[c]) : down' = [down EXCEPT ![c] = rest]
        BY <4>1 DEF LoseConnection
      <4>3. down \in [Controllers -> Seq(Responses \cup Errors)]
        BY DEF NewestInv, HandshakeInv, TypeOK, ChannelsTyped
      <4>4. PICK n \in 0..Len(down[c]) : rest = SubSeq(down[c], 1, n)
        BY <4>3 DEF Buffered
      <4> QED BY <4>2, <4>3, <4>4
    <3>2. CASE UNCHANGED down
      BY <3>2
    <3> QED BY <1>3, <3>1, <3>2 DEF vars, QueuePacket, RequestPath, Age, BarrierDone, SendAck,
               ReleaseQueue, Cleanup, Reroute
  <2> QED BY <2>1, <2>2, <2>3, PartInOrder DEF NewestInv, SendsLast
<1> QED BY <1>1, <1>2, <1>3 DEF Next, ControllerStep

\* Once a controller has installed a path, no earlier path of the same requester is on
\* its way to it, with any number of requesters, targets and losses.
THEOREM NewestPathLastHolds == Spec => []NewestPathLast
<1>1. Init => NewestInv
  <2>1. Init => InOrder /\ SendsLast
    BY NothingInTransit DEF Init, InOrder, SendsLast, Fifo
  <2> QED BY <2>1, HandshakeInit DEF NewestInv
<1>2. NewestInv => NewestPathLast
  <2> SUFFICES ASSUME NewestInv, NEW p \in DOMAIN log, NEW q \in DOMAIN log, p[1] = q[1],
                      p[2] < q[2], NEW d \in log[q].installed,
                      Response(p, log[p].key) \in InTransit(down[d])
               PROVE  FALSE
    BY DEF NewestPathLast
  <2>1. p \in PathIds /\ q \in PathIds /\ d \in Controllers
    BY DEF NewestInv, HandshakeInv, TypeOK, HistoryTyped, Log
  <2>2. Behind(q, Response(p, log[p].key))
    BY <2>1 DEF NewestInv, InOrder
  <2> QED BY <2>1, <2>2 DEF Behind, Response, PathIds
<1> QED BY <1>1, <1>2, NewestStep, HandshakeCorrect, PTL DEF Spec
=============================================================================
