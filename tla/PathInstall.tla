---------------------------- MODULE PathInstall ----------------------------
(***************************************************************************)
(* Cross-domain path installation.  A controller punts a packet whose      *)
(* destination is not local; the root server computes a path, sends it to  *)
(* every controller that owns a switch of it, waits (at most two seconds)  *)
(* for their install acknowledgements and answers the requester last; the  *)
(* requester installs its own hops and then releases the packets it queued.*)
(*                                                                         *)
(*   packetin_ip.py              the request, the de-duplication window    *)
(*   controller.py               _process_path in the receive greenlet     *)
(*   server_message_handlers.py  the per-client thread, path_request       *)
(*   server_agent.py             targets, acks, _send_to_controller        *)
(*                                                                         *)
(* A "controller" is one connection of a controller process: a reconnect   *)
(* comes from a new address and so is another controller here.             *)
(***************************************************************************)
EXTENDS Integers, Sequences, FiniteSets

CONSTANTS
    Controllers,    \* connections of controllers
    Keys,           \* (src_ip, dst_ip) pairs for which packets arrive
    Home,           \* Home[k]: the controller of k's source switch
    Routes,         \* Routes[k]: the owner sets of the paths k may get
    MaxPending,     \* packets kept per key while a request is open (20)
    MaxPackets,     \* bound: packets that arrive per key
    MaxRequests,    \* bound: requests sent per key
    Faulty,         \* connections that may break
    ClockMarks      \* bound: the ages past "fresh" that a request may reach

ASSUME ConstantsAssumption ==
    /\ Home \in [Keys -> Controllers]
    /\ Routes \in [Keys -> SUBSET SUBSET Controllers]
    /\ MaxPending \in Nat \ {0}
    /\ MaxPackets \in Nat
    /\ MaxRequests \in Nat
    /\ Faulty \subseteq Controllers
    /\ ClockMarks \subseteq {"stale", "expired"}

VARIABLES
    \* controllers
    is_connected,           \* c |-> BOOLEAN
    asked,                  \* k |-> age of _path_requested[k]
    queue,                  \* k |-> _pending_path_packets[k], packet numbers
    greenlet,               \* c |-> where the receive greenlet stands
    current,                \* c |-> the response _process_path handles
    barriers_ok,            \* c |-> result of its barrier wait
    \* one socket per controller, FIFO in each direction
    up, down,
    \* server
    clients,                \* registered addresses
    thread,                 \* c |-> where the thread of client c stands
    job,                    \* c |-> the response the thread of c is sending
    toSend,                 \* c |-> targets that still have to be sent it
    time_ns,                \* c |-> clock reading in the last path id of c
    pending_path_installs,  \* path id |-> its 'acks' set, while it waits
    \* history
    log,                    \* path id |-> what became of the path
    requests,               \* k |-> requests sent so far
    punted,                 \* k |-> packets punted so far
    released                \* k |-> packets forwarded at the first hop

ctlVars  == <<is_connected, asked, queue, greenlet, current, barriers_ok>>
srvVars  == <<clients, thread, job, toSend, time_ns,
              pending_path_installs>>
history  == <<log, requests, punted, released>>
vars     == <<ctlVars, up, down, srvVars, history>>

Ages    == {"none", "fresh", "stale", "expired"}
PathIds == Controllers \X (Nat \ {0})    \* client_addr and time_ns

Request(k)     == [type |-> "path_request", key |-> k]
Ack(p, ok)     == [type |-> "path_install_ack", path_id |-> p, barriers_ok |-> ok]
Response(p, k) == [type |-> "path_response", path_id |-> p, key |-> k]
Error(k)       == [type |-> "error", key |-> k]

Requests  == [type : {"path_request"}, key : Keys]
Acks      == [type : {"path_install_ack"}, path_id : PathIds, barriers_ok : BOOLEAN]
Responses == [type : {"path_response"}, path_id : PathIds, key : Keys]
Errors    == [type : {"error"}, key : Keys]

Idle == [type |-> "none"]
Log  == [key : Keys, targets : SUBSET Controllers, installed : SUBSET Controllers,
         confirmed : SUBSET Controllers, missing : SUBSET Controllers]

InTransit(s) == {s[n] : n \in 1..Len(s)}

ControllersTyped ==
    /\ is_connected \in [Controllers -> BOOLEAN]
    /\ asked \in [Keys -> Ages]
    /\ queue \in [Keys -> Seq(Nat)]
    /\ greenlet \in [Controllers -> {"recv", "barrier", "ack", "release"}]
    /\ current \in [Controllers -> Responses \cup {Idle}]
    /\ barriers_ok \in [Controllers -> BOOLEAN]

ChannelsTyped ==
    /\ up \in [Controllers -> Seq(Requests \cup Acks)]
    /\ down \in [Controllers -> Seq(Responses \cup Errors)]

ServerTyped ==
    /\ clients \in SUBSET Controllers
    /\ thread \in [Controllers -> {"recv", "route", "send"}]
    /\ job \in [Controllers -> Requests \cup Responses \cup {Idle}]
    /\ toSend \in [Controllers -> SUBSET Controllers]
    /\ time_ns \in [Controllers -> Nat]
    /\ DOMAIN pending_path_installs \in SUBSET PathIds
    /\ pending_path_installs \in
           [DOMAIN pending_path_installs -> SUBSET Controllers]

HistoryTyped ==
    /\ DOMAIN log \in SUBSET PathIds
    /\ log \in [DOMAIN log -> Log]
    /\ requests \in [Keys -> Nat]
    /\ punted \in [Keys -> Nat]
    /\ released \in [Keys -> Seq([pkt : Nat, path_id : PathIds])]

TypeOK == ControllersTyped /\ ChannelsTyped /\ ServerTyped /\ HistoryTyped

Init ==
    /\ is_connected = [c \in Controllers |-> TRUE]
    /\ asked = [k \in Keys |-> "none"]
    /\ queue = [k \in Keys |-> <<>>]
    /\ greenlet = [c \in Controllers |-> "recv"]
    /\ current = [c \in Controllers |-> Idle]
    /\ barriers_ok = [c \in Controllers |-> TRUE]
    /\ up = [c \in Controllers |-> <<>>]
    /\ down = [c \in Controllers |-> <<>>]
    /\ clients = Controllers
    /\ thread = [c \in Controllers |-> "recv"]
    /\ job = [c \in Controllers |-> Idle]
    /\ toSend = [c \in Controllers |-> {}]
    /\ time_ns = [c \in Controllers |-> 0]
    /\ pending_path_installs = [p \in {} |-> {}]
    /\ log = [p \in {} |-> {}]
    /\ requests = [k \in Keys |-> 0]
    /\ punted = [k \in Keys |-> 0]
    /\ released = [k \in Keys |-> <<>>]

-----------------------------------------------------------------------------
\* What is written to a socket whose other end is closed is lost.
Upload(c, m) ==    \* _send_to_server
    up' = IF is_connected[c] /\ c \in clients
          THEN [up EXCEPT ![c] = Append(@, m)] ELSE up

DeliverFirst(d, m) ==                                \* mutant of Deliver
    down' = IF d \in clients /\ is_connected[d]
            THEN [down EXCEPT ![d] = <<m>> \o @] ELSE down
Deliver(d, m) ==   \* _send_to_controller
    down' = IF d \in clients /\ is_connected[d]
            THEN [down EXCEPT ![d] = Append(@, m)] ELSE down

(* Controller, event loop: packet-in of a packet of key k from a host port. *)

\* _path_requested entries older than 30 s go, with their queues, at the next
\* packet of any key that reaches the same controller.
Expired(k) == {j \in Keys : Home[j] = Home[k] /\ asked[j] = "expired"}

Punt(k) ==
    /\ is_connected[Home[k]]
    /\ punted[k] < MaxPackets
    /\ punted' = [punted EXCEPT ![k] = @ + 1]

EnqueueUnbounded(q, pkt) == Append(q, pkt)           \* mutant of Enqueue
EnqueueFirst(q, pkt) ==                              \* mutant of Enqueue
    IF Len(q) < MaxPending THEN <<pkt>> \o q ELSE q
Enqueue(q, pkt) == IF Len(q) < MaxPending THEN Append(q, pkt) ELSE q

\* A request not older than 10 s is open: keep the packet behind it, if there
\* is room.
QueuePacket(k) ==
    /\ Punt(k)
    /\ asked[k] = "fresh"
    /\ asked' = [j \in Keys |-> IF j \in Expired(k) THEN "none" ELSE asked[j]]
    /\ queue' = [j \in Keys |-> IF j = k THEN Enqueue(queue[k], punted[k] + 1)
                                ELSE IF j \in Expired(k) THEN <<>> ELSE queue[j]]
    /\ UNCHANGED <<is_connected, greenlet, current, barriers_ok, up, down,
                   srvVars, log, requests, released>>

\* No request, or one older than 10 s: ask (again).  The queue starts anew with
\* this packet, whatever it held.
RequestPath(k) ==
    /\ Punt(k)
    /\ asked[k] # "fresh"
    /\ requests[k] < MaxRequests
    /\ requests' = [requests EXCEPT ![k] = @ + 1]
    /\ asked' = [j \in Keys |-> IF j = k THEN "fresh"
                                ELSE IF j \in Expired(k) THEN "none" ELSE asked[j]]
    /\ queue' = [j \in Keys |-> IF j = k THEN <<punted[k] + 1>>
                                ELSE IF j \in Expired(k) THEN <<>> ELSE queue[j]]
    /\ Upload(Home[k], Request(k))
    /\ UNCHANGED <<is_connected, greenlet, current, barriers_ok, down, srvVars,
                   log, released>>

\* _reroute_session: a link of an installed path failed.  Any controller that
\* installed it asks again, be it the home of the key or not, and leaves the
\* key's open request and queue alone.
Reroute(c, k) ==
    /\ is_connected[c]
    /\ \E p \in DOMAIN log : log[p].key = k /\ c \in log[p].installed
    /\ requests[k] < MaxRequests
    /\ requests' = [requests EXCEPT ![k] = @ + 1]
    /\ Upload(c, Request(k))
    /\ UNCHANGED <<is_connected, asked, queue, greenlet, current, barriers_ok, down,
                   srvVars, log, punted, released>>

\* The clock passes the 10 s and the 30 s mark of a request.
Age(k) ==
    /\ \E old \in ClockMarks :
         /\ asked[k] = IF old = "stale" THEN "fresh" ELSE "stale"
         /\ asked' = [asked EXCEPT ![k] = old]
    /\ UNCHANGED <<is_connected, queue, greenlet, current, barriers_ok, up, down,
                   srvVars, history>>

-----------------------------------------------------------------------------
(* Controller, receive greenlet: _receive_from_server, _process_path.       *)

\* Take the next message.  A path: send the flow-mods of the local switches,
\* then a barrier to each.  An error is only logged.
ReceivePath(c) ==
    /\ greenlet[c] = "recv"
    /\ down[c] # <<>>
    /\ down' = [down EXCEPT ![c] = Tail(@)]
    /\ LET m == Head(down[c]) IN
         IF m.type = "path_response"
         THEN /\ greenlet' = [greenlet EXCEPT ![c] = "barrier"]
              /\ current' = [current EXCEPT ![c] = m]
              /\ log' = [log EXCEPT ![m.path_id].installed = @ \cup {c}]
         ELSE UNCHANGED <<greenlet, current, log>>
    /\ UNCHANGED <<is_connected, asked, queue, barriers_ok, up, srvVars,
                   requests, punted, released>>

\* Every barrier reply arrives, or one times out after 0.5 s: go on either way.
BarrierDone(c) ==
    /\ greenlet[c] = "barrier"
    /\ greenlet' = [greenlet EXCEPT ![c] = "ack"]
    /\ \E ok \in BOOLEAN :
         /\ barriers_ok' = [barriers_ok EXCEPT ![c] = ok]
         /\ log' = IF ok
                   THEN [log EXCEPT ![current[c].path_id].confirmed = @ \cup {c}]
                   ELSE log
    /\ UNCHANGED <<is_connected, asked, queue, current, up, down, srvVars,
                   requests, punted, released>>

ReportConfirmed(c) ==                                \* mutant of Report
    IF barriers_ok[c] THEN Upload(c, Ack(current[c].path_id, TRUE))
                      ELSE UNCHANGED up
Report(c) == Upload(c, Ack(current[c].path_id, barriers_ok[c]))

\* Report the installation, whatever the barriers said.  Nothing is sent once
\* the connection is known to be lost.
SendAck(c) ==
    /\ greenlet[c] = "ack"
    /\ greenlet' = [greenlet EXCEPT ![c] = "release"]
    /\ Report(c)
    /\ UNCHANGED <<is_connected, asked, queue, current, barriers_ok, down,
                   srvVars, history>>

HasRequestReversed(c, k) == FALSE                    \* mutant of HasRequest
HasRequest(c, k) == Home[k] = c

\* Forget the request and forward its packets; without a local first hop (its
\* ports are not known) they are dropped.  Only the home controller of the key
\* has a request and a queue under it.
ReleaseQueue(c) ==
    /\ greenlet[c] = "release"
    /\ greenlet' = [greenlet EXCEPT ![c] = "recv"]
    /\ current' = [current EXCEPT ![c] = Idle]
    /\ LET k == current[c].key
           p == current[c].path_id IN
         IF HasRequest(c, k)
         THEN /\ asked' = [asked EXCEPT ![k] = "none"]
              /\ queue' = [queue EXCEPT ![k] = <<>>]
              /\ \E first_hop \in BOOLEAN :
                   released' =
                     IF first_hop
                     THEN [released EXCEPT ![k] = @ \o
                             [n \in 1..Len(queue[k]) |->
                                [pkt |-> queue[k][n], path_id |-> p]]]
                     ELSE released
         ELSE UNCHANGED <<asked, queue, released>>
    /\ UNCHANGED <<is_connected, barriers_ok, up, down, srvVars, log, requests,
                   punted>>

-----------------------------------------------------------------------------
(* Server: the thread of client c, handle_client and process_message.       *)

ReadRequest(c) ==
    /\ thread[c] = "recv"
    /\ up[c] # <<>>
    /\ Head(up[c]).type = "path_request"
    /\ up' = [up EXCEPT ![c] = Tail(@)]
    /\ thread' = [thread EXCEPT ![c] = "route"]
    /\ job' = [job EXCEPT ![c] = Head(up[c])]
    /\ UNCHANGED <<ctlVars, down, clients, toSend, time_ns,
                   pending_path_installs, history>>

\* handle_path_install_ack: an ack counts whatever it says of the barriers, and
\* one that comes after the wait is ignored.
ReadAck(c) ==
    /\ thread[c] = "recv"
    /\ up[c] # <<>>
    /\ Head(up[c]).type = "path_install_ack"
    /\ up' = [up EXCEPT ![c] = Tail(@)]
    /\ LET p == Head(up[c]).path_id IN
         pending_path_installs' =
           IF p \in DOMAIN pending_path_installs
           THEN [pending_path_installs EXCEPT ![p] = @ \ {c}]
           ELSE pending_path_installs
    /\ UNCHANGED <<ctlVars, down, clients, thread, job, toSend, time_ns, history>>

\* handle_path_request found no path: only the requester is told.
RouteFailed(c) ==
    /\ thread[c] = "route"
    /\ thread' = [thread EXCEPT ![c] = "recv"]
    /\ job' = [job EXCEPT ![c] = Idle]
    /\ Deliver(c, Error(job[c].key))
    /\ UNCHANGED <<ctlVars, up, clients, toSend, time_ns,
                   pending_path_installs, history>>

\* A path was found: open an install entry for the other connected controllers
\* that own a switch of it.
RouteFound(c) ==
    /\ thread[c] = "route"
    /\ thread' = [thread EXCEPT ![c] = "send"]
    /\ \E owners \in Routes[job[c].key] :
         LET p == <<c, time_ns[c] + 1>>
             others == (owners \cap clients) \ {c} IN
         /\ time_ns' = [time_ns EXCEPT ![c] = @ + 1]
         /\ job' = [job EXCEPT ![c] = Response(p, job[c].key)]
         /\ toSend' = [toSend EXCEPT ![c] = others]
         /\ pending_path_installs' =
              [q \in DOMAIN pending_path_installs \cup {p} |->
                 IF q = p THEN others ELSE pending_path_installs[q]]
         /\ log' = [q \in DOMAIN log \cup {p} |->
                      IF q = p
                      THEN [key |-> job[c].key, targets |-> others,
                            installed |-> {}, confirmed |-> {},
                            missing |-> {}]
                      ELSE log[q]]
    /\ UNCHANGED <<ctlVars, up, down, clients, requests, punted, released>>

\* The targets are sent the path one after the other, in no given order.
SendToTarget(c) ==
    /\ thread[c] = "send"
    /\ \E d \in toSend[c] :
         /\ toSend' = [toSend EXCEPT ![c] = @ \ {d}]
         /\ Deliver(d, job[c])
    /\ UNCHANGED <<ctlVars, up, clients, thread, job, time_ns,
                   pending_path_installs, history>>

MissingUnawaited(p) == {}                            \* mutant of Missing
Missing(p) == pending_path_installs[p]

PoppedNot(p) == pending_path_installs                \* mutant of Popped
Popped(p) == [q \in DOMAIN pending_path_installs \ {p} |-> pending_path_installs[q]]

\* All are sent it and the wait is over: close the entry, answer the requester.
Answer(c, missing) ==
    LET p == job[c].path_id IN
    /\ thread' = [thread EXCEPT ![c] = "recv"]
    /\ job' = [job EXCEPT ![c] = Idle]
    /\ pending_path_installs' = Popped(p)
    /\ Deliver(c, job[c])
    /\ log' = [log EXCEPT ![p].missing = missing]
    /\ UNCHANGED <<ctlVars, up, clients, toSend, time_ns, requests, punted, released>>

AllAcked(c) ==
    /\ thread[c] = "send"
    /\ toSend[c] = {}
    /\ Missing(job[c].path_id) = {}
    /\ Answer(c, {})

WaitForever(c) == FALSE                              \* mutant of WaitTimeout

\* Two seconds have passed with acks missing.
WaitTimeout(c) ==
    /\ thread[c] = "send"
    /\ toSend[c] = {}
    /\ Missing(job[c].path_id) # {}
    /\ Answer(c, Missing(job[c].path_id))

-----------------------------------------------------------------------------
(* Connection loss.  The lines a receive loop has already buffered are still *)
(* handled while it is busy with an earlier one; the others are lost.        *)

Buffered(busy, s) == {SubSeq(s, 1, n) : n \in IF busy THEN 0..Len(s) ELSE {0}}

\* The controller's end is closed: an error on send, or end of file.
LoseConnection(c) ==
    /\ c \in Faulty
    /\ is_connected[c]
    /\ is_connected' = [is_connected EXCEPT ![c] = FALSE]
    /\ \E rest \in Buffered(greenlet[c] # "recv", down[c]) :
         down' = [down EXCEPT ![c] = rest]
    /\ UNCHANGED <<asked, queue, greenlet, current, barriers_ok, up, srvVars, history>>

\* cleanup_disconnected_client: the server saw end of file or no heartbeat for
\* 6 s.  It may also happen to a live connection whose thread does not read,
\* being busy with a path request.
Cleanup(c) ==
    /\ c \in Faulty
    /\ c \in clients
    /\ ~is_connected[c] \/ thread[c] # "recv"
    /\ clients' = clients \ {c}
    /\ \E rest \in Buffered(thread[c] # "recv", up[c]) :
         up' = [up EXCEPT ![c] = rest]
    /\ UNCHANGED <<ctlVars, down, thread, job, toSend, time_ns,
                   pending_path_installs, history>>

-----------------------------------------------------------------------------
ControllerStep(c) ==
    \/ ReceivePath(c)
    \/ BarrierDone(c)
    \/ SendAck(c)
    \/ ReleaseQueue(c)

ThreadStep(c) ==
    \/ ReadRequest(c)
    \/ ReadAck(c)
    \/ RouteFailed(c)
    \/ RouteFound(c)
    \/ SendToTarget(c)
    \/ AllAcked(c)
    \/ WaitTimeout(c)

Next ==
    \/ \E k \in Keys : QueuePacket(k) \/ RequestPath(k) \/ Age(k)
    \/ \E c \in Controllers :
         \/ ControllerStep(c) \/ ThreadStep(c) \/ LoseConnection(c) \/ Cleanup(c)
         \/ \E k \in Keys : Reroute(c, k)

Spec == Init /\ [][Next]_vars

\* The receive greenlet waits at most 0.5 s per barrier and the server's thread
\* at most 10 s for the path service and 2 s for acks: both always go on.
\* Nothing makes packets come, connections break or the clock stop at an age.
FairSpec ==
    /\ Spec
    /\ \A c \in Controllers : WF_vars(ControllerStep(c)) /\ WF_vars(ThreadStep(c))
-----------------------------------------------------------------------------
(* Properties *)

\* Every other owner of the path has sent its flow-mods, or
\* its ack was missing when the server stopped waiting.
Settled(p) == log[p].targets \subseteq log[p].installed \cup log[p].missing

\* A queued packet leaves the first hop only when the path it takes is installed
\* there, and settled at all other owners if the first hop's controller asked for
\* it (process_message answers the requester last, _process_path installs before
\* it forwards).  A path that another controller asked for, re-routing, releases
\* the queue too, and gives no such guarantee.
ForwardedBehind(k, p) ==
    /\ p \in DOMAIN log
    /\ Home[k] \in log[p].installed
    /\ p[1] = Home[k] => Settled(p)

InstallBeforeForward ==
    \A k \in Keys : \A n \in 1..Len(released[k]) :
        ForwardedBehind(k, released[k][n].path_id)

\* Why InstallBeforeForward holds, as an inductive invariant: what every thread,
\* greenlet and message in flight says of a path is true of it.
ThreadsTrue ==
    \A c \in Controllers :
        /\ c \notin toSend[c]
        /\ thread[c] = "route" => job[c] \in Requests
        /\ thread[c] = "send" =>
              /\ job[c] \in Responses
              /\ job[c].path_id[1] = c
              /\ job[c].path_id \in DOMAIN pending_path_installs

EntriesTrue ==
    \A p \in DOMAIN pending_path_installs :
        /\ p \in DOMAIN log
        /\ log[p].targets \ pending_path_installs[p] \subseteq log[p].installed

UpTrue ==
    \A c \in Controllers : \A m \in InTransit(up[c]) :
        m.type = "path_install_ack" =>
            m.path_id \in DOMAIN log /\ c \in log[m.path_id].installed

DownTrue ==
    \A c \in Controllers : \A m \in InTransit(down[c]) :
        m.type = "path_response" =>
            /\ m.path_id \in DOMAIN log
            /\ m.path_id[1] = c => Settled(m.path_id)

GreenletsTrue ==
    \A c \in Controllers : greenlet[c] # "recv" => LET m == current[c] IN
        /\ m \in Responses
        /\ m.path_id \in DOMAIN log
        /\ c \in log[m.path_id].installed
        /\ m.path_id[1] = c => Settled(m.path_id)

PathIdsFresh == \A p \in DOMAIN log : p[2] <= time_ns[p[1]]

HandshakeInv ==
    /\ TypeOK
    /\ ThreadsTrue
    /\ EntriesTrue
    /\ UpTrue
    /\ DownTrue
    /\ GreenletsTrue
    /\ PathIdsFresh
    /\ InstallBeforeForward

\* However often a key is asked for and answered, a packet is forwarded at most
\* once, and the packets of a key in their order of arrival: those in the queue
\* are younger than those forwarded.
ForwardedInOrder ==
    \A k \in Keys :
        LET all == [n \in 1..Len(released[k]) |-> released[k][n].pkt] \o queue[k]
        IN  \A m, n \in 1..Len(all) : m < n => all[m] < all[n]

\* The ack the server waits for is on its way: the target is still to be sent
\* the path, has it before it, is installing it or has acknowledged it, unless
\* its connection broke.
AckOnItsWay ==
    \A p \in DOMAIN pending_path_installs : \A d \in pending_path_installs[p] :
        \/ ~is_connected[d] \/ d \notin clients
        \/ d \in toSend[p[1]]
        \/ Response(p, log[p].key) \in InTransit(down[d])
        \/ greenlet[d] \in {"barrier", "ack"} /\ current[d].path_id = p
        \/ \E ok \in BOOLEAN : Ack(p, ok) \in InTransit(up[d])

\* No entry of pending_path_installs outlives its wait, and every thread that
\* waits has its own.
EntriesOfWaits ==
    DOMAIN pending_path_installs =
        {job[c].path_id : c \in {d \in Controllers : thread[d] = "send"}}

\* Nobody waits for an ack that can not come any more, and nothing is left of a wait.
AcksInv == AckOnItsWay /\ EntriesOfWaits

\* Once a controller has installed a path no earlier path of the same requester
\* is on its way to it: a stale answer never overwrites a newer path.
NewestPathLast ==
    \A p, q \in DOMAIN log : p[1] = q[1] /\ p[2] < q[2] =>
        \A d \in log[q].installed : Response(p, log[p].key) \notin InTransit(down[d])

\* A key's queue never exceeds its cap, and holds nothing without a request.
QueueBounded ==
    \A k \in Keys : /\ Len(queue[k]) <= MaxPending
                    /\ asked[k] = "none" => queue[k] = <<>>

\* The queue of a key, whatever is asked again, answered late or swept.
QueueInv == ForwardedInOrder /\ QueueBounded

\* The design seen from outside: see InstallPromise.
Need    == [p \in DOMAIN log |-> log[p].targets \cup {p[1]}]
Done    == [p \in DOMAIN log |-> log[p].installed]
Excused == [p \in DOMAIN log |-> log[p].missing]
Moved   == UNION {{<<k, released[k][n].pkt>> : n \in 1..Len(released[k])} : k \in Keys}

Promise == INSTANCE InstallPromise WITH
    Packets <- Keys \X (1..MaxPackets),
    At      <- [x \in Keys \X (1..MaxPackets) |-> Home[x[1]]],
    need    <- Need,
    done    <- Done,
    excused <- Excused,
    moved   <- Moved

PromiseKept == Promise!Spec

\* What a test's name says: "server waits when path install ack reports barrier
\* failure".  When the requester is answered every target has
\* confirmed, except those whose acks are missing.
WaitsForBarriers ==
    \A p \in DOMAIN log \ DOMAIN pending_path_installs :
        log[p].targets \subseteq log[p].confirmed \cup log[p].missing

\* Every request that reached the server is answered, even when two threads wait
\* for the acks of each other's controllers, unless the connection breaks.
RequestIsAnswered ==
    \A k \in Keys, c \in Controllers :
        Request(k) \in InTransit(up[c]) ~>
            \/ ~is_connected[c] \/ c \notin clients
            \/ Error(k) \in InTransit(down[c])
            \/ \E p \in DOMAIN log : p[1] = c /\ Response(p, k) \in InTransit(down[c])

\* An answer with a path eventually ends the request at the controller.
QueueIsReleased ==
    \A k \in Keys : LET c == Home[k] IN
        (\E p \in DOMAIN log : Response(p, k) \in InTransit(down[c]))
            ~> asked[k] = "none" \/ ~is_connected[c]
=============================================================================
