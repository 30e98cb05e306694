---------------------------- MODULE ControllerLink ----------------------------
(***************************************************************************)
(* The TCP connection between a controller and the server, which carries   *)
(* every other message of the system as one line of JSON.                  *)
(*                                                                         *)
(*   controller.py               _connect_to_server, _send_to_server,      *)
(*                               _heartbeat_loop, _receive_from_server     *)
(*   server_agent.py             start, handle_client, _send_to_controller *)
(*   server_message_handlers.py  process_message, cleanup                  *)
(*                                                                         *)
(* The controller runs greenlets: one runs until it has to wait, and a     *)
(* native lock that one of them holds stops all of them when another asks  *)
(* for it (stalled).  The server runs threads, whose sockets time out.     *)
(*                                                                         *)
(* A line is two chunks, head and tail, and whole when read in that order. *)
(* Each direction of a connection is a buffer of Cap chunks.  A sendall    *)
(* writes what fits and waits for room with the rest.  The identity of a   *)
(* socket is used again once neither end knows it any more.                *)
(***************************************************************************)
EXTENDS Integers, Sequences, FiniteSets

CONSTANTS
    Sockets,     \* connections that exist at a time
    Receivers,   \* names of receive greenlets
    Senders,     \* greenlets that send: heartbeat, topology, event loop
    None, Other, \* no socket or thread; a thread of another controller's client
    Cap,         \* bound: chunks in a direction of a connection
    MaxBreaks    \* bound: connections refused, broken, or dropped by the server

ASSUME ConstantsAssumption ==
    /\ Receivers # {} /\ Receivers \cap Senders = {}
    /\ None \notin Sockets \cup Receivers \cup Senders \cup {Other}
    /\ Other \notin Sockets
    /\ Cap \in Nat \ {0} /\ MaxBreaks \in Nat

VARIABLES
    \* the controller
    server_socket, is_connected, _send_lock, _recv_greenlet,
    connector,    \* where _connect_to_server is
    pc, at, left, \* of a greenlet: its step, the socket it waits for, chunks unsent
    heard,        \* of a receive greenlet: the line in its buffer
    stalled,      \* every greenlet waits: the lock's holder cannot run
    \* the connections
    ctl, srv,     \* the state of the controller's and of the server's end
    broken,       \* connections that were reset
    up, down,     \* chunks under way to the server, to the controller
    \* the server
    clients, client_lock,
    thread, read, \* of a connection: the step of its thread, the line in its buffer
    unsent,       \* of a thread: chunks of its sendall
    target,       \* the connection Other writes to
    breaks

controller == <<server_socket, is_connected, _send_lock, _recv_greenlet, connector,
                pc, at, left, heard, stalled>>
server == <<clients, client_lock, thread, read, unsent, target>>
vars == <<controller, ctl, srv, broken, up, down, server, breaks>>

Greenlets == Receivers \cup Senders
Threads   == Sockets \cup {Other}
Line      == <<"head", "tail">>
Rest      == {SubSeq(Line, n, 2) : n \in 1..3}
Buffers   == UNION {[1..n -> {"head", "tail"}] : n \in 0..Cap}

TypeOK ==
    /\ server_socket \in Sockets \cup {None} /\ is_connected \in BOOLEAN
    /\ _send_lock \in Greenlets \cup {None} /\ _recv_greenlet \in Receivers \cup {None}
    /\ connector \in {"check", "connect", "spawn"}
    /\ pc \in [Greenlets -> {"dead", "idle", "loop", "recv", "handle", "sending"}]
    /\ at \in [Greenlets -> Sockets \cup {None}] /\ left \in [Greenlets -> Rest]
    /\ heard \in [Receivers -> {"nothing", "head", "torn"}] /\ stalled \in BOOLEAN
    /\ ctl \in [Sockets -> {"closed", "connecting", "open"}]
    /\ srv \in [Sockets -> {"closed", "queued", "open"}]
    /\ broken \subseteq Sockets
    /\ up \in [Sockets -> Buffers] /\ down \in [Sockets -> Buffers]
    /\ clients \subseteq Sockets /\ client_lock \in Threads \cup {None}
    /\ thread \in [Sockets -> {"done", "recv", "process", "reply", "error", "locked", "cleanup"}]
    /\ read \in [Sockets -> {"nothing", "head", "torn", "whole"}]
    /\ unsent \in [Threads -> Rest] /\ target \in Sockets \cup {None}
    /\ breaks \in 0..MaxBreaks

Init ==
    /\ server_socket = None /\ is_connected = FALSE
    /\ _send_lock = None /\ _recv_greenlet = None /\ connector = "check"
    /\ pc = [g \in Greenlets |-> IF g \in Receivers THEN "dead" ELSE "idle"]
    /\ at = [g \in Greenlets |-> None] /\ left = [g \in Greenlets |-> <<>>]
    /\ heard = [r \in Receivers |-> "nothing"] /\ stalled = FALSE
    /\ ctl = [s \in Sockets |-> "closed"] /\ srv = [s \in Sockets |-> "closed"]
    /\ broken = {}
    /\ up = [s \in Sockets |-> <<>>] /\ down = [s \in Sockets |-> <<>>]
    /\ clients = {} /\ client_lock = None
    /\ thread = [s \in Sockets |-> "done"] /\ read = [s \in Sockets |-> "nothing"]
    /\ unsent = [t \in Threads |-> <<>>] /\ target = None
    /\ breaks = 0

-----------------------------------------------------------------------------
(* Sockets *)

\* What of rest fits behind buffer now, and what is left of it.
Fits(buffer, rest)  == IF Len(rest) < Cap - Len(buffer) THEN Len(rest) ELSE Cap - Len(buffer)
Put(buffer, rest)   == buffer \o SubSeq(rest, 1, Fits(buffer, rest))
Later(buffer, rest) == SubSeq(rest, Fits(buffer, rest) + 1, Len(rest))
HasRoom(buffer)     == Len(buffer) < Cap

\* A buffer that holds line, after one more chunk.  A tail brings the newline.
Read(line, chunk) ==
    IF chunk = "head"
    THEN IF line = "nothing" THEN "head" ELSE "torn"
    ELSE IF line = "head" THEN "whole" ELSE "torn"

\* The other end is there to take what an end writes.
Usable(s) == ctl[s] = "open" /\ srv[s] # "closed" /\ s \notin broken

Free(s) ==
    /\ ctl[s] = "closed" /\ srv[s] = "closed" /\ thread[s] = "done"
    /\ s # target
    /\ \A g \in Greenlets : at[g] # s

\* mutant of Disconnect
DisconnectUnnoticed ==
    /\ UNCHANGED is_connected
    /\ ctl' = [ctl EXCEPT ![server_socket] = "closed"]
    /\ down' = [down EXCEPT ![server_socket] = <<>>]

\* is_connected = False, and close whatever socket is current by then.
Disconnect ==
    /\ is_connected' = FALSE
    /\ IF server_socket = None THEN UNCHANGED <<ctl, down>>
       ELSE /\ ctl' = [ctl EXCEPT ![server_socket] = "closed"]
            /\ down' = [down EXCEPT ![server_socket] = <<>>]

-----------------------------------------------------------------------------
(* The controller's greenlets *)

Step(g, step, s, rest) ==
    /\ pc' = [pc EXCEPT ![g] = step]
    /\ at' = [at EXCEPT ![g] = s]
    /\ left' = [left EXCEPT ![g] = rest]

\* After a send, a receive greenlet goes on and a sender sleeps.
Resume(g) == Step(g, IF g \in Receivers THEN "loop" ELSE "idle", None, <<>>)

\* mutant of Write
WriteUnlocked(g, s, rest) ==
    /\ up' = [up EXCEPT ![s] = Put(@, rest)]
    /\ _send_lock' = None
    /\ IF Later(up[s], rest) = <<>> THEN Resume(g) ELSE Step(g, "sending", s, Later(up[s], rest))

\* Write what fits to the socket s; keep the lock for the rest.
Write(g, s, rest) ==
    /\ up' = [up EXCEPT ![s] = Put(@, rest)]
    /\ IF Later(up[s], rest) = <<>>
       THEN Resume(g) /\ _send_lock' = None
       ELSE Step(g, "sending", s, Later(up[s], rest)) /\ _send_lock' = g

\* The native lock is taken: acquiring it stops the thread all greenlets share.
Stall == stalled' = TRUE /\ UNCHANGED <<pc, at, left, _send_lock, is_connected, ctl, down, up>>

\* _send_to_server.  What is sent to an end just closed may be lost without an error.
Send(g) ==
    \/ /\ ~is_connected
       /\ Resume(g)
       /\ UNCHANGED <<stalled, _send_lock, is_connected, ctl, down, up>>
    \/ is_connected /\ _send_lock # None /\ Stall
    \/ /\ is_connected /\ _send_lock = None
       /\ UNCHANGED stalled
       /\ \/ Usable(server_socket) /\ Write(g, server_socket, Line)
             /\ UNCHANGED <<is_connected, ctl, down>>
          \/ ~Usable(server_socket) /\ Disconnect /\ Resume(g)
             /\ UNCHANGED <<_send_lock, up>>
          \/ srv[server_socket] = "closed" /\ Resume(g)
             /\ UNCHANGED <<_send_lock, up, is_connected, ctl, down>>

StartSend(g) ==
    /\ g \in Senders /\ pc[g] = "idle"
    /\ is_connected
    /\ Send(g)
    /\ UNCHANGED heard

\* A receive greenlet has a whole line, and answers some with a line of its own.
Handle(g) ==
    /\ g \in Receivers /\ pc[g] = "handle"
    /\ \/ Send(g)
       \/ Resume(g) /\ UNCHANGED <<stalled, _send_lock, is_connected, ctl, down, up>>
    /\ UNCHANGED heard

SendMore(g) ==
    /\ pc[g] = "sending" /\ Usable(at[g]) /\ HasRoom(up[at[g]])
    /\ Write(g, at[g], left[g])
    /\ UNCHANGED <<stalled, is_connected, ctl, down, heard>>

\* A failing sendall: the lock is released first, then the current socket is closed.
SendFails(g) ==
    /\ pc[g] = "sending" /\ ctl[at[g]] = "open" /\ ~Usable(at[g])
    /\ _send_lock' = None
    /\ Disconnect
    /\ Resume(g)
    /\ UNCHANGED <<stalled, up, heard>>

\* One round of _receive_from_server, up to a recv that has to wait.
Loop(r) ==
    /\ pc[r] = "loop" /\ is_connected
    /\ Step(r, "recv", server_socket, <<>>)
    /\ UNCHANGED <<heard, is_connected, ctl, down>>

Receive(r) ==
    /\ pc[r] = "recv" /\ ctl[at[r]] = "open" /\ down[at[r]] # <<>>
    /\ LET line == Read(heard[r], Head(down[at[r]]))
           ends == Head(down[at[r]]) = "tail"
       IN  /\ heard' = [heard EXCEPT ![r] = IF ends THEN "nothing" ELSE line]
           /\ Step(r, IF line = "whole" THEN "handle" ELSE "loop", None, <<>>)
    /\ down' = [down EXCEPT ![at[r]] = Tail(@)]
    /\ UNCHANGED <<is_connected, ctl>>

\* The loop is left: not connected any more, end of file, or an error of recv.
End(r) ==
    /\ \/ pc[r] = "loop" /\ ~is_connected
       \/ pc[r] = "recv" /\ ctl[at[r]] = "open" /\ down[at[r]] = <<>> /\ ~Usable(at[r])
    /\ Disconnect
    /\ Step(r, "dead", None, <<>>)
    /\ heard' = [heard EXCEPT ![r] = "nothing"]

\* A greenlet that waits for a socket another one has closed may be woken with an
\* error, at the latest when the number of the file is used again; it may also not be.
Woken(g) ==
    /\ pc[g] \in {"recv", "sending"} /\ ctl[at[g]] = "closed"
    /\ Disconnect
    /\ IF g \in Receivers /\ pc[g] = "recv" THEN Step(g, "dead", None, <<>>) ELSE Resume(g)
    /\ heard' = [r \in Receivers |-> IF r = g /\ pc[g] = "recv" THEN "nothing" ELSE heard[r]]
    /\ _send_lock' = IF _send_lock = g THEN None ELSE _send_lock

\* hub.spawn: the receive greenlet begins when the others wait.  where is its place
\* in a pc that hub.kill may have changed.
Spawned(where) ==
    LET r == CHOOSE q \in Receivers : where[q] = "dead"
    IN  /\ _recv_greenlet' = r
        /\ pc' = [where EXCEPT ![r] = "loop"]

\* _connect_to_server, on a round that finds no connection.  It has slept: greenlets
\* that were ready have run.
Check ==
    /\ connector = "check" /\ ~is_connected
    /\ \A r \in Receivers : pc[r] \notin {"loop", "handle"}
    /\ \E s \in Sockets : Free(s)
    /\ LET s == CHOOSE q \in Sockets : Free(q)
       IN  /\ server_socket' = s
           /\ ctl' = [ctl EXCEPT ![s] = "connecting"]
           /\ broken' = broken \ {s}
           /\ up' = [up EXCEPT ![s] = <<>>] /\ down' = [down EXCEPT ![s] = <<>>]
    /\ connector' = "connect"
    /\ UNCHANGED <<is_connected, _send_lock, _recv_greenlet, pc, at, left, heard, srv, breaks>>

AliveNot(r) == FALSE                                 \* mutant of Alive
Alive(r) == r # None /\ pc[r] # "dead"

\* The connection is there: is_connected, and hub.kill throws GreenletExit into the
\* old receive greenlet at once.  The kill waits for the hub, so the new greenlet is
\* spawned in a later step; a dead one is not killed.
Connect ==
    /\ connector = "connect" /\ ctl[server_socket] = "connecting"
    /\ ctl' = [ctl EXCEPT ![server_socket] = "open"]
    /\ srv' = [srv EXCEPT ![server_socket] = "queued"]
    /\ is_connected' = TRUE
    /\ LET old == _recv_greenlet
       IN  IF Alive(old)
           THEN /\ Step(old, "dead", None, <<>>)
                /\ _send_lock' = IF _send_lock = old THEN None ELSE _send_lock
                /\ heard' = [heard EXCEPT ![old] = "nothing"]
                /\ connector' = "spawn"
                /\ UNCHANGED _recv_greenlet
           ELSE /\ Spawned(pc)
                /\ connector' = "check"
                /\ UNCHANGED <<at, left, heard, _send_lock>>
    /\ UNCHANGED <<server_socket, broken, up, down, breaks>>

Spawn ==
    /\ connector = "spawn"
    /\ Spawned(pc)
    /\ connector' = "check"
    /\ UNCHANGED <<server_socket, is_connected, _send_lock, at, left, heard, ctl, srv,
                   broken, up, down, breaks>>

\* connect fails: refused, or its socket was closed meanwhile and the wait for it ended.
ConnectFails ==
    /\ connector = "connect"
    /\ \/ ctl[server_socket] = "connecting" /\ breaks < MaxBreaks /\ breaks' = breaks + 1
       \/ ctl[server_socket] = "closed" /\ UNCHANGED breaks
    /\ Disconnect
    /\ connector' = "check"
    /\ UNCHANGED <<server_socket, _send_lock, _recv_greenlet, pc, at, left, heard, srv,
                   broken, up>>

-----------------------------------------------------------------------------
(* The server's threads *)

RaisesAtEnd(s) == srv[s] # "open" \/ s \in broken \/ ctl[s] # "open"  \* mutant of Raises
\* sendall to s raises: the end is gone, or the buffer stayed full for six seconds.
Raises(s) == srv[s] # "open" \/ s \in broken \/ ctl[s] # "open" \/ ~HasRoom(down[s])
Takes(s)  == ~Raises(s)

Goto(s, step) == thread' = [thread EXCEPT ![s] = step]

\* Write what fits to s; the thread t still has to write what is left.
WriteDown(t, s, rest) ==
    /\ down' = [down EXCEPT ![s] = Put(@, rest)]
    /\ unsent' = [unsent EXCEPT ![t] = Later(down[s], rest)]

\* The main loop takes a connection and registers it under the lock.  What may come
\* between its thread's start and this is modelled in Membership.
Accept(s) ==
    /\ srv[s] = "queued" /\ client_lock = None
    /\ srv' = [srv EXCEPT ![s] = "open"]
    /\ clients' = clients \cup {s}
    /\ Goto(s, "recv")
    /\ UNCHANGED <<client_lock, read, unsent, target, up, down>>

HandleClient(s) ==
    /\ thread[s] = "recv" /\ srv[s] = "open" /\ s \notin broken /\ up[s] # <<>>
    /\ up' = [up EXCEPT ![s] = Tail(@)]
    /\ read' = [read EXCEPT ![s] = Read(@, Head(up[s]))]
    /\ Goto(s, IF Head(up[s]) = "tail" THEN "process" ELSE "recv")
    /\ UNCHANGED <<srv, clients, client_lock, unsent, target, down>>

\* recv ends or raises.
HandleClientEnds(s) ==
    /\ thread[s] = "recv"
    /\ srv[s] # "open" \/ s \in broken \/ (up[s] = <<>> /\ ctl[s] = "closed")
    /\ Goto(s, "cleanup")
    /\ UNCHANGED <<srv, clients, client_lock, read, unsent, target, up, down>>

\* process_message: the time of the heartbeat under the lock, then by the type of the
\* message nothing, a reply sent without the lock, or an answer sent with it.
ProcessMessage(s) ==
    /\ thread[s] = "process" /\ client_lock = None
    /\ IF read[s] = "whole" THEN \E step \in {"recv", "reply", "locked"} : Goto(s, step)
       ELSE Goto(s, "error")
    /\ read' = [read EXCEPT ![s] = "nothing"]
    /\ unsent' = [unsent EXCEPT ![s] = IF thread'[s] = "recv" THEN <<>> ELSE Line]
    /\ UNCHANGED <<srv, clients, client_lock, target, up, down>>

\* client_sock.sendall(response), and the error reply when that raises.
Reply(s) ==
    /\ thread[s] \in {"reply", "error"}
    /\ \/ /\ Takes(s)
          /\ WriteDown(s, s, unsent[s])
          /\ IF Later(down[s], unsent[s]) = <<>> THEN Goto(s, "recv") ELSE UNCHANGED thread
       \/ /\ Raises(s)
          /\ Goto(s, IF thread[s] = "reply" THEN "error" ELSE "recv")
          /\ unsent' = [unsent EXCEPT ![s] = IF thread[s] = "reply" THEN Line ELSE <<>>]
          /\ UNCHANGED down
    /\ UNCHANGED <<srv, clients, client_lock, read, target, up>>

\* _send_to_controller of a thread t to s: the lock is held until all is written or
\* the sendall raises, which is logged.
SendLocked(t, s, rest) ==
    IF Takes(s)
    THEN /\ WriteDown(t, s, rest)
         /\ client_lock' = IF Later(down[s], rest) = <<>> THEN None ELSE t
    ELSE /\ unsent' = [unsent EXCEPT ![t] = <<>>]
         /\ client_lock' = None
         /\ UNCHANGED down

Answer(s) ==
    /\ thread[s] = "locked" /\ client_lock \in {None, s}
    /\ IF s \in clients \/ client_lock = s
       THEN SendLocked(s, s, unsent[s])
       ELSE unsent' = [unsent EXCEPT ![s] = <<>>] /\ UNCHANGED <<client_lock, down>>
    /\ IF client_lock' = s THEN UNCHANGED thread ELSE Goto(s, "recv")
    /\ UNCHANGED <<srv, clients, read, target, up>>

\* Another client's thread passes a message on to the controller: a host, a path.
Forward ==
    /\ \E s \in Sockets :
          /\ \/ client_lock = None /\ s \in clients /\ SendLocked(Other, s, Line)
             \/ client_lock = Other /\ s = target /\ SendLocked(Other, s, unsent[Other])
          /\ target' = IF client_lock' = Other THEN s ELSE None
    /\ UNCHANGED <<srv, clients, thread, read, up>>

Cleanup(s) ==
    /\ thread[s] = "cleanup" /\ client_lock = None
    /\ srv' = [srv EXCEPT ![s] = "closed"]
    /\ clients' = clients \ {s}
    /\ up' = [up EXCEPT ![s] = <<>>]
    /\ read' = [read EXCEPT ![s] = "nothing"]
    /\ Goto(s, "done")
    /\ UNCHANGED <<client_lock, unsent, target, down>>

-----------------------------------------------------------------------------
(* What goes wrong *)

\* The connection is reset, and what was under way is lost.
Break(s) ==
    /\ breaks < MaxBreaks /\ ctl[s] = "open" /\ s \notin broken
    /\ breaks' = breaks + 1
    /\ broken' = broken \cup {s}
    /\ up' = [up EXCEPT ![s] = <<>>] /\ down' = [down EXCEPT ![s] = <<>>]
    /\ UNCHANGED <<srv, clients>>

\* The server's heartbeat check, if its thread still runs (see Membership), gives a
\* client up and closes its socket.
Expire(s) ==
    /\ breaks < MaxBreaks /\ s \in clients /\ client_lock = None
    /\ breaks' = breaks + 1
    /\ srv' = [srv EXCEPT ![s] = "closed"]
    /\ clients' = clients \ {s}
    /\ up' = [up EXCEPT ![s] = <<>>]
    /\ UNCHANGED <<broken, down>>

-----------------------------------------------------------------------------

Greenlet(g) ==
    /\ ~stalled
    /\ \/ StartSend(g) \/ Handle(g) \/ SendMore(g) \/ SendFails(g)
       \/ g \in Receivers /\ (Loop(g) \/ Receive(g) \/ End(g)) /\ UNCHANGED <<stalled, _send_lock, up>>
    /\ UNCHANGED <<server_socket, _recv_greenlet, connector, srv, broken, server, breaks>>

WokenGreenlet(g) ==
    /\ ~stalled /\ Woken(g)
    /\ UNCHANGED <<server_socket, _recv_greenlet, connector, stalled, srv, broken, up,
                   server, breaks>>

Connector ==
    /\ ~stalled
    /\ Check \/ Connect \/ Spawn
    /\ UNCHANGED <<stalled, server>>

ConnectorFails == ~stalled /\ ConnectFails /\ UNCHANGED <<stalled, server>>

Thread(s) ==
    /\ \/ Accept(s) \/ HandleClient(s) \/ HandleClientEnds(s) \/ ProcessMessage(s)
       \/ Reply(s) \/ Answer(s) \/ Cleanup(s)
    /\ UNCHANGED <<controller, ctl, broken, breaks>>

Forwarding == Forward /\ UNCHANGED <<controller, ctl, broken, breaks>>

Fault ==
    /\ \E s \in Sockets : Break(s) \/ Expire(s)
    /\ UNCHANGED <<controller, ctl, client_lock, thread, read, unsent, target>>

Next ==
    \/ \E g \in Greenlets : Greenlet(g) \/ WokenGreenlet(g)
    \/ Connector \/ ConnectorFails
    \/ \E s \in Sockets : Thread(s)
    \/ Forwarding
    \/ Fault

Spec == Init /\ [][Next]_vars

\* The hub runs every greenlet that is ready; the loops sleep and come back; every
\* thread of the server runs, and gets a lock that is free again and again.  No
\* connection has to fail, none has to be refused, and no greenlet has to be woken
\* for a socket that was closed under it.
FairSpec ==
    /\ Spec
    /\ \A g \in Greenlets : WF_vars(Greenlet(g))
    /\ WF_vars(Connector)
    /\ \A s \in Sockets : SF_vars(Thread(s))
    /\ WF_vars(Forwarding)

-----------------------------------------------------------------------------
(* Properties *)

\* No two receive greenlets live, and the lock is held by a greenlet that is writing.
LinkInv ==
    /\ TypeOK
    /\ \A r \in Receivers : pc[r] # "dead" => r = _recv_greenlet
    /\ \A g \in Greenlets : _send_lock = g <=> pc[g] = "sending"
    /\ is_connected => server_socket # None /\ ctl[server_socket] = "open"
    /\ \A s \in Sockets : ctl[s] # "closed" => s = server_socket

\* Whatever breaks off, the server never takes two lines of a controller for one: the
\* line it parses is one the controller has written.
UpLinesWhole == \A s \in Sockets : thread[s] = "process" => read[s] = "whole"

\* A receive greenlet that ends late does not close a connection that has been made
\* since: what it closes is open only if it was reading from it.
ReceiverSparesNewLink ==
    [][\A r \in Receivers, s \in Sockets :
         pc[r] = "recv" /\ pc'[r] = "dead" /\ ctl[s] = "open" /\ ctl'[s] = "closed"
           => at[r] = s]_vars

\* The connection is up at both ends, with someone to read it.
Up ==
    /\ is_connected /\ Usable(server_socket) /\ server_socket \in clients
    /\ _recv_greenlet # None /\ pc[_recv_greenlet] # "dead"

\* The connect loop waits in connect for a socket that was closed.
Wedged == connector = "connect" /\ ctl[server_socket] = "closed"

\* When connections have stopped to fail, the controller is connected in the end and
\* stays so, unless its greenlets have stopped one another.
LinkHeals == <>[](stalled \/ Wedged \/ Up)

\* However long a controller does not read what it is sent, every thread of the server
\* comes back to its recv: nobody keeps the lock that the other threads need.
ServerReadsOn == \A s \in Sockets : []<>(thread[s] \in {"recv", "done"})

\* Stated, and false: the lock is not asked for while a sendall that holds it waits.
NeverStalled == ~stalled

\* Stated, and false: no late receive greenlet closes a socket that is still connecting.
NeverWedged == ~Wedged
=============================================================================
