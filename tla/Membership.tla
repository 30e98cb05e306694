----------------------------- MODULE Membership -----------------------------
(***************************************************************************)
(* Which controllers the root server knows, and the topology it keeps for  *)
(* them: the accept loop, one thread per client, the heartbeat thread and  *)
(* cleanup_disconnected_client, which both kinds of thread run.            *)
(*                                                                         *)
(*   server_agent.py             start, handle_client, handle_topo_message,*)
(*                               update_graph                              *)
(*   server_message_handlers.py  heartbeat_check_loop, cleanup             *)
(*                                                                         *)
(* client_lock covers clients and client_last_heartbeat only.  The tables  *)
(* of the topology and the graph built from them are shared without a      *)
(* lock, so an action is what no other thread can be seen to interrupt.    *)
(***************************************************************************)
EXTENDS Integers, FiniteSets

CONSTANTS
    Clients,     \* client addresses: connections of controllers
    Heartbeat,   \* the heartbeat thread
    Reports,     \* contents of a controller's topo message
    Mortal,      \* bound: connections that may end
    MaxReports   \* bound: topo messages per client

ASSUME ConstantsAssumption ==
    /\ IsFiniteSet(Clients)
    /\ Heartbeat \notin Clients
    /\ Mortal \subseteq Clients
    /\ MaxReports \in Nat

VARIABLES
    is_running,
    accepting,               \* the client being registered, as a set
    peer,                    \* c |-> the controller's end of the connection
    sock,                    \* c |-> the server's end
    clients,                 \* addresses in self.clients
    client_last_heartbeat,   \* addresses with a heartbeat time
    late,                    \* those whose time is older than 6 s
    topo,                    \* c |-> last report, for some clients
    controller_to_switches,  \* clients with an entry
    G,                       \* links in the graph, as <<client, report>>
    pc,                      \* actor |-> where it stands
    leaving,                 \* clients whose receive loop has ended
    victim,                  \* actor |-> the client it cleans up
    expired,                 \* disconnected_clients of the heartbeat thread
    visited,                 \* actor |-> keys update_graph has been through
    size,                    \* actor |-> size of topo when it began to iterate
    visit,                   \* actor |-> the item it is adding, as a set
    reports                  \* c |-> topo messages so far

tables == <<clients, client_last_heartbeat, late>>
walk   == <<visited, size, visit>>
vars   == <<is_running, accepting, peer, sock, tables, topo,
            controller_to_switches, G, pc, leaving, victim, expired, walk, reports>>

Actors == Clients \cup {Heartbeat}
Cleaning == {"pop", "topo", "del topo", "switches", "del switches"}
Updating == {"update", "iterate", "walk"}

TypeOK ==
    /\ is_running \in BOOLEAN
    /\ accepting \in SUBSET Clients /\ Cardinality(accepting) <= 1
    /\ peer \in [Clients -> {"up", "gone", "silent"}]
    /\ sock \in [Clients -> {"none", "open", "closed"}]
    /\ clients \subseteq Clients
    /\ late \subseteq client_last_heartbeat /\ client_last_heartbeat = clients
    /\ DOMAIN topo \subseteq Clients
    /\ \A c \in DOMAIN topo : topo[c] \in Reports
    /\ controller_to_switches \subseteq Clients
    /\ G \subseteq Clients \X Reports
    /\ pc \in [Actors -> {"none", "recv", "report", "done", "start", "dead", "scan"}
                         \cup Cleaning \cup Updating]
    /\ leaving \subseteq Clients
    /\ victim \in [Actors -> Clients \cup {Heartbeat}]
    /\ expired \subseteq Clients
    /\ visited \in [Actors -> SUBSET Clients]
    /\ size \in [Actors -> 0..Cardinality(Clients)]
    /\ visit \in [Actors -> SUBSET (Clients \X Reports)]
    /\ reports \in [Clients -> 0..MaxReports]

\* __init__ starts the heartbeat thread; start() sets is_running afterwards.
Init ==
    /\ is_running = FALSE
    /\ accepting = {}
    /\ peer = [c \in Clients |-> "up"]
    /\ sock = [c \in Clients |-> "none"]
    /\ clients = {} /\ client_last_heartbeat = {} /\ late = {}
    /\ topo = [c \in {} |-> 0]
    /\ controller_to_switches = {}
    /\ G = {}
    /\ pc = [a \in Actors |-> IF a = Heartbeat THEN "start" ELSE "none"]
    /\ leaving = {}
    /\ victim = [a \in Actors |-> a]
    /\ expired = {}
    /\ visited = [a \in Actors |-> {}]
    /\ size = [a \in Actors |-> 0]
    /\ visit = [a \in Actors |-> {}]
    /\ reports = [c \in Clients |-> 0]

Goto(a, label) == pc' = [pc EXCEPT ![a] = label]

-----------------------------------------------------------------------------
(* Main thread *)

Start ==
    /\ ~is_running
    /\ is_running' = TRUE
    /\ UNCHANGED <<accepting, peer, sock, tables, topo, controller_to_switches, G,
                   pc, leaving, victim, expired, walk, reports>>

\* The client's thread runs before the client is registered.
Accept(c) ==
    /\ is_running
    /\ accepting = {}
    /\ sock[c] = "none"
    /\ accepting' = {c}
    /\ sock' = [sock EXCEPT ![c] = "open"]
    /\ Goto(c, "recv")
    /\ UNCHANGED <<is_running, peer, tables, topo, controller_to_switches, G,
                   leaving, victim, expired, walk, reports>>

Register ==
    /\ accepting # {}
    /\ accepting' = {}
    /\ clients' = clients \cup accepting
    /\ client_last_heartbeat' = client_last_heartbeat \cup accepting
    /\ late' = late \ accepting
    /\ UNCHANGED <<is_running, peer, sock, topo, controller_to_switches, G, pc,
                   leaving, victim, expired, walk, reports>>

-----------------------------------------------------------------------------
(* Controllers and clock *)

\* The connection is closed, or dies without a word.
PeerEnds(c) ==
    /\ c \in Mortal
    /\ peer[c] = "up"
    /\ \E how \in {"gone", "silent"} : peer' = [peer EXCEPT ![c] = how]
    /\ UNCHANGED <<is_running, accepting, sock, tables, topo,
                   controller_to_switches, G, pc, leaving, victim, expired, walk,
                   reports>>

\* Six seconds without a message that the client's thread has read.
Silence(c) ==
    /\ c \in client_last_heartbeat \ late
    /\ peer[c] # "up" \/ (c \in Mortal /\ pc[c] # "recv")
    /\ late' = late \cup {c}
    /\ UNCHANGED <<is_running, accepting, peer, sock, clients,
                   client_last_heartbeat, topo, controller_to_switches, G, pc,
                   leaving, victim, expired, walk, reports>>

-----------------------------------------------------------------------------
(* A client's thread *)

\* Any message renews the heartbeat; one of type heartbeat does nothing else.
ReadHeartbeat(c) ==
    /\ pc[c] = "recv" /\ peer[c] = "up" /\ sock[c] = "open"
    /\ c \in late
    /\ late' = late \ {c}
    /\ UNCHANGED <<is_running, accepting, peer, sock, clients,
                   client_last_heartbeat, topo, controller_to_switches, G, pc,
                   leaving, victim, expired, walk, reports>>

\* handle_topo_message writes its tables one after the other ...
ReadTopo(c) ==
    /\ pc[c] = "recv" /\ peer[c] = "up" /\ sock[c] = "open"
    /\ reports[c] < MaxReports
    /\ reports' = [reports EXCEPT ![c] = @ + 1]
    /\ late' = late \ {c}
    /\ controller_to_switches' = controller_to_switches \cup {c}
    /\ Goto(c, "report")
    /\ UNCHANGED <<is_running, accepting, peer, sock, clients,
                   client_last_heartbeat, topo, G, leaving, victim, expired, walk>>

AfterReportRecv == "recv"                            \* mutant of AfterReport
AfterReport == "update"

\* ... and rebuilds the graph, whether or not the client is still registered.
StoreTopo(c) ==
    /\ pc[c] = "report"
    /\ \E r \in Reports :
         topo' = [d \in DOMAIN topo \cup {c} |-> IF d = c THEN r ELSE topo[d]]
    /\ Goto(c, AfterReport)
    /\ UNCHANGED <<is_running, accepting, peer, sock, tables,
                   controller_to_switches, G, leaving, victim, expired, walk,
                   reports>>

\* A "disconnect" message: clean up and go on reading.
ReadDisconnect(c) ==
    /\ c \in Mortal
    /\ pc[c] = "recv" /\ peer[c] = "up" /\ sock[c] = "open"
    /\ late' = late \ {c}
    /\ peer' = [peer EXCEPT ![c] = "gone"]
    /\ victim' = [victim EXCEPT ![c] = c]
    /\ Goto(c, "pop")
    /\ UNCHANGED <<is_running, accepting, sock, clients, client_last_heartbeat,
                   topo, controller_to_switches, G, leaving, expired, walk, reports>>

AfterEndDone == "done"                               \* mutant of AfterEnd
AfterEnd == "pop"

\* End of file, or the server's end is closed: the loop ends, and its "finally"
\* cleans up.
EndOfFile(c) ==
    /\ pc[c] = "recv"
    /\ peer[c] = "gone" \/ sock[c] = "closed"
    /\ leaving' = leaving \cup {c}
    /\ victim' = [victim EXCEPT ![c] = c]
    /\ Goto(c, AfterEnd)
    /\ UNCHANGED <<is_running, accepting, peer, sock, tables, topo,
                   controller_to_switches, G, expired, walk, reports>>

-----------------------------------------------------------------------------
(* Heartbeat thread: heartbeat_check_loop *)

\* The thread's loop ends for good when it finds the server not running.
FirstCheck ==
    /\ pc[Heartbeat] = "start"
    /\ Goto(Heartbeat, IF is_running THEN "scan" ELSE "dead")
    /\ UNCHANGED <<is_running, accepting, peer, sock, tables, topo,
                   controller_to_switches, G, leaving, victim, expired, walk, reports>>

Scan ==
    /\ pc[Heartbeat] = "scan"
    /\ expired = {} /\ late # {}
    /\ expired' = late
    /\ UNCHANGED <<is_running, accepting, peer, sock, tables, topo,
                   controller_to_switches, G, pc, leaving, victim, walk, reports>>

\* What was late at the scan is cleaned up, whatever has come since.
Expire(c) ==
    /\ pc[Heartbeat] = "scan"
    /\ c \in expired
    /\ expired' = expired \ {c}
    /\ victim' = [victim EXCEPT ![Heartbeat] = c]
    /\ Goto(Heartbeat, "pop")
    /\ UNCHANGED <<is_running, accepting, peer, sock, tables, topo,
                   controller_to_switches, G, leaving, walk, reports>>

-----------------------------------------------------------------------------
(* cleanup_disconnected_client, by either kind of thread *)

HeartbeatsWithoutKept(c) == client_last_heartbeat    \* mutant of HeartbeatsWithout
HeartbeatsWithout(c) == client_last_heartbeat \ {c}

\* Under client_lock.
Pop(a) ==
    /\ pc[a] = "pop"
    /\ sock' = IF victim[a] \in clients THEN [sock EXCEPT ![victim[a]] = "closed"]
                                        ELSE sock
    /\ clients' = clients \ {victim[a]}
    /\ client_last_heartbeat' = HeartbeatsWithout(victim[a])
    /\ late' = late \ {victim[a]}
    /\ Goto(a, "topo")
    /\ UNCHANGED <<is_running, accepting, peer, topo, controller_to_switches, G,
                   leaving, victim, expired, walk, reports>>

\* "if x in table: del table[x]" is a test and a deletion.  When another thread
\* that cleans up the same client deletes in between, the del raises, and the
\* rest of this cleanup is skipped.
TestTopo(a) ==
    /\ pc[a] = "topo"
    /\ Goto(a, IF victim[a] \in DOMAIN topo THEN "del topo" ELSE "switches")
    /\ UNCHANGED <<is_running, accepting, peer, sock, tables, topo,
                   controller_to_switches, G, leaving, victim, expired, walk, reports>>

TestSwitches(a) ==
    /\ pc[a] = "switches"
    /\ Goto(a, IF victim[a] \in controller_to_switches THEN "del switches"
               ELSE "update")
    /\ UNCHANGED <<is_running, accepting, peer, sock, tables, topo,
                   controller_to_switches, G, leaving, victim, expired, walk, reports>>

Back(a) == IF a = Heartbeat THEN "scan"
           ELSE IF a \in leaving THEN "done" ELSE "recv"

DelTopo(a) ==
    /\ pc[a] = "del topo"
    /\ topo' = [c \in DOMAIN topo \ {victim[a]} |-> topo[c]]
    /\ Goto(a, IF victim[a] \in DOMAIN topo THEN "switches" ELSE Back(a))
    /\ UNCHANGED <<is_running, accepting, peer, sock, tables,
                   controller_to_switches, G, leaving, victim, expired, walk, reports>>

DelSwitches(a) ==
    /\ pc[a] = "del switches"
    /\ controller_to_switches' = controller_to_switches \ {victim[a]}
    /\ Goto(a, IF victim[a] \in controller_to_switches THEN "update" ELSE Back(a))
    /\ UNCHANGED <<is_running, accepting, peer, sock, tables, topo, G, leaving,
                   victim, expired, walk, reports>>

-----------------------------------------------------------------------------
(* update_graph, by any thread: clear, then add the links of each report.   *)

Clear(a) ==
    /\ pc[a] = "update"
    /\ G' = {}
    /\ Goto(a, "iterate")
    /\ UNCHANGED <<is_running, accepting, peer, sock, tables, topo,
                   controller_to_switches, leaving, victim, expired, walk, reports>>

\* A dictionary iterator remembers the size it began with.
Iterate(a) ==
    /\ pc[a] = "iterate"
    /\ size' = [size EXCEPT ![a] = Cardinality(DOMAIN topo)]
    /\ visited' = [visited EXCEPT ![a] = {}]
    /\ Goto(a, "walk")
    /\ UNCHANGED <<is_running, accepting, peer, sock, tables, topo,
                   controller_to_switches, G, leaving, victim, expired, visit, reports>>

Fetch(a) ==
    /\ pc[a] = "walk" /\ visit[a] = {}
    /\ Cardinality(DOMAIN topo) = size[a]
    /\ \E c \in DOMAIN topo \ visited[a] :
         /\ visit' = [visit EXCEPT ![a] = {<<c, topo[c]>>}]
         /\ visited' = [visited EXCEPT ![a] = @ \cup {c}]
    /\ UNCHANGED <<is_running, accepting, peer, sock, tables, topo,
                   controller_to_switches, G, pc, leaving, victim, expired, size,
                   reports>>

AddLinks(a) ==
    /\ pc[a] = "walk" /\ visit[a] # {}
    /\ G' = G \cup visit[a]
    /\ visit' = [visit EXCEPT ![a] = {}]
    /\ UNCHANGED <<is_running, accepting, peer, sock, tables, topo,
                   controller_to_switches, pc, leaving, victim, expired, visited,
                   size, reports>>

\* All are added, or "dictionary changed size during iteration": the exception
\* ends the update, and the thread goes on.
UpdateEnds(a) ==
    /\ pc[a] = "walk" /\ visit[a] = {}
    /\ DOMAIN topo \subseteq visited[a] \/ Cardinality(DOMAIN topo) # size[a]
    /\ Goto(a, Back(a))
    /\ visited' = [visited EXCEPT ![a] = {}]
    /\ size' = [size EXCEPT ![a] = 0]
    /\ UNCHANGED <<is_running, accepting, peer, sock, tables, topo,
                   controller_to_switches, G, leaving, victim, expired, visit, reports>>

-----------------------------------------------------------------------------
Work(a) ==   \* what a thread does once it has begun
    \/ Pop(a) \/ TestTopo(a) \/ DelTopo(a) \/ TestSwitches(a) \/ DelSwitches(a)
    \/ Clear(a) \/ Iterate(a) \/ Fetch(a) \/ AddLinks(a) \/ UpdateEnds(a)

ClientThread(c) == StoreTopo(c) \/ EndOfFile(c) \/ Work(c)

HeartbeatThread ==
    FirstCheck \/ Scan \/ (\E c \in Clients : Expire(c)) \/ Work(Heartbeat)

Next ==
    \/ Start \/ Register \/ HeartbeatThread
    \/ \E c \in Clients :
         \/ Accept(c) \/ PeerEnds(c) \/ Silence(c)
         \/ ReadHeartbeat(c) \/ ReadTopo(c) \/ ReadDisconnect(c)
         \/ ClientThread(c)

Spec == Init /\ [][Next]_vars

\* No thread waits for another without a bound: a receive gives up after 6 s and
\* tries again.  Time passes; whether a controller sends anything is its choice.
FairSpec ==
    /\ Spec
    /\ WF_vars(Start) /\ WF_vars(Register) /\ WF_vars(HeartbeatThread)
    /\ \A c \in Clients : WF_vars(ClientThread(c)) /\ WF_vars(Silence(c))
-----------------------------------------------------------------------------
(* Properties *)

\* Once a client's thread has ended and the heartbeat thread is not cleaning up
\* after it, nothing it reported is left: no late write of its last message
\* survives the cleanup that the heartbeat thread may have run before.
DeadLeaveNothing ==
    \A c \in Clients :
        pc[c] = "done" /\ ~(victim[Heartbeat] = c /\ pc[Heartbeat] \in Cleaning)
            => c \notin DOMAIN topo /\ c \notin controller_to_switches

\* The tables have their types, and the dead leave nothing in them.
MembershipInv == TypeOK /\ DeadLeaveNothing

AtRest == \A a \in Actors : pc[a] \notin Cleaning \cup Updating \cup {"report"}

\* Concurrent rebuilds clear each other's work and may fail half-way, but once
\* all have ended no reported link is missing from the graph.
NoLinkLost == AtRest => {<<c, topo[c]>> : c \in DOMAIN topo} \subseteq G

\* What update_graph logs when it has ended, "network graph updated": with every
\* thread at rest the graph holds the links of the last reports and no others.
GraphMatchesReports == AtRest => G \subseteq {<<c, topo[c]>> : c \in DOMAIN topo}

\* The docstring of cleanup_disconnected_client, "Remove state associated with a
\* disconnected controller": a client whose thread has ended is not registered,
\* or the heartbeat thread still runs to remove it.
DisconnectedRemoved ==
    \A c \in clients : pc[c] = "done" => pc[Heartbeat] # "dead"

\* The docstring of heartbeat_check_loop: "Remove clients that exceed the
\* heartbeat timeout".
SilentRemoved == \A c \in Clients : [](c \in late /\ peer[c] = "silent" => <>(c \notin clients))
=============================================================================
