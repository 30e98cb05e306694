----------------------------- MODULE RouteChoice -----------------------------
(***************************************************************************)
(* How the root server answers a path request: it asks the GART path       *)
(* service over one shared connection, falls back to Dijkstra on its own   *)
(* graph, and chooses by its route mode, while link_down and link_up       *)
(* messages and topology reports change what it knows of the links.        *)
(*                                                                         *)
(*   server_agent.py         handle_path_request, _request_path_from_drl,  *)
(*                           handle_link_down, handle_link_up              *)
(*   server_path_service.py  the edges sent, the fallback, the validation  *)
(*   gart/path_service.py    the service (its search is GartPath)          *)
(*                                                                         *)
(* A path is the set of the switch links it uses, and an optional path a   *)
(* set of at most one.                                                     *)
(***************************************************************************)
EXTENDS Integers, Sequences, FiniteSets

CONSTANTS
    Threads,     \* client threads of the server
    Queries,     \* (src, dst) pairs
    Paths,       \* Paths[q]: the paths between the two switches of q
    Links,       \* directed switch links
    Reverse,     \* Reverse[l]: l the other way round
    Static,      \* links of the service's topology file
    Mode,        \* route_mode: spf, shadow, hybrid or drl
    MaxEvents,   \* bound: reports of changed links
    MaxBreaks,   \* bound: failures of the path service's connection
    MaxRequests  \* bound: requests per thread

ASSUME ConstantsAssumption ==
    /\ Queries # {}
    /\ Paths \in [Queries -> SUBSET SUBSET Links]
    /\ \A q \in Queries : {} \notin Paths[q]
    /\ Reverse \in [Links -> Links]
    /\ Static \subseteq Links
    /\ Mode \in {"spf", "shadow", "hybrid", "drl"}
    /\ MaxEvents \in Nat /\ MaxBreaks \in Nat /\ MaxRequests \in Nat

VARIABLES
    graph,               \* links of self.G
    link_down_set,       \* links held to be down
    overdue,             \* those older than LINK_DOWN_TTL
    pc, query,           \* of each thread
    topo_edges,          \* thread |-> the links it asks the service about
    path_service_lock,   \* threads that hold it
    path_service_sock,   \* "none", "up", or "closed" by the service
    asked, answered,     \* requests and responses on the connection
    drl,                 \* thread |-> the service's path
    copied,              \* thread |-> the links that Dijkstra may use
    torn,                \* threads for which those change as they are read
    answer,              \* thread |-> its last answer to a controller, and (history)
                         \* how its request was served
    downThroughout,      \* history: links down since the thread began
    upThroughout,        \* history: links that it could use since then
    events, breaks, requests

linkVars == <<graph, link_down_set, overdue>>
connVars == <<path_service_lock, path_service_sock, asked, answered>>
readVars == <<copied, torn>>
history  == <<downThroughout, upThroughout>>
counts   == <<events, breaks, requests>>
vars == <<linkVars, pc, query, topo_edges, connVars, drl, readVars, answer, history, counts>>

Optional(S) == {{}} \cup {{x} : x \in S}
AllPaths    == UNION {Paths[q] : q \in Queries}
Answers     == [query : Queries, path : Optional(AllPaths), torn : BOOLEAN, blind : BOOLEAN]
None        == [query |-> "none"]

TypeOK ==
    /\ graph \subseteq Links
    /\ overdue \subseteq link_down_set /\ link_down_set \subseteq Links
    /\ pc \in [Threads -> {"idle", "lock", "send", "wait", "choose", "read"}]
    /\ query \in [Threads -> Queries]
    /\ topo_edges \in [Threads -> SUBSET Links]
    /\ path_service_lock \in Optional(Threads)
    /\ path_service_sock \in {"none", "up", "closed"}
    /\ asked \in Seq([query : Queries, topo_edges : SUBSET Links])
    /\ answered \in Seq(Optional(AllPaths))
    /\ drl \in [Threads -> Optional(AllPaths)]
    /\ copied \in [Threads -> SUBSET Links]
    /\ torn \subseteq Threads
    /\ answer \in [Threads -> Answers \cup {None}]
    /\ downThroughout \in [Threads -> SUBSET Links]
    /\ upThroughout \in [Threads -> SUBSET Links]

Init ==
    /\ graph = Links
    /\ link_down_set = {} /\ overdue = {}
    /\ pc = [t \in Threads |-> "idle"]
    /\ query = [t \in Threads |-> CHOOSE q \in Queries : TRUE]
    /\ topo_edges = [t \in Threads |-> {}]
    /\ path_service_lock = {}
    /\ path_service_sock \in {"none", "up"}
    /\ asked = <<>> /\ answered = <<>>
    /\ drl = [t \in Threads |-> {}]
    /\ copied = [t \in Threads |-> {}]
    /\ torn = {}
    /\ answer = [t \in Threads |-> None]
    /\ downThroughout = [t \in Threads |-> {}]
    /\ upThroughout = [t \in Threads |-> {}]
    /\ events = 0 /\ breaks = 0
    /\ requests = [t \in Threads |-> 0]

-----------------------------------------------------------------------------
(* What other threads learn of the links *)

Told ==
    /\ torn' = torn \cup {t \in Threads : pc[t] = "read" /\ (graph' # graph \/ link_down_set # {})}
    /\ downThroughout' = [t \in Threads |->
                            IF pc[t] = "idle" THEN downThroughout[t]
                            ELSE downThroughout[t] \cap link_down_set']
    /\ upThroughout' = [t \in Threads |->
                          IF pc[t] = "idle" THEN upThroughout[t]
                          ELSE upThroughout[t] \cap (graph' \ link_down_set')]
    /\ UNCHANGED <<pc, query, topo_edges, connVars, drl, copied, answer, breaks, requests>>

\* handle_link_down: a link known for less than 30 s to be down is ignored, one
\* for longer is entered anew.
LinkDown(l) ==
    /\ events < MaxEvents /\ events' = events + 1
    /\ l \notin link_down_set \ overdue
    /\ link_down_set' = (link_down_set \ overdue) \cup {l, Reverse[l]}
    /\ overdue' = {}
    /\ UNCHANGED graph
    /\ Told

LinkUp(l) ==
    /\ events < MaxEvents /\ events' = events + 1
    /\ link_down_set' = link_down_set \ {l, Reverse[l]}
    /\ overdue' = overdue \ {l, Reverse[l]}
    /\ UNCHANGED graph
    /\ Told

\* A rebuild of the graph begins, or has ended with a link more or less.
GraphChanges ==
    /\ events < MaxEvents /\ events' = events + 1
    /\ graph' \in {{}} \cup {graph \cup {l} : l \in Links} \cup {graph \ {l} : l \in Links}
    /\ graph' # graph
    /\ UNCHANGED <<link_down_set, overdue>>
    /\ Told

\* An entry grows older than LINK_DOWN_TTL.
Age ==
    /\ overdue # link_down_set
    /\ overdue' = link_down_set
    /\ UNCHANGED <<graph, link_down_set, events>>
    /\ Told

\* _cleanup_expired_link_downs in the heartbeat thread.
Expire ==
    /\ overdue # {}
    /\ link_down_set' = link_down_set \ overdue
    /\ overdue' = {}
    /\ UNCHANGED <<graph, events>>
    /\ Told

-----------------------------------------------------------------------------
(* A client's thread: handle_path_request *)

EdgesAll == graph                                    \* mutant of Edges
\* build_topo_edges_for_path_service
Edges == graph \ link_down_set

\* An endpoint that is not in the graph, as when a rebuild has cleared it.
Refuse(t) ==
    /\ pc[t] = "idle"
    /\ requests[t] < MaxRequests
    /\ graph = {}
    /\ requests' = [requests EXCEPT ![t] = @ + 1]
    /\ \E q \in Queries :
         answer' = [answer EXCEPT ![t] = [query |-> q, path |-> {}, torn |-> FALSE,
                                          blind |-> FALSE]]
    /\ downThroughout' = [downThroughout EXCEPT ![t] = link_down_set]
    /\ upThroughout' = [upThroughout EXCEPT ![t] = {}]
    /\ UNCHANGED <<linkVars, pc, query, topo_edges, connVars, drl, readVars, events,
                   breaks>>

\* The edges are collected before the lock is taken.  The service is not asked
\* when an endpoint's switch is not in the graph, or another thread's change
\* ends the collection with an exception.
Begin(t) ==
    /\ pc[t] = "idle"
    /\ requests[t] < MaxRequests
    /\ requests' = [requests EXCEPT ![t] = @ + 1]
    /\ \E q \in Queries : query' = [query EXCEPT ![t] = q]
    /\ \E known \in BOOLEAN :
         pc' = [pc EXCEPT ![t] = IF Mode # "spf" /\ known THEN "lock" ELSE "choose"]
    /\ topo_edges' = [topo_edges EXCEPT ![t] = Edges]
    /\ drl' = [drl EXCEPT ![t] = {}]
    /\ downThroughout' = [downThroughout EXCEPT ![t] = link_down_set]
    /\ upThroughout' = [upThroughout EXCEPT ![t] = graph \ link_down_set]
    /\ UNCHANGED <<linkVars, connVars, readVars, answer, events, breaks>>

\* Take the lock, and connect if there is no connection.
Lock(t) ==
    /\ pc[t] = "lock"
    /\ path_service_lock = {}
    /\ \/ /\ path_service_sock # "none"
          /\ path_service_lock' = {t}
          /\ pc' = [pc EXCEPT ![t] = "send"]
          /\ UNCHANGED <<path_service_sock, breaks>>
       \/ /\ path_service_sock = "none"
          /\ path_service_lock' = {t}
          /\ path_service_sock' = "up"
          /\ pc' = [pc EXCEPT ![t] = "send"]
          /\ UNCHANGED breaks
       \/ /\ path_service_sock = "none"
          /\ breaks < MaxBreaks
          /\ breaks' = breaks + 1
          /\ pc' = [pc EXCEPT ![t] = "choose"]
          /\ UNCHANGED <<path_service_lock, path_service_sock>>
    /\ UNCHANGED <<linkVars, query, topo_edges, asked, answered, drl, readVars, answer,
                   history, events, requests>>

Ask(t) ==
    /\ pc[t] = "send"
    /\ path_service_sock = "up"
    /\ asked' = Append(asked, [query |-> query[t], topo_edges |-> topo_edges[t]])
    /\ pc' = [pc EXCEPT ![t] = "wait"]
    /\ UNCHANGED <<linkVars, query, topo_edges, path_service_lock, path_service_sock,
                   answered, drl, readVars, answer, history, counts>>

\* The first line that comes is the answer.  A path with a link that the graph
\* lacks by now is rejected; what is known of links being down is not looked at.
Receive(t) ==
    /\ pc[t] = "wait"
    /\ answered # <<>>
    /\ answered' = Tail(answered)
    /\ path_service_lock' = {}
    /\ drl' = [drl EXCEPT ![t] = {p \in Head(answered) : p \subseteq graph}]
    /\ pc' = [pc EXCEPT ![t] = "choose"]
    /\ UNCHANGED <<linkVars, query, topo_edges, path_service_sock, asked, readVars,
                   answer, history, counts>>

ReconnectNot == UNCHANGED <<path_service_sock, asked, answered>>  \* mutant of Reconnect
\* _connect_path_service: the old connection is closed, with all that is on it.
Reconnect ==
    /\ path_service_sock' \in {"up", "none"}
    /\ asked' = <<>> /\ answered' = <<>>

ReleasedNot == path_service_lock                     \* mutant of Released
Released == {}

\* Ten seconds without an answer, or the connection breaks: no decision.
Fail(t) ==
    /\ pc[t] \in {"send", "wait"}
    /\ \/ path_service_sock = "closed" /\ answered = <<>> /\ UNCHANGED breaks
       \/ /\ pc[t] = "wait" /\ path_service_sock = "up"
          /\ breaks < MaxBreaks /\ breaks' = breaks + 1
    /\ Reconnect
    /\ path_service_lock' = Released
    /\ pc' = [pc EXCEPT ![t] = "choose"]
    /\ UNCHANGED <<linkVars, query, topo_edges, drl, readVars, answer, history, events,
                   requests>>

\* handle_path_request_with_policy: unless the service's path is the answer, the
\* graph is copied and rid of the links held to be down.
Copy(t) ==
    /\ pc[t] = "choose"
    /\ Mode \in {"spf", "shadow"} \/ drl[t] = {}
    /\ copied' = [copied EXCEPT ![t] = graph \ link_down_set]
    /\ torn' = torn \ {t}
    /\ pc' = [pc EXCEPT ![t] = "read"]
    /\ UNCHANGED <<linkVars, query, topo_edges, connVars, drl, answer, history, counts>>

\* Both are read without a lock: a change on the way leaves a mixture of the
\* old and the new, or ends the computation with an exception, which is answered
\* as an error.
Dijkstra(t) ==
    LET read  == IF t \in torn THEN copied[t] \cup (graph \ link_down_set) ELSE copied[t]
        found == {p \in Paths[query[t]] : p \subseteq read}
    IN  IF found = {} \/ t \in torn THEN {{}} \cup {{p} : p \in found}
        ELSE {{p} : p \in found}

ChooseDecision(t, fallback) == drl[t]                \* mutant of Choose
\* _choose_final_path_response
Choose(t, fallback) ==
    IF Mode = "drl" \/ (Mode = "hybrid" /\ drl[t] # {}) THEN drl[t] ELSE fallback

Answer(t) ==
    /\ \/ pc[t] = "choose" /\ Mode \notin {"spf", "shadow"} /\ drl[t] # {}
       \/ pc[t] = "read"
    /\ \E fallback \in IF pc[t] = "read" THEN Dijkstra(t) ELSE {{}} :
         answer' = [answer EXCEPT ![t] = [query |-> query[t],
                                          path  |-> Choose(t, fallback),
                                          torn  |-> t \in torn,
                                          blind |-> topo_edges[t] = {}]]
    /\ pc' = [pc EXCEPT ![t] = "idle"]
    /\ topo_edges' = [topo_edges EXCEPT ![t] = {}]
    /\ drl' = [drl EXCEPT ![t] = {}]
    /\ copied' = [copied EXCEPT ![t] = {}]
    /\ torn' = torn \ {t}
    /\ UNCHANGED <<linkVars, query, connVars, history, counts>>

-----------------------------------------------------------------------------
(* The path service *)

\* compute_path: by the model, or by Dijkstra if that fails, over the edges of
\* the request.  With no edges it is the topology file's.
Search(r) ==
    LET edges == IF r.topo_edges = {} THEN Static ELSE r.topo_edges
        found == {p \in Paths[r.query] : p \subseteq edges}
    IN  IF found = {} THEN {{}} ELSE {{p} : p \in found}

Compute ==
    /\ path_service_sock = "up"
    /\ asked # <<>>
    /\ asked' = Tail(asked)
    /\ \E path \in Search(Head(asked)) : answered' = Append(answered, path)
    /\ UNCHANGED <<linkVars, pc, query, topo_edges, path_service_lock,
                   path_service_sock, drl, readVars, answer, history, counts>>

\* The service stops, or an exception ends its thread for this connection.
Break ==
    /\ path_service_sock = "up"
    /\ breaks < MaxBreaks
    /\ breaks' = breaks + 1
    /\ path_service_sock' = "closed"
    /\ asked' = <<>>
    /\ UNCHANGED <<linkVars, pc, query, topo_edges, path_service_lock, answered, drl,
                   readVars, answer, history, events, requests>>

-----------------------------------------------------------------------------
Work(t) == Lock(t) \/ Ask(t) \/ Receive(t) \/ Fail(t) \/ Copy(t) \/ Answer(t)

Next ==
    \/ \E l \in Links : LinkDown(l) \/ LinkUp(l)
    \/ GraphChanges \/ Age \/ Expire
    \/ \E t \in Threads : Refuse(t) \/ Begin(t) \/ Work(t)
    \/ Compute \/ Break

Spec == Init /\ [][Next]_vars

\* A thread that has begun goes on, waiting at most 10 s for the service, which
\* answers or fails.
FairSpec ==
    /\ Spec
    /\ WF_vars(Compute)
    /\ \A t \in Threads : WF_vars(Work(t))
-----------------------------------------------------------------------------
(* Properties *)

\* Only the thread that holds the lock has a request or an answer on the
\* connection, and it is its own: a late answer to a request that timed out is
\* never read as the answer to the next one.
ConnectionOwned ==
    /\ \A t \in Threads : t \in path_service_lock <=> pc[t] \in {"send", "wait"}
    /\ Len(asked) + Len(answered) <= 1
    /\ \A n \in 1..Len(asked) : \E t \in path_service_lock :
         /\ pc[t] = "wait"
         /\ asked[n] = [query |-> query[t], topo_edges |-> topo_edges[t]]
    /\ \A n \in 1..Len(answered) : \E t \in path_service_lock :
         /\ pc[t] = "wait"
         /\ answered[n] \in Search([query |-> query[t], topo_edges |-> topo_edges[t]])

ServiceInv == TypeOK /\ ConnectionOwned

\* The answer to a request is a path between its own endpoints, and avoids the
\* links that were held to be down from when the request was taken up until it
\* was answered.  A link_down that comes while the service computes does not
\* count: the graph may hold the link until the next report.  Nor does a request
\* that found no link up: the service then takes its topology file for the
\* present links, and the graph may still hold those that are down.
AnswerSound ==
    \A t \in Threads : answer[t] # None => \A p \in answer[t].path :
        /\ p \in Paths[answer[t].query]
        /\ pc[t] = "idle" => \/ p \cap downThroughout[t] = {}
                             \/ answer[t].blind /\ p \subseteq Static

\* Every request that is taken up is answered, whoever else waits for the lock
\* and however often the service fails.
RequestEnds == \A t \in Threads : pc[t] # "idle" ~> pc[t] = "idle"

Reachable(t) == \E p \in Paths[answer[t].query] : p \subseteq upThroughout[t]

\* The docstring of handle_path_request, "DRL first and Dijkstra fallback": when
\* some path could be used from when the request was taken up until it was
\* answered, the requester is given a path.
FallbackGiven ==
    \A t \in Threads :
        pc[t] = "idle" /\ answer[t] # None /\ Reachable(t) => answer[t].path # {}

\* The same of a request during whose fallback nothing changed, in every mode
\* with a fallback: whatever the service does, answers too late, or finds that
\* the graph has lost since.
FallbackUndisturbed ==
    Mode # "drl" => \A t \in Threads :
        pc[t] = "idle" /\ answer[t] # None /\ ~answer[t].torn /\ Reachable(t) =>
            answer[t].path # {}

\* What the service prints when it starts, "GART uses the dynamic topology that
\* the controller provides": its path runs over links it was given.
DynamicTopology ==
    \A t \in Threads : \A p \in drl[t] : p \subseteq topo_edges[t]
=============================================================================
