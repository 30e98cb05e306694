------------------------------- MODULE GartPath -------------------------------
(***************************************************************************)
(* The GART path service: one thread per connection computes a path with   *)
(* the model, hop by hop, and by Dijkstra if that yields none.  The        *)
(* threads share the object that holds the confidence of the last path.    *)
(*                                                                         *)
(*   gart/path_service.py   compute_path, compute_path_with_gart, run      *)
(*   gart/observation.py    the action mask, in GartObservation            *)
(*                                                                         *)
(* What the model prefers is left open: any next hop its mask allows.      *)
(* Weights are left out, so a shortest path may be any simple path.  A     *)
(* batch is served as its requests one after the other.                    *)
(***************************************************************************)
EXTENDS GartObservation

CONSTANTS
    Threads,      \* threads of the service, one per connection
    Topologies,   \* sets of edges <<u, v>> a request may bring
    Static,       \* edges of the topology file
    Agents,       \* nodes the checkpoint has a model for
    MaxRequests   \* bound: requests per thread

ASSUME ConstantsAssumption ==
    /\ Topologies \subseteq SUBSET (Nodes \X Nodes)
    /\ Static \subseteq Nodes \X Nodes
    /\ Agents \subseteq Nodes
    /\ MaxRequests \in Nat

VARIABLES
    pc,                      \* of each thread
    src_node, dst_node,      \* of the request it serves
    edges,                   \* and the edges it searches
    path,                    \* thread |-> the nodes walked so far
    _last_model_confidence,  \* threads whose walk it is from: none or one
    answer,                  \* thread |-> its last response
    requests                 \* thread |-> how many it has taken

request == <<src_node, dst_node, edges>>
vars == <<pc, request, path, _last_model_confidence, answer, requests>>

None == [source |-> "nothing yet"]
Decision ==
    [source : {"gart_model", "dijkstra", "none"}, src : Nodes, dst : Nodes,
     edges : SUBSET (Nodes \X Nodes), path : Seq(Nodes), confidence : SUBSET Threads]

TypeOK ==
    /\ pc \in [Threads -> {"recv", "hop", "decide", "dijkstra"}]
    /\ src_node \in [Threads -> Nodes]
    /\ dst_node \in [Threads -> Nodes]
    /\ edges \in [Threads -> SUBSET (Nodes \X Nodes)]
    /\ path \in [Threads -> Seq(Nodes)]
    /\ _last_model_confidence \subseteq Threads
    /\ answer \in [Threads -> Decision \cup {None}]
    /\ requests \in [Threads -> Nat]

Init ==
    /\ pc = [t \in Threads |-> "recv"]
    /\ src_node \in [Threads -> Nodes] /\ dst_node = src_node
    /\ edges = [t \in Threads |-> {}]
    /\ path = [t \in Threads |-> <<>>]
    /\ _last_model_confidence = {}
    /\ answer = [t \in Threads |-> None]
    /\ requests = [t \in Threads |-> 0]

-----------------------------------------------------------------------------
(* The walk: compute_path_with_gart *)

\* _sanitize_gart_path
Sanitize(p, s, d, E) == Joins(p, s, d) /\ IsSimple(p) /\ Follows(p, E)

current(t) == path[t][Len(path[t])]
Mask(t)    == ActionMask(edges[t], current(t), SeqSet(path[t]), dst_node[t])
endpointsLeft(E) == {n \in Nodes : \E e \in E : n = e[1]}  \* mutant of endpoints
endpoints(E) == {n \in Nodes : \E e \in E : n \in {e[1], e[2]}}
max_hops(E)  == 2 * Cardinality(endpoints(E))

\* A request is taken.  The confidence of the last walk, whose ever it was, is
\* forgotten.  With no edges at all there is nothing to walk or to search.
Receive(t) ==
    /\ pc[t] = "recv"
    /\ requests[t] < MaxRequests
    /\ requests' = [requests EXCEPT ![t] = @ + 1]
    /\ \E s, d \in Nodes, E \in Topologies :
         LET searched == IF E = {} THEN Static ELSE E
         IN  /\ src_node' = [src_node EXCEPT ![t] = s]
             /\ dst_node' = [dst_node EXCEPT ![t] = d]
             /\ edges' = [edges EXCEPT ![t] = searched]
             /\ path' = [path EXCEPT ![t] = <<s>>]
             /\ pc' = [pc EXCEPT ![t] = IF searched = {} THEN "dijkstra" ELSE "hop"]
    /\ _last_model_confidence' = {}
    /\ UNCHANGED answer

\* No model for this node, or a mask that allows nothing: an exception, caught.
Stuck(t) ==
    /\ pc[t] = "hop"
    /\ current(t) \notin Agents \/ Mask(t) = {}
    /\ pc' = [pc EXCEPT ![t] = "dijkstra"]
    /\ UNCHANGED <<request, path, _last_model_confidence, answer, requests>>

ChosenUnchecked(t) == IF current(t) \in Agents THEN Mask(t) ELSE {}  \* mutant of Chosen
\* The next hops that go on with the walk.
Chosen(t) == (IF current(t) \in Agents THEN Mask(t) ELSE {}) \ SeqSet(path[t])

Revisit(t) ==
    /\ pc[t] = "hop"
    /\ current(t) \in Agents
    /\ Mask(t) \cap SeqSet(path[t]) # {}
    /\ pc' = [pc EXCEPT ![t] = "dijkstra"]
    /\ UNCHANGED <<request, path, _last_model_confidence, answer, requests>>

\* One more hop; after max_hops of them the walk is given up.
Hop(t) ==
    /\ pc[t] = "hop"
    /\ \E m \in Chosen(t) \ {dst_node[t]} : path' = [path EXCEPT ![t] = Append(@, m)]
    /\ pc' = [pc EXCEPT ![t] = IF Len(path[t]) < max_hops(edges[t]) THEN "hop" ELSE "dijkstra"]
    /\ UNCHANGED <<request, _last_model_confidence, answer, requests>>

\* The destination is reached: the path is checked, its confidence stored.
Arrive(t) ==
    /\ pc[t] = "hop"
    /\ dst_node[t] \in Chosen(t)
    /\ path' = [path EXCEPT ![t] = Append(@, dst_node[t])]
    /\ IF Sanitize(path'[t], src_node[t], dst_node[t], edges[t])
       THEN /\ pc' = [pc EXCEPT ![t] = "decide"]
            /\ _last_model_confidence' = {t}
       ELSE /\ pc' = [pc EXCEPT ![t] = "dijkstra"]
            /\ UNCHANGED _last_model_confidence
    /\ UNCHANGED <<request, answer, requests>>

-----------------------------------------------------------------------------
(* The response: compute_path *)

Respond(t, source, p, confidence) ==
    /\ answer' = [answer EXCEPT ![t] =
         [source |-> source, src |-> src_node[t], dst |-> dst_node[t],
          edges |-> edges[t], path |-> p, confidence |-> confidence]]
    /\ pc' = [pc EXCEPT ![t] = "recv"]
    /\ UNCHANGED <<request, path, _last_model_confidence, requests>>

\* What is responded is read from the shared object, after the walk.
Decide(t) ==
    /\ pc[t] = "decide"
    /\ Respond(t, "gart_model", path[t], _last_model_confidence)

SimplePaths(E, s, d) ==
    UNION {{p \in [1..n -> Nodes] : Sanitize(p, s, d, E)} : n \in 1..Cardinality(Nodes)}

FoundEitherWay(E, s, d) ==                           \* mutant of Found
    SimplePaths(E \cup {<<e[2], e[1]>> : e \in E}, s, d)
\* _dijkstra_on_edges: networkx knows only the nodes that have an edge.
Found(E, s, d) == IF {s, d} \subseteq endpoints(E) THEN SimplePaths(E, s, d) ELSE {}

DijkstraSilent(t) ==                                 \* mutant of Dijkstra
    /\ pc[t] = "dijkstra"
    /\ \E p \in Found(edges[t], src_node[t], dst_node[t]) : Respond(t, "dijkstra", p, {})
Dijkstra(t) ==
    /\ pc[t] = "dijkstra"
    /\ LET found == Found(edges[t], src_node[t], dst_node[t])
       IN  \/ \E p \in found : Respond(t, "dijkstra", p, {})
           \/ found = {} /\ Respond(t, "none", <<>>, {})

-----------------------------------------------------------------------------
Work(t) == Stuck(t) \/ Revisit(t) \/ Hop(t) \/ Arrive(t) \/ Decide(t) \/ Dijkstra(t)

Next == \E t \in Threads : Receive(t) \/ Work(t)

Spec == Init /\ [][Next]_vars

\* A thread that serves a request waits for nobody.
FairSpec == Spec /\ \A t \in Threads : WF_vars(Work(t))

-----------------------------------------------------------------------------
(* Properties *)

\* A walk that goes on has not met a node twice, is at most as long as there are
\* nodes, follows the edges of its request and has not met its destination
\* unless it began there.  So neither the check at its end nor the hop limit in
\* compute_path_with_gart ever rejects it.
WalkClean ==
    \A t \in Threads : pc[t] = "hop" =>
        /\ Sanitize(path[t], src_node[t], current(t), edges[t])
        /\ Len(path[t]) <= Cardinality(Nodes)
        /\ dst_node[t] \in SeqSet(path[t]) => dst_node[t] = src_node[t]

WalkInv == TypeOK /\ WalkClean

\* A path in a response joins the endpoints of the request, repeats no node and
\* follows the edges searched, though nobody checks the model's path again.
AnswerValid ==
    \A t \in Threads :
        answer[t] # None /\ answer[t].source # "none" =>
            Sanitize(answer[t].path, answer[t].src, answer[t].dst, answer[t].edges)

\* The service answers "none" only where no path joins two different nodes.
NoneOnlyIfUnreachable ==
    \A t \in Threads :
        answer[t] # None /\ answer[t].source = "none" /\ answer[t].src # answer[t].dst =>
            SimplePaths(answer[t].edges, answer[t].src, answer[t].dst) = {}

\* Between two different nodes a response holds a path just when there is one.
AnswerRight == AnswerValid /\ NoneOnlyIfUnreachable

\* A walk between two nodes is given up only at a node without a model, or one
\* all of whose neighbours, and not only those in its local view, it has been to.
GivenUpOnlyWhenStuck ==
    [][\A t \in Threads :
          pc[t] = "hop" /\ pc'[t] = "dijkstra" /\ src_node[t] # dst_node[t] =>
              \/ current(t) \notin Agents
              \/ Neighbours(edges[t], current(t)) \subseteq SeqSet(path[t])]_vars

\* Every request is answered.
RequestAnswered == \A t \in Threads : pc[t] # "recv" ~> pc[t] = "recv"

\* The confidence that goes out with the model's path is of the walk that found
\* this path: compute_path returns `confidence=self._last_model_confidence` with
\* the path it has just computed.
ConfidenceOwn ==
    \A t \in Threads :
        answer[t] # None /\ answer[t].source = "gart_model" => answer[t].confidence = {t}

\* gart/README.md: "invalid or already-visited next hops are masked before
\* sampling".
VisitedMasked ==
    \A t \in Threads :
        pc[t] = "hop" /\ src_node[t] # dst_node[t] => Mask(t) \cap SeqSet(path[t]) = {}
=============================================================================
