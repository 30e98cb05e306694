--------------------------- MODULE GartObservation ---------------------------
(***************************************************************************)
(* What an agent of GART sees of the network: the enabled links within a   *)
(* few hops of its node, and the next hops its mask allows.  The path      *)
(* service and the training environment build it alike.                    *)
(*                                                                         *)
(*   gart/observation.py   GARTTopologyIndex, build_gart_observation       *)
(***************************************************************************)
EXTENDS Integers, Sequences, FiniteSets

CONSTANTS
    Nodes,
    Hops     \* gat_layers: radius of a node's local view

ASSUME ObservationAssumption == IsFiniteSet(Nodes) /\ Hops \in Nat \ {0}

Neighbours(E, n) == {m \in Nodes : <<n, m>> \in E}

SeqSet(p)  == {p[i] : i \in 1..Len(p)}
IsSimple(p) == \A i, j \in 1..Len(p) : p[i] = p[j] => i = j
Follows(p, E) == \A i \in 1..Len(p) - 1 : <<p[i], p[i + 1]>> \in E
Joins(p, s, d) == p # <<>> /\ p[1] = s /\ p[Len(p)] = d

\* GARTTopologyIndex.local_view: the nodes at most Hops edges away.
LocalNodes(E, n) ==
    {m \in Nodes : \E k \in 1..Hops + 1 : \E w \in [1..k -> Nodes] :
                      Joins(w, n, m) /\ Follows(w, E)}

LocalEdges(E, n) == E \cap (LocalNodes(E, n) \X LocalNodes(E, n))

ActionMaskAll(E, n, visited, dst) ==                 \* mutant of ActionMask
    Neighbours(LocalEdges(E, n), n)
\* Of build_gart_observation.  Where only visited nodes are left, all of them
\* are allowed.
ActionMask(E, n, visited, dst) ==
    LET available == Neighbours(LocalEdges(E, n), n)
        fresh     == {m \in available : m \notin visited \/ m = dst}
    IN  IF fresh = {} THEN available ELSE fresh
==============================================================================
