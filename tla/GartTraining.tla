----------------------------- MODULE GartTraining -----------------------------
(***************************************************************************)
(* Training of the GART policy: one flow after the other is routed hop by  *)
(* hop over a topology whose links come and go, each decision is stored,   *)
(* and every full rollout, or the last, shorter one, updates the model.    *)
(*                                                                         *)
(*   gart/train.py          train                                          *)
(*   gart/topology_env.py   reset, step, the links                         *)
(*   gart/rollout.py        the buffer and its advantages                  *)
(*   gart/ppo.py            the update                                     *)
(*                                                                         *)
(* Of the rewards only is kept which transitions they credit, of the       *)
(* weights whether they are finite, of the delay whether a flow is late.   *)
(***************************************************************************)
EXTENDS GartObservation

CONSTANTS
    BaseEdges,      \* links of the topology file, in both directions
    rollout_length,
    Interactions    \* --interactions

ASSUME TrainConstants ==
    /\ BaseEdges \subseteq Nodes \X Nodes
    /\ \A n \in Nodes : Neighbours(BaseEdges, n) # {}
    /\ \A n \in Nodes : <<n, n>> \notin BaseEdges
    /\ rollout_length \in Nat \ {0, 1}
    /\ Interactions \in Nat \ {0}

VARIABLES
    stage,        \* "act", "next", "learn" or "saved"
    enabled,      \* links that are enabled
    destination,
    visited,      \* nodes of the flow so far; path in the code holds the same
    action_mask,  \* of the observation the next action is drawn from
    done,
    rollout,      \* transitions: whether one ended its flow, and which flow
    flow,         \* history: number of the flow
    interaction,
    weights       \* "finite", or "nan" for those of some node's agent

env       == <<enabled, destination, visited, action_mask, done, flow>>
trainVars == <<stage, env, rollout, interaction, weights>>

Transition == [done : BOOLEAN, flow : Nat]

TrainTypeOK ==
    /\ stage \in {"act", "next", "learn", "saved"}
    /\ enabled \subseteq BaseEdges
    /\ destination \in Nodes
    /\ visited \in Seq(Nodes) /\ visited # <<>>
    /\ action_mask \subseteq Nodes
    /\ done \in BOOLEAN
    /\ rollout \in Seq(Transition)
    /\ flow \in Nat
    /\ interaction \in 0..Interactions
    /\ weights \in {"finite", "nan"}

-----------------------------------------------------------------------------
(* The environment *)

current_node == visited[Len(visited)]

\* _observation
Observe == action_mask' = ActionMask(enabled', current_node', SeqSet(visited'), destination')

\* reset: a flow between two nodes, over all links.
Reset ==
    /\ enabled' = BaseEdges
    /\ \E s, d \in Nodes : s # d /\ visited' = <<s>> /\ destination' = d
    /\ done' = FALSE
    /\ Observe

Stranded(up) == {n \in Nodes : Neighbours(up, n) = {}}
RescuedNot(up) == {up}                               \* mutant of Rescued
\* A node whose links are all disrupted has its best one restored.
Rescued(up) ==
    {up \cup {<<n, best[n]>> : n \in Stranded(up)} :
       best \in {b \in [Stranded(up) -> Nodes] :
                   \A n \in Stranded(up) : <<n, b[n]>> \in BaseEdges}}

\* _update_dynamic_links
LinkUpdates == UNION {Rescued(up) : up \in SUBSET BaseEdges}

env_max_hops == 2 * Cardinality(Nodes)

\* The flow goes on: the links change, then the next observation is made.
Continue == enabled' \in LinkUpdates /\ Observe

\* A next hop that was visited, or to which no link leads, ends the flow.
Step(m) ==
    /\ UNCHANGED <<destination, flow>>
    /\ IF m \in SeqSet(visited) \/ <<current_node, m>> \notin enabled
       THEN done' = TRUE /\ UNCHANGED visited
       ELSE /\ visited' = Append(visited, m)
            /\ \E late \in BOOLEAN :
                 done' = (m = destination \/ late \/ Len(visited') >= env_max_hops)
    /\ IF done' THEN UNCHANGED <<enabled, action_mask>> ELSE Continue

-----------------------------------------------------------------------------
(* The buffer *)

full == Len(rollout) >= rollout_length

NextNonTerminalAfter(r, i) ==                        \* mutant of NextNonTerminal
    IF i + 1 <= Len(r) THEN ~ r[i + 1].done ELSE ~ r[i].done
\* For the last transition it is last_done, which is also this one's.
NextNonTerminal(r, i) == ~ r[i].done

\* compute_returns_and_advantages: the transitions whose rewards and values are
\* in the advantage of each one.  Len(r) + 1 stands for last_value.
Credit(r) ==
    LET gae[i \in 1..Len(r) + 1] ==
          {i} \cup IF i <= Len(r) /\ NextNonTerminal(r, i) THEN gae[i + 1] ELSE {}
    IN  gae

-----------------------------------------------------------------------------
(* The training loop *)

TrainInit ==
    /\ stage = "act"
    /\ enabled = BaseEdges
    /\ \E s \in Nodes : visited = <<s>> /\ destination \in Nodes \ {s}
    /\ action_mask = ActionMask(enabled, current_node, SeqSet(visited), destination)
    /\ done = FALSE
    /\ rollout = <<>> /\ flow = 0 /\ interaction = 0
    /\ weights = "finite"

\* No action to draw from, a step after the end, or a full buffer: training ends
\* with an exception.
CannotAct == action_mask = {} \/ weights = "nan" \/ done \/ full

Act ==
    /\ stage = "act" /\ ~ CannotAct
    /\ interaction' = interaction + 1
    /\ \E m \in action_mask : Step(m)
    /\ rollout' = Append(rollout, [done |-> done', flow |-> flow])
    /\ stage' = "next"
    /\ UNCHANGED weights

NextFlow ==
    /\ stage = "next"
    /\ IF done
       THEN Reset /\ flow' = flow + 1
       ELSE UNCHANGED env
    /\ stage' = IF full \/ interaction = Interactions THEN "learn" ELSE "act"
    /\ UNCHANGED <<rollout, interaction, weights>>

\* The standard deviation of a single advantage is not a number, and then
\* neither are the gradients of the agent that took the decision.
UpdateOf(r) == IF Len(r) = 1 THEN "nan" ELSE weights

Learn ==
    /\ stage = "learn"
    /\ weights' = UpdateOf(rollout)
    /\ rollout' = <<>>
    /\ stage' = IF interaction = Interactions THEN "saved" ELSE "act"
    /\ UNCHANGED <<env, interaction>>

TrainNext == Act \/ NextFlow \/ Learn

TrainSpec == TrainInit /\ [][TrainNext]_trainVars

-----------------------------------------------------------------------------
(* Properties *)

\* Whatever links are disrupted, wherever the flow is: there is an action to
\* draw, it leads over a link that still exists when it is taken, and no call of
\* step or add comes at a time when it raises.
ActionsRemain ==
    stage = "act" => ~ CannotAct /\ \A m \in action_mask : <<current_node, m>> \in enabled

\* A flow visits no node twice, so it is never cut off by env_max_hops.
FlowSimple == IsSimple(visited) /\ Len(visited) <= Cardinality(Nodes)

TrainingInv == TrainTypeOK /\ ActionsRemain /\ FlowSimple

\* The rewards of one flow credit no decision of another, also where the rollout
\* begins or ends within a flow: an advantage counts the transitions of the same
\* flow from its own on, and last_value just if that flow is still under way.
CreditWithinFlow ==
    stage = "learn" => \A i \in 1..Len(rollout) :
        Credit(rollout)[i] =
            {j \in i..Len(rollout) : rollout[j].flow = rollout[i].flow}
            \cup IF rollout[Len(rollout)].flow = rollout[i].flow
                    /\ ~ rollout[Len(rollout)].done
                 THEN {Len(rollout) + 1} ELSE {}

\* A checkpoint that is written can be used: README.md sends the path service to
\* it, "The checkpoint is written to models/nsfnet/gart.pt".
CheckpointUsable == stage = "saved" => weights = "finite"
=============================================================================
