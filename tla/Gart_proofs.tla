----------------------------- MODULE Gart_proofs -----------------------------
(***************************************************************************)
(* Proofs about GART for every finite set of nodes, any topologies and     *)
(* whatever the model prefers.                                             *)
(*                                                                         *)
(*   GartTraining   training never runs into an exception, no flow meets   *)
(*                  a node twice, and no flow is credited with the rewards *)
(*                  of another                                             *)
(*   GartPath       a walk is always one the final check accepts, it is    *)
(*                  given up only where it cannot go on, and a response    *)
(*                  holds a path of its request                            *)
(*                                                                         *)
(* Both rest on what an agent sees, GartObservation.                       *)
(***************************************************************************)
EXTENDS GartTraining, GartPath, FiniteSetTheorems, WellFoundedInduction, TLAPS

(***************************************************************************)
(* What an agent sees (GartObservation)                                    *)
(***************************************************************************)
USE ObservationAssumption

\* A node's local view holds its own edges, since its radius is at least one.
LEMMA OwnEdgesSeen ==
    ASSUME NEW E \in SUBSET (Nodes \X Nodes), NEW n \in Nodes
    PROVE  Neighbours(LocalEdges(E, n), n) = Neighbours(E, n)
<1>1. n \in LocalNodes(E, n)
  <2> DEFINE w == [i \in 1..1 |-> n]
  <2>1. w \in [1..1 -> Nodes] /\ w[1] = n /\ Len(w) = 1 /\ w # <<>>
    BY SMT
  <2>2. Joins(w, n, n) /\ Follows(w, E)
    BY <2>1 DEF Joins, Follows
  <2>3. 1 \in 1..Hops + 1
    OBVIOUS
  <2> HIDE DEF w
  <2> QED BY <2>1, <2>2, <2>3 DEF LocalNodes
<1>2. ASSUME NEW m \in Nodes, <<n, m>> \in E PROVE m \in LocalNodes(E, n)
  <2> DEFINE w == [i \in 1..2 |-> IF i = 1 THEN n ELSE m]
  <2>1. w \in [1..2 -> Nodes] /\ w[1] = n /\ w[2] = m /\ Len(w) = 2 /\ w # <<>>
    BY SMT
  <2>2. Joins(w, n, m)
    BY <2>1 DEF Joins
  <2>3. Follows(w, E)
    <3>1. \A i \in 1..Len(w) - 1 : i = 1
      BY <2>1
    <3> HIDE DEF w
    <3> QED BY <1>2, <2>1, <3>1 DEF Follows
  <2>4. 2 \in 1..Hops + 1
    OBVIOUS
  <2> QED BY <2>1, <2>2, <2>3, <2>4 DEF LocalNodes
<1> QED BY <1>1, <1>2 DEF Neighbours, LocalEdges

\* The mask allows neighbours only, and none that was visited while another is
\* left; it allows something wherever there is a neighbour.
LEMMA MaskOf ==
    ASSUME NEW E \in SUBSET (Nodes \X Nodes), NEW n \in Nodes, NEW seen, NEW dst
    PROVE  /\ ActionMask(E, n, seen, dst) \subseteq Neighbours(E, n)
           /\ ActionMask(E, n, seen, dst) = {} => Neighbours(E, n) = {}
           /\ dst \notin seen /\ ActionMask(E, n, seen, dst) \cap seen # {} =>
                Neighbours(E, n) \subseteq seen
  BY OwnEdgesSeen DEF ActionMask

-----------------------------------------------------------------------------
(* Paths *)

\* A path that repeats no node is no longer than the set it runs in.
LEMMA SimpleIsShort ==
    ASSUME NEW S, IsFiniteSet(S), NEW p \in Seq(S), IsSimple(p)
    PROVE  Len(p) <= Cardinality(S)
<1>1. p \in [1..Len(p) -> S] /\ Len(p) \in Nat
  OBVIOUS
<1>2. p \in Injection(1..Len(p), S)
  BY <1>1 DEF IsSimple, Injection, IsInjective
<1>3. Cardinality(1..Len(p)) = Len(p)
  <2> SUFFICES ASSUME NEW n \in Nat PROVE Cardinality(1..n) = n
    BY <1>1
  <2>1. Cardinality(1..n) = IF 1 > n THEN 0 ELSE n - 1 + 1
    BY FS_Interval
  <2> QED BY <2>1
<1> QED BY <1>2, <1>3, FS_Injection

\* A path stays simple when it is extended by a node it has not met.
LEMMA SimpleExtends ==
    ASSUME NEW S, NEW p \in Seq(S), IsSimple(p), NEW m \in S, m \notin SeqSet(p)
    PROVE  /\ IsSimple(Append(p, m)) /\ Append(p, m) \in Seq(S)
           /\ SeqSet(Append(p, m)) = SeqSet(p) \cup {m}
<1> DEFINE q == Append(p, m)
<1>1. /\ q \in Seq(S) /\ Len(q) = Len(p) + 1 /\ q[Len(p) + 1] = m
      /\ Len(p) \in Nat /\ \A i \in 1..Len(p) : q[i] = p[i]
  OBVIOUS
<1> HIDE DEF q
<1>2. IsSimple(q)
  BY <1>1 DEF IsSimple, SeqSet
<1>3. SeqSet(q) = SeqSet(p) \cup {m}
  BY <1>1 DEF SeqSet
<1> QED BY <1>1, <1>2, <1>3 DEF q

-----------------------------------------------------------------------------
(***************************************************************************)
(* Training (GartTraining)                                                 *)
(***************************************************************************)
\* The mask is the one of the present links and the present flow, and each node
\* has an enabled link.
Observed ==
    /\ action_mask = ActionMask(enabled, current_node, SeqSet(visited), destination)
    /\ \A n \in Nodes : Neighbours(enabled, n) # {}

\* What holds between the buffer, the flow and the loop's place in its body.
LoopInv ==
    /\ stage \in {"act", "learn"} => ~ done /\ weights = "finite"
    /\ ~ done => Observed /\ destination \notin SeqSet(visited)
    /\ stage = "act" => Len(rollout) < rollout_length /\ interaction < Interactions
    /\ stage = "next" => Len(rollout) \in 1..rollout_length /\ weights = "finite"
    /\ stage = "learn" => full \/ interaction = Interactions

IInv == TrainTypeOK /\ IsSimple(visited) /\ LoopInv

LEMMA Numbers ==
    /\ rollout_length \in Nat /\ rollout_length >= 2
    /\ Interactions \in Nat /\ Interactions >= 1
  BY TrainConstants

LEMMA CurrentInNodes == TrainTypeOK => current_node \in Nodes
  BY DEF TrainTypeOK, current_node

LEMMA OneNode ==
    ASSUME NEW s \in Nodes
    PROVE  /\ <<s>> \in Seq(Nodes) /\ <<s>> # <<>> /\ IsSimple(<<s>>)
           /\ SeqSet(<<s>>) = {s} /\ Len(<<s>>) = 1
<1>1. Len(<<s>>) = 1 /\ <<s>>[1] = s /\ <<s>> # <<>> /\ <<s>> \in Seq(Nodes)
  OBVIOUS
<1> QED BY <1>1 DEF IsSimple, SeqSet

LEMMA MaskInNodes ==
    ASSUME NEW E, NEW n, NEW seen, NEW dst
    PROVE  ActionMask(E, n, seen, dst) \subseteq Nodes
  BY DEF ActionMask, Neighbours

LEMMA InductiveInit == TrainInit => IInv
<1> SUFFICES ASSUME TrainInit PROVE IInv
  OBVIOUS
<1>1. PICK s \in Nodes : visited = <<s>> /\ destination \in Nodes \ {s}
  BY DEF TrainInit
<1>2. visited \in Seq(Nodes) /\ visited # <<>> /\ IsSimple(visited) /\ SeqSet(visited) = {s}
  BY <1>1, OneNode
<1>3. Observed
  BY TrainConstants DEF TrainInit, Observed
<1>4. rollout \in Seq(Transition) /\ Len(rollout) = 0
  BY DEF TrainInit, Transition
<1>5. action_mask \subseteq Nodes
  BY MaskInNodes DEF TrainInit
<1>6. /\ stage = "act" /\ enabled = BaseEdges /\ done = FALSE /\ flow = 0
      /\ interaction = 0 /\ weights = "finite" /\ destination \in Nodes
  BY <1>1 DEF TrainInit
<1>7. TrainTypeOK
  <2>1. interaction \in 0..Interactions /\ flow \in Nat
    BY <1>6, Numbers
  <2>2. stage \in {"act", "next", "learn", "saved"} /\ weights \in {"finite", "nan"}
    BY <1>6
  <2> QED BY <1>2, <1>4, <1>5, <1>6, <2>1, <2>2, Zenon DEF TrainTypeOK
<1>8. LoopInv
  BY <1>1, <1>2, <1>3, <1>4, <1>6, Numbers DEF LoopInv
<1> QED BY <1>2, <1>7, <1>8 DEF IInv

\* Among the links after a change every node has one of its own.
LEMMA LinksRemain ==
    ASSUME NEW E \in LinkUpdates
    PROVE  E \subseteq BaseEdges /\ \A n \in Nodes : Neighbours(E, n) # {}
<1>1. PICK up \in SUBSET BaseEdges : E \in Rescued(up)
  BY DEF LinkUpdates
<1>2. PICK best \in [Stranded(up) -> Nodes] :
        /\ \A n \in Stranded(up) : <<n, best[n]>> \in BaseEdges
        /\ E = up \cup {<<n, best[n]>> : n \in Stranded(up)}
  BY <1>1 DEF Rescued
<1>3. ASSUME NEW n \in Nodes PROVE Neighbours(E, n) # {}
  <2>1. CASE n \in Stranded(up)
    <3>1. <<n, best[n]>> \in E /\ best[n] \in Nodes BY <1>2, <2>1
    <3> QED BY <3>1 DEF Neighbours
  <2>2. CASE n \notin Stranded(up)
    BY <1>2, <2>2 DEF Stranded, Neighbours
  <2> QED BY <2>1, <2>2
<1> QED BY <1>2, <1>3

\* One decision in the environment.
LEMMA StepFlow ==
    ASSUME IInv, stage = "act", NEW m \in action_mask, Step(m)
    PROVE  /\ visited' \in Seq(Nodes) /\ visited' # <<>> /\ IsSimple(visited')
           /\ enabled' \subseteq BaseEdges /\ action_mask' \subseteq Nodes
           /\ done' \in BOOLEAN
           /\ ~ done' => Observed' /\ destination' \notin SeqSet(visited')
<1>1. ~ done /\ Observed /\ destination \notin SeqSet(visited) /\ m \in Nodes
  BY DEF IInv, LoopInv, TrainTypeOK
<1>2. CASE m \in SeqSet(visited) \/ <<current_node, m>> \notin enabled
  BY <1>2 DEF Step, IInv, TrainTypeOK
<1>3. CASE m \notin SeqSet(visited) /\ <<current_node, m>> \in enabled
  <2>1. visited' = Append(visited, m)
    BY <1>3 DEF Step
  <2>2. /\ visited' \in Seq(Nodes) /\ IsSimple(visited')
        /\ SeqSet(visited') = SeqSet(visited) \cup {m}
    BY <1>1, <1>3, <2>1, SimpleExtends DEF IInv, TrainTypeOK
  <2>3. visited' # <<>>
    BY <2>1 DEF IInv, TrainTypeOK
  <2>4. done' \in BOOLEAN /\ (~ done' => m # destination)
    BY <1>3 DEF Step
  <2>5. CASE done'
    BY <2>2, <2>3, <2>4, <2>5 DEF Step, IInv, TrainTypeOK
  <2>6. CASE ~ done'
    <3>1. enabled' \in LinkUpdates /\ Observe
      BY <2>6 DEF Step, Continue
    <3>2. enabled' \subseteq BaseEdges /\ Observed'
      BY <3>1, LinksRemain DEF Observe, Observed
    <3>3. action_mask' \subseteq Nodes
      BY <3>1, MaskInNodes DEF Observe
    <3>4. destination' \notin SeqSet(visited')
      BY <1>1, <2>2, <2>4, <2>6 DEF Step
    <3> QED BY <2>2, <2>3, <2>4, <3>2, <3>3, <3>4
  <2> QED BY <2>5, <2>6, <2>4
<1> QED BY <1>2, <1>3

LEMMA ActKeeps == IInv /\ Act => IInv'
<1> SUFFICES ASSUME IInv, Act PROVE IInv'
  OBVIOUS
<1>1. PICK m \in action_mask : Step(m)
  BY DEF Act
<1>2. /\ visited' \in Seq(Nodes) /\ visited' # <<>> /\ IsSimple(visited')
      /\ enabled' \subseteq BaseEdges /\ action_mask' \subseteq Nodes
      /\ done' \in BOOLEAN
      /\ ~ done' => Observed' /\ destination' \notin SeqSet(visited')
  BY <1>1, StepFlow DEF Act
<1>3. destination' = destination /\ flow' = flow
  BY <1>1 DEF Step
<1>4. /\ rollout' \in Seq(Transition)
      /\ Len(rollout') = Len(rollout) + 1 /\ Len(rollout) \in Nat
  <2>1. [done |-> done', flow |-> flow] \in Transition
    BY <1>2 DEF IInv, TrainTypeOK, Transition
  <2> QED BY <2>1 DEF Act, IInv, TrainTypeOK
<1>5. interaction' \in 0..Interactions
  BY Numbers DEF Act, IInv, TrainTypeOK, LoopInv
<1>6. Len(rollout') \in 1..rollout_length
  BY <1>4, Numbers DEF Act, IInv, LoopInv
<1>7. TrainTypeOK'
  BY <1>2, <1>3, <1>4, <1>5 DEF Act, IInv, TrainTypeOK
<1> QED BY <1>2, <1>6, <1>7 DEF Act, IInv, LoopInv

LEMMA NextFlowKeeps == IInv /\ NextFlow => IInv'
<1> SUFFICES ASSUME IInv, NextFlow PROVE IInv'
  OBVIOUS
<1>1. /\ visited' \in Seq(Nodes) /\ visited' # <<>> /\ IsSimple(visited')
      /\ enabled' \subseteq BaseEdges /\ action_mask' \subseteq Nodes
      /\ destination' \in Nodes /\ flow' \in Nat
      /\ done' = FALSE /\ Observed' /\ destination' \notin SeqSet(visited')
  <2>1. CASE done
    <3>1. PICK s \in Nodes, d \in Nodes : s # d /\ visited' = <<s>> /\ destination' = d
      BY <2>1 DEF NextFlow, Reset
    <3>2. enabled' = BaseEdges /\ done' = FALSE /\ Observe /\ flow' = flow + 1
      BY <2>1 DEF NextFlow, Reset
    <3>3. Observed' /\ action_mask' \subseteq Nodes
      BY <3>2, MaskInNodes, TrainConstants DEF Observe, Observed
    <3> QED BY <3>1, <3>2, <3>3, OneNode DEF IInv, TrainTypeOK
  <2>2. CASE ~ done
    <3>1. UNCHANGED env
      BY <2>2 DEF NextFlow
    <3>2. Observed /\ destination \notin SeqSet(visited)
      BY <2>2 DEF IInv, LoopInv
    <3> QED BY <2>2, <3>1, <3>2 DEF env, Observed, current_node, IInv, TrainTypeOK
  <2> QED BY <2>1, <2>2 DEF IInv, TrainTypeOK
<1>2. /\ rollout' = rollout /\ interaction' = interaction /\ weights' = weights
      /\ stage' = IF full \/ interaction = Interactions THEN "learn" ELSE "act"
      /\ Len(rollout) \in 1..rollout_length /\ weights = "finite"
  BY DEF NextFlow, IInv, LoopInv
<1>3. TrainTypeOK'
  <2>1. /\ rollout' \in Seq(Transition)
        /\ interaction' \in 0..Interactions /\ weights' \in {"finite", "nan"}
    BY <1>2 DEF IInv, TrainTypeOK
  <2>2. stage' \in {"act", "next", "learn", "saved"} /\ done' \in BOOLEAN
    BY <1>1, <1>2
  <2> QED BY <1>1, <2>1, <2>2 DEF TrainTypeOK
<1>4. stage' = "act" => Len(rollout') < rollout_length /\ interaction' < Interactions
  BY <1>2, Numbers DEF full, IInv, TrainTypeOK
<1>5. stage' = "learn" => full' \/ interaction' = Interactions
  BY <1>2 DEF full
<1>6. stage' \in {"act", "learn"} /\ stage' # "next"
  BY <1>2
<1> QED BY <1>1, <1>2, <1>3, <1>4, <1>5, <1>6 DEF IInv, LoopInv

LEMMA LearnKeeps == IInv /\ Learn => IInv'
<1> SUFFICES ASSUME IInv, Learn PROVE IInv'
  OBVIOUS
<1>1. UNCHANGED env /\ interaction' = interaction /\ rollout' = <<>> /\ stage = "learn"
  BY DEF Learn
<1>2. ~ done' /\ Observed' /\ destination' \notin SeqSet(visited')
  BY <1>1 DEF env, IInv, LoopInv, Observed, current_node
<1>3. /\ weights' \in {"finite", "nan"}
      /\ interaction # Interactions => weights' = "finite"
  <2>1. interaction # Interactions => Len(rollout) # 1
    <3>1. interaction # Interactions => Len(rollout) >= rollout_length
      BY <1>1 DEF IInv, LoopInv, full
    <3>2. Len(rollout) \in Nat
      BY DEF IInv, TrainTypeOK
    <3>3. \A k \in Nat : k >= rollout_length => k # 1
      BY Numbers
    <3> QED BY <3>1, <3>2, <3>3, Zenon
  <2> QED BY <1>1, <2>1 DEF Learn, UpdateOf, IInv, LoopInv
<1>4. rollout' \in Seq(Transition) /\ Len(rollout') = 0
  BY <1>1
<1>5. stage' = IF interaction = Interactions THEN "saved" ELSE "act"
  BY DEF Learn
<1>6. TrainTypeOK'
  BY <1>1, <1>3, <1>4, <1>5 DEF env, IInv, TrainTypeOK
<1>7. stage' = "act" => Len(rollout') < rollout_length /\ interaction' < Interactions
  BY <1>1, <1>4, <1>5, Numbers DEF IInv, TrainTypeOK
<1> QED BY <1>1, <1>2, <1>3, <1>5, <1>6, <1>7 DEF env, IInv, LoopInv

LEMMA InductiveStep == IInv /\ [TrainNext]_trainVars => IInv'
<1>1. IInv /\ UNCHANGED trainVars => IInv'
  BY DEF trainVars, env, IInv, TrainTypeOK, LoopInv, Observed, current_node, full
<1> QED BY <1>1, ActKeeps, NextFlowKeeps, LearnKeeps DEF TrainNext

LEMMA Implies == IInv => TrainingInv
<1> SUFFICES ASSUME IInv PROVE TrainingInv
  OBVIOUS
<1>1. FlowSimple
  BY SimpleIsShort, ObservationAssumption DEF FlowSimple, IInv, TrainTypeOK
<1>2. ASSUME stage = "act"
      PROVE  ~ CannotAct /\ \A m \in action_mask : <<current_node, m>> \in enabled
  <2>1. Observed /\ ~ done /\ ~ full /\ weights = "finite"
    BY <1>2, Numbers DEF IInv, LoopInv, TrainTypeOK, full
  <2>2. current_node \in Nodes /\ enabled \in SUBSET (Nodes \X Nodes)
    BY CurrentInNodes, TrainConstants DEF IInv, TrainTypeOK
  <2>3. action_mask \subseteq Neighbours(enabled, current_node) /\ action_mask # {}
    BY <2>1, <2>2, MaskOf DEF Observed
  <2> QED BY <2>1, <2>3 DEF CannotAct, Neighbours
<1> QED BY <1>1, <1>2 DEF TrainingInv, ActionsRemain, IInv

\* Training always has a next hop to draw that a link leads to, never calls step
\* or add when they raise, and routes each flow without a loop.
THEOREM TrainingCorrect == TrainSpec => []TrainingInv
  BY InductiveInit, InductiveStep, Implies, PTL DEF TrainSpec

-----------------------------------------------------------------------------
(* What an advantage is made of. *)

\* The transitions from i on, as far as the flow goes.
Chain(r, i) == {j \in i..Len(r) + 1 : \A k \in i..j - 1 : NextNonTerminal(r, k)}

\* What the loop of compute_returns_and_advantages makes of each transition.
Unfolds(f, r) ==
    f = [i \in 1..Len(r) + 1 |->
           {i} \cup IF i <= Len(r) /\ NextNonTerminal(r, i) THEN f[i + 1] ELSE {}]

LEMMA ChainUnfolds ==
    ASSUME NEW r, Len(r) \in Nat
    PROVE  Unfolds([i \in 1..Len(r) + 1 |-> Chain(r, i)], r)
<1> DEFINE f == [i \in 1..Len(r) + 1 |-> Chain(r, i)]
           next(i) == {i} \cup IF i <= Len(r) /\ NextNonTerminal(r, i) THEN f[i + 1] ELSE {}
<1>1. ASSUME NEW i \in 1..Len(r) + 1 PROVE f[i] = next(i)
  <2>1. CASE i <= Len(r) /\ NextNonTerminal(r, i)
    <3>1. f[i + 1] = Chain(r, i + 1) /\ f[i] = Chain(r, i)
      BY <2>1
    <3>2. \A j \in i..Len(r) + 1 : j = i \/ j \in i + 1..Len(r) + 1
      OBVIOUS
    <3>3. \A j \in i + 1..Len(r) + 1 : \A k \in i..j - 1 : k = i \/ k \in i + 1..j - 1
      OBVIOUS
    <3>4. Chain(r, i) = {i} \cup Chain(r, i + 1)
      BY <2>1, <3>2, <3>3 DEF Chain
    <3> QED BY <2>1, <3>1, <3>4
  <2>2. CASE ~ (i <= Len(r) /\ NextNonTerminal(r, i))
    <3>1. \A j \in i..Len(r) + 1 : j = i \/ i \in i..j - 1
      OBVIOUS
    <3>2. \A k : k \notin i..i - 1
      OBVIOUS
    <3>3. i <= Len(r) => ~ NextNonTerminal(r, i)
      BY <2>2
    <3>4. i > Len(r) => i..Len(r) + 1 = {i}
      OBVIOUS
    <3>5. Chain(r, i) = {i}
      <4>1. i \in Chain(r, i)
        BY <3>2 DEF Chain
      <4>2. ASSUME NEW j \in Chain(r, i) PROVE j = i
        <5>1. CASE i <= Len(r)
          BY <3>1, <3>3, <5>1 DEF Chain
        <5>2. CASE i > Len(r)
          BY <3>4, <5>2 DEF Chain
        <5> QED BY <5>1, <5>2
      <4> QED BY <4>1, <4>2
    <3> QED BY <2>2, <3>5
  <2> QED BY <2>1, <2>2
<1> QED BY <1>1 DEF Unfolds

LEMMA CreditUnfolds ==
    ASSUME NEW r, Len(r) \in Nat
    PROVE  Unfolds(Credit(r), r)
<1>1. \E f : Unfolds(f, r)
  BY ChainUnfolds
<1>2. Credit(r) = CHOOSE f : Unfolds(f, r)
  BY DEF Credit, Unfolds
<1> QED BY <1>1, <1>2

\* Every set of numbers has a largest one, if they are bounded.
LEMMA Largest ==
    ASSUME NEW n \in Nat, NEW T, T \subseteq 0..n, T # {}
    PROVE  \E x \in T : \A y \in T : y <= x
<1> DEFINE U == {u \in Nat : n - u \in T}
<1>1. U \subseteq Nat /\ U # {}
  <2>1. PICK x \in T : TRUE
    OBVIOUS
  <2>2. n - x \in Nat /\ n - (n - x) = x
    OBVIOUS
  <2>3. n - x \in U
    BY <2>1, <2>2
  <2> QED BY <2>3
<1>2. \A x \in T : n - x \in U
  OBVIOUS
<1>3. \E x \in U : \A y \in U : ~ (<<y, x>> \in OpToRel(<, Nat))
  <2> HIDE DEF U
  <2> QED BY <1>1, NatLessThanWellFounded, WFMin
<1>4. PICK x \in U : \A y \in U : ~ (<<y, x>> \in OpToRel(<, Nat))
  BY <1>3
<1>5. \A y \in U : ~ (y < x)
  BY <1>4 DEF OpToRel
<1>6. n - x \in T /\ x \in Nat
  OBVIOUS
<1>7. ASSUME NEW y \in T PROVE y <= n - x
  <2>1. ~ (n - y < x)
    BY <1>2, <1>5
  <2>2. y \in Int /\ x \in Int
    BY <1>6
  <2> QED BY <2>1, <2>2
<1> QED BY <1>6, <1>7

LEMMA CreditIsChain ==
    ASSUME NEW r, Len(r) \in Nat, NEW i \in 1..Len(r) + 1
    PROVE  Credit(r)[i] = Chain(r, i)
<1> DEFINE n == Len(r) + 1
           f == Credit(r)
           g == [j \in 1..n |-> Chain(r, j)]
           bad == {j \in 1..n : f[j] # g[j]}
<1>1. Unfolds(f, r) /\ Unfolds(g, r)
  BY CreditUnfolds, ChainUnfolds
<1>2. ASSUME bad # {} PROVE FALSE
  <2>1. bad \subseteq 0..n /\ n \in Nat
    OBVIOUS
  <2> HIDE DEF bad
  <2>2. PICK x \in bad : \A y \in bad : y <= x
    BY <1>2, <2>1, Largest
  <2>3. x \in 1..n /\ f[x] # g[x] /\ (x + 1 \in 1..n => f[x + 1] = g[x + 1])
    <3>1. x + 1 \notin bad
      BY <2>1, <2>2
    <3> QED BY <3>1 DEF bad
  <2> HIDE DEF f, g
  <2>4. f[x] = {x} \cup IF x <= Len(r) /\ NextNonTerminal(r, x) THEN f[x + 1] ELSE {}
    BY <1>1, <2>3 DEF Unfolds
  <2>5. g[x] = {x} \cup IF x <= Len(r) /\ NextNonTerminal(r, x) THEN g[x + 1] ELSE {}
    BY <1>1, <2>3 DEF Unfolds
  <2>6. x <= Len(r) => x + 1 \in 1..n
    BY <2>3
  <2> QED BY <2>3, <2>4, <2>5, <2>6
<1> QED BY <1>2

-----------------------------------------------------------------------------
(* Which flow a transition is of. *)

\* No transition from i to n ended its flow.
Going(r, i, n) == \A k \in i..n : ~ r[k].done

\* Two transitions are of one flow just if none before the later one ended it.
SameFlow(r) ==
    \A i, j \in 1..Len(r) : i <= j => (r[i].flow = r[j].flow <=> Going(r, i, j - 1))

\* The next transition continues the flow of the last one, or is of a new flow.
FlowInv ==
    /\ \A i \in 1..Len(rollout) : rollout[i].flow <= flow
    /\ SameFlow(rollout)
    /\ stage = "act" => \A i \in 1..Len(rollout) :
                        rollout[i].flow = flow <=> Going(rollout, i, Len(rollout))
    /\ stage = "next" => /\ Len(rollout) >= 1
                      /\ rollout[Len(rollout)] = [done |-> done, flow |-> flow]

LEMMA FlowInit == TrainInit => FlowInv
<1> SUFFICES ASSUME TrainInit PROVE FlowInv
  OBVIOUS
<1>1. stage = "act" /\ Len(rollout) = 0
  BY DEF TrainInit
<1>2. \A i : i \notin 1..Len(rollout)
  BY <1>1
<1> QED BY <1>1, <1>2 DEF FlowInv, SameFlow

\* A decision joins the flow under way.
LEMMA ActFlow == IInv /\ FlowInv /\ Act => FlowInv'
<1> SUFFICES ASSUME IInv, FlowInv, Act PROVE FlowInv'
  OBVIOUS
<1> DEFINE n == Len(rollout)
           last == [done |-> done', flow |-> flow]
<1>1. PICK m \in action_mask : Step(m)
  BY DEF Act
<1>2. stage = "act" /\ stage' = "next" /\ flow' = flow /\ rollout' = Append(rollout, last)
  BY <1>1 DEF Act, Step
<1>3. /\ n \in Nat /\ Len(rollout') = n + 1 /\ rollout'[n + 1] = last
      /\ \A i \in 1..n : rollout'[i] = rollout[i]
  BY <1>2 DEF IInv, TrainTypeOK
<1>4. flow \in Nat
  BY DEF IInv, TrainTypeOK
<1> HIDE DEF n
<1>5. \A i \in 1..n : rollout[i].flow <= flow /\ (rollout[i].flow = flow <=> Going(rollout, i, n))
  BY <1>2 DEF FlowInv, n
<1>6. \A i \in 1..n + 1, j \in 0..n : Going(rollout', i, j) <=> Going(rollout, i, j)
  BY <1>3 DEF Going
<1>7. last.flow = flow
  OBVIOUS
<1> HIDE DEF last
<1>8. \A i \in 1..n + 1 : rollout'[i].flow <= flow'
  BY <1>2, <1>3, <1>4, <1>5, <1>7
<1>9. ASSUME NEW i \in 1..n + 1, NEW j \in 1..n + 1, i <= j
      PROVE  rollout'[i].flow = rollout'[j].flow <=> Going(rollout', i, j - 1)
  <2>1. CASE j <= n
    <3>1. rollout[i].flow = rollout[j].flow <=> Going(rollout, i, j - 1)
      BY <1>3, <1>9, <2>1 DEF FlowInv, SameFlow, n
    <3> QED BY <1>3, <1>6, <1>9, <2>1, <3>1
  <2>2. CASE j = n + 1 /\ i <= n
    <3>1. j - 1 = n /\ i \in 1..n
      BY <1>3, <2>2
    <3>2. rollout'[j].flow = flow /\ rollout'[i] = rollout[i]
      BY <1>3, <1>7, <2>2, <3>1
    <3>3. Going(rollout', i, n) <=> Going(rollout, i, n)
      BY <1>3, <1>6
    <3> QED BY <1>5, <3>1, <3>2, <3>3
  <2>3. CASE j = n + 1 /\ i = n + 1
    <3>1. \A k : k \notin i..j - 1
      BY <1>3, <2>3
    <3> QED BY <2>3, <3>1 DEF Going
  <2> QED BY <1>3, <1>9, <2>1, <2>2, <2>3
<1>10. SameFlow(rollout')
  BY <1>3, <1>9 DEF SameFlow
<1>11. Len(rollout') >= 1 /\ rollout'[Len(rollout')] = [done |-> done', flow |-> flow']
  BY <1>2, <1>3 DEF last
<1> QED BY <1>2, <1>3, <1>8, <1>10, <1>11 DEF FlowInv, SameFlow

\* After the end of a flow the next decision is of a flow of its own.
LEMMA NextFlowFlow == IInv /\ FlowInv /\ NextFlow => FlowInv'
<1> SUFFICES ASSUME IInv, FlowInv, NextFlow PROVE FlowInv'
  OBVIOUS
<1> DEFINE n == Len(rollout)
<1>1. /\ rollout' = rollout /\ stage = "next" /\ stage' \in {"act", "learn"}
      /\ n \in Nat /\ n >= 1 /\ rollout[n].done = done /\ rollout[n].flow = flow
      /\ flow \in Nat /\ done \in BOOLEAN
      /\ flow' = IF done THEN flow + 1 ELSE flow
  BY DEF NextFlow, FlowInv, IInv, TrainTypeOK, env
<1>2. ASSUME NEW i \in 1..n
      PROVE  rollout[i].flow <= flow /\ (rollout[i].flow = flow <=> Going(rollout, i, n - 1))
  <2>1. i <= n /\ n \in 1..n
    BY <1>1
  <2>2. /\ rollout[i].flow <= flow
        /\ rollout[i].flow = rollout[n].flow <=> Going(rollout, i, n - 1)
    <3> HIDE DEF n
    <3> QED BY <2>1 DEF FlowInv, SameFlow, n
  <2> QED BY <1>1, <2>2
<1>3. \A i \in 1..n : rollout[i].flow \in Nat
  <2>1. \A i \in 1..n : rollout[i] \in Transition
    BY DEF IInv, TrainTypeOK
  <2> QED BY <2>1 DEF Transition
<1>4. \A i \in 1..n : rollout[i].flow <= flow'
  BY <1>1, <1>2, <1>3
<1>5. ASSUME NEW i \in 1..n
      PROVE  rollout[i].flow = flow' <=> Going(rollout, i, n)
  <2>1. Going(rollout, i, n) <=> Going(rollout, i, n - 1) /\ ~ done
    <3>1. \A k \in i..n : k = n \/ k \in i..n - 1
      BY <1>1
    <3>2. n \in i..n /\ \A k \in i..n - 1 : k \in i..n
      BY <1>1
    <3> QED BY <1>1, <3>1, <3>2 DEF Going
  <2>2. CASE done
    BY <1>1, <1>2, <1>3, <2>1, <2>2
  <2>3. CASE ~ done
    BY <1>1, <1>2, <2>1, <2>3
  <2> QED BY <1>1, <2>2, <2>3
<1>6. SameFlow(rollout)
  BY DEF FlowInv
<1> QED BY <1>1, <1>4, <1>5, <1>6 DEF FlowInv, SameFlow, Going

LEMMA LearnFlow == IInv /\ FlowInv /\ Learn => FlowInv'
<1> SUFFICES ASSUME IInv, FlowInv, Learn PROVE FlowInv'
  OBVIOUS
<1>1. Len(rollout') = 0 /\ stage' # "next"
  BY DEF Learn
<1>2. \A i : i \notin 1..Len(rollout')
  BY <1>1
<1> QED BY <1>1, <1>2 DEF FlowInv, SameFlow

\* Of what is learnt from, a transition's chain is the rest of its flow.
LEMMA ChainOfFlow ==
    ASSUME IInv, FlowInv
    PROVE  CreditWithinFlow
<1> DEFINE r == rollout
           n == Len(r)
<1> SUFFICES ASSUME NEW i \in 1..n
             PROVE  Credit(r)[i] = {j \in i..n : r[j].flow = r[i].flow}
                                     \cup IF r[n].flow = r[i].flow /\ ~ r[n].done THEN {n + 1} ELSE {}
  BY DEF CreditWithinFlow
<1>1. n \in Nat /\ n >= 1
  BY DEF IInv, TrainTypeOK
<1>2. \A j \in i..n : r[i].flow = r[j].flow <=> Going(r, i, j - 1)
  BY <1>1 DEF FlowInv, SameFlow
<1>3. Credit(r)[i] = Chain(r, i)
  BY <1>1, CreditIsChain
<1>4. Chain(r, i) = {j \in i..n + 1 : Going(r, i, j - 1)}
  BY DEF Chain, Going, NextNonTerminal
<1>5. Going(r, i, n) <=> r[n].flow = r[i].flow /\ ~ r[n].done
  <2>1. \A k \in i..n : k = n \/ k \in i..n - 1
    BY <1>1
  <2>2. n \in i..n /\ \A k \in i..n - 1 : k \in i..n
    BY <1>1
  <2>3. Going(r, i, n) <=> Going(r, i, n - 1) /\ ~ r[n].done
    BY <2>1, <2>2 DEF Going
  <2> QED BY <1>2, <2>2, <2>3
<1>6. \A j \in i..n + 1 : j \in i..n \/ (j = n + 1 /\ j - 1 = n)
  BY <1>1
<1>7. n + 1 \in i..n + 1 /\ \A j \in i..n : j \in i..n + 1 /\ j # n + 1
  BY <1>1
<1> HIDE DEF n, r
<1>8. \A j : j \in Chain(r, i) <=> \/ j \in i..n /\ r[j].flow = r[i].flow
                                   \/ j = n + 1 /\ r[n].flow = r[i].flow /\ ~ r[n].done
  <2>1. (n + 1) - 1 = n
    BY <1>1
  <2> QED BY <1>2, <1>4, <1>5, <1>6, <1>7, <2>1
<1> QED BY <1>3, <1>8

\* The rewards of a flow credit the decisions of that flow alone, for every
\* rollout length: also where the rollout begins or ends within a flow.
THEOREM CreditStaysWithinFlow == TrainSpec => []CreditWithinFlow
<1>1. TrainInit => IInv /\ FlowInv
  BY InductiveInit, FlowInit
<1>2. IInv /\ FlowInv /\ [TrainNext]_trainVars => (IInv /\ FlowInv)'
  <2>1. ASSUME FlowInv, UNCHANGED trainVars PROVE FlowInv'
    <3>1. /\ rollout' = rollout /\ flow' = flow /\ stage' = stage /\ done' = done
      BY <2>1 DEF trainVars, env
    <3> QED BY <2>1, <3>1 DEF FlowInv
  <2> QED BY <2>1, InductiveStep, ActFlow, NextFlowFlow, LearnFlow DEF TrainNext
<1>3. IInv /\ FlowInv => CreditWithinFlow
  BY ChainOfFlow
<1> QED BY <1>1, <1>2, <1>3, PTL DEF TrainSpec

-----------------------------------------------------------------------------
(***************************************************************************)
(* The path service (GartPath)                                             *)
(***************************************************************************)
USE ConstantsAssumption, ObservationAssumption

-----------------------------------------------------------------------------
(* Walks *)

LEMMA Begins ==
    ASSUME NEW s \in Nodes, NEW E
    PROVE  Sanitize(<<s>>, s, s, E) /\ <<s>> \in Seq(Nodes) /\ SeqSet(<<s>>) = {s}
<1>1. Len(<<s>>) = 1 /\ <<s>>[1] = s /\ <<s>> # <<>> /\ <<s>> \in Seq(Nodes)
  OBVIOUS
<1> QED BY <1>1 DEF Sanitize, Joins, IsSimple, Follows, SeqSet

LEMMA Extends ==
    ASSUME NEW E, NEW p \in Seq(Nodes), NEW s, NEW m \in Nodes, p # <<>>,
           Sanitize(p, s, p[Len(p)], E), m \notin SeqSet(p), <<p[Len(p)], m>> \in E
    PROVE  /\ Append(p, m) \in Seq(Nodes)
           /\ Sanitize(Append(p, m), s, m, E)
           /\ SeqSet(Append(p, m)) = SeqSet(p) \cup {m}
<1> DEFINE q == Append(p, m)
<1>1. /\ q \in Seq(Nodes) /\ q # <<>> /\ Len(q) = Len(p) + 1 /\ q[Len(p) + 1] = m
      /\ \A i \in 1..Len(p) : q[i] = p[i]
      /\ Len(p) \in Nat \ {0}
  OBVIOUS
<1> HIDE DEF q
<1>2. Joins(q, s, m)
  BY <1>1 DEF Sanitize, Joins
<1>3. IsSimple(q)
  BY <1>1 DEF Sanitize, IsSimple, SeqSet
<1>4. Follows(q, E)
  <2> SUFFICES ASSUME NEW i \in 1..Len(q) - 1 PROVE <<q[i], q[i + 1]>> \in E
    BY DEF Follows
  <2>1. CASE i = Len(p) BY <1>1, <2>1
  <2>2. CASE i < Len(p) BY <1>1, <2>2 DEF Sanitize, Follows
  <2> QED BY <1>1, <2>1, <2>2
<1>5. SeqSet(q) = SeqSet(p) \cup {m}
  <2>1. \A i \in 1..Len(q) : i \in 1..Len(p) \/ i = Len(p) + 1
    BY <1>1
  <2>2. 1..Len(p) \subseteq 1..Len(q) /\ Len(p) + 1 \in 1..Len(q)
    BY <1>1
  <2>3. SeqSet(q) \subseteq SeqSet(p) \cup {m}
    BY <1>1, <2>1 DEF SeqSet
  <2>4. SeqSet(p) \cup {m} \subseteq SeqSet(q)
    BY <1>1, <2>2 DEF SeqSet
  <2> QED BY <2>3, <2>4
<1> QED BY <1>1, <1>2, <1>3, <1>4, <1>5 DEF Sanitize, q

LEMMA WalkExtends ==
    ASSUME TypeOK, NEW t \in Threads, pc[t] = "hop", NEW m \in Nodes,
           Sanitize(path[t], src_node[t], current(t), edges[t]),
           m \in Mask(t), m \notin SeqSet(path[t])
    PROVE  /\ Append(path[t], m) \in Seq(Nodes)
           /\ Sanitize(Append(path[t], m), src_node[t], m, edges[t])
           /\ SeqSet(Append(path[t], m)) = SeqSet(path[t]) \cup {m}
<1>1. path[t] \in Seq(Nodes) /\ path[t] # <<>> /\ edges[t] \in SUBSET (Nodes \X Nodes)
  BY DEF TypeOK, Sanitize, Joins
<1>2. current(t) \in Nodes
  BY <1>1 DEF current
<1>3. <<current(t), m>> \in edges[t]
  BY <1>1, <1>2, MaskOf DEF Mask, Neighbours
<1>4. current(t) = path[t][Len(path[t])]
  BY DEF current
<1> DEFINE p == path[t]
<1>5. Sanitize(p, src_node[t], p[Len(p)], edges[t]) /\ <<p[Len(p)], m>> \in edges[t]
  BY <1>3, <1>4
<1>6. p \in Seq(Nodes) /\ p # <<>> /\ m \notin SeqSet(p)
  BY <1>1
<1> HIDE DEF p
<1>7. /\ Append(p, m) \in Seq(Nodes)
      /\ Sanitize(Append(p, m), src_node[t], m, edges[t])
      /\ SeqSet(Append(p, m)) = SeqSet(p) \cup {m}
  BY <1>5, <1>6, Extends
<1> QED BY <1>7 DEF p

LEMMA ModelStays ==
    ASSUME TypeOK, NEW t \in Threads
    PROVE  Mask(t) \subseteq Nodes
  BY DEF Mask, ActionMask, Neighbours

-----------------------------------------------------------------------------
(* The invariant *)

LEMMA WalkInit == Init => WalkInv
  BY DEF Init, WalkInv, TypeOK, WalkClean

\* Where only t moves, the walks of the others are as clean as before.
LEMMA OthersWalk ==
    ASSUME WalkInv, NEW t \in Threads, TypeOK',
           \A u \in Threads \ {t} :
              /\ pc'[u] = pc[u] /\ path'[u] = path[u] /\ edges'[u] = edges[u]
              /\ src_node'[u] = src_node[u] /\ dst_node'[u] = dst_node[u],
           pc'[t] = "hop" =>
              /\ Sanitize(path'[t], src_node'[t], path'[t][Len(path'[t])], edges'[t])
              /\ dst_node'[t] \in SeqSet(path'[t]) => dst_node'[t] = src_node'[t]
    PROVE  WalkInv'
<1>1. ASSUME NEW u \in Threads, pc'[u] = "hop"
      PROVE  /\ Sanitize(path'[u], src_node'[u], path'[u][Len(path'[u])], edges'[u])
             /\ dst_node'[u] \in SeqSet(path'[u]) => dst_node'[u] = src_node'[u]
  BY <1>1 DEF WalkInv, WalkClean, current
<1>2. ASSUME NEW u \in Threads, pc'[u] = "hop"
      PROVE  Len(path'[u]) <= Cardinality(Nodes)
  <2>1. path'[u] \in Seq(Nodes) BY DEF TypeOK
  <2>2. IsSimple(path'[u]) BY <1>1, <1>2 DEF Sanitize
  <2> QED BY <2>1, <2>2, SimpleIsShort
<1> QED BY <1>1, <1>2 DEF WalkInv, WalkClean, current

LEMMA ReceiveWalk ==
    ASSUME WalkInv, NEW t \in Threads, Receive(t)
    PROVE  WalkInv'
<1>1. PICK s \in Nodes, d \in Nodes, E \in Topologies :
        LET searched == IF E = {} THEN Static ELSE E
        IN  /\ src_node' = [src_node EXCEPT ![t] = s]
            /\ dst_node' = [dst_node EXCEPT ![t] = d]
            /\ edges' = [edges EXCEPT ![t] = searched]
            /\ path' = [path EXCEPT ![t] = <<s>>]
            /\ pc' = [pc EXCEPT ![t] = IF searched = {} THEN "dijkstra" ELSE "hop"]
  BY DEF Receive
<1>2. (IF E = {} THEN Static ELSE E) \in SUBSET (Nodes \X Nodes)
  BY <1>1
<1>3. path'[t] = <<s>> /\ <<s>> \in Seq(Nodes) /\ Len(<<s>>) = 1 /\ <<s>>[1] = s
  BY <1>1 DEF WalkInv, TypeOK
<1>4. TypeOK'
  BY <1>1, <1>2, <1>3 DEF WalkInv, TypeOK, Receive
<1>5. src_node'[t] = s /\ dst_node'[t] = d
  BY <1>1 DEF WalkInv, TypeOK
<1>6. /\ Sanitize(path'[t], src_node'[t], path'[t][Len(path'[t])], edges'[t])
      /\ dst_node'[t] \in SeqSet(path'[t]) => dst_node'[t] = src_node'[t]
  BY <1>3, <1>5, Begins
<1> QED BY <1>1, <1>4, <1>6, OthersWalk DEF WalkInv, TypeOK

LEMMA HopWalk ==
    ASSUME WalkInv, NEW t \in Threads, Hop(t)
    PROVE  WalkInv'
<1>1. PICK m \in Chosen(t) \ {dst_node[t]} : path' = [path EXCEPT ![t] = Append(@, m)]
  BY DEF Hop
<1>2. pc[t] = "hop" /\ m \in Mask(t) /\ m \notin SeqSet(path[t])
  BY <1>1 DEF Hop, Chosen
<1>3. m \in Nodes
  BY <1>2, ModelStays DEF WalkInv
<1>4. /\ Append(path[t], m) \in Seq(Nodes)
      /\ Sanitize(Append(path[t], m), src_node[t], m, edges[t])
      /\ SeqSet(Append(path[t], m)) = SeqSet(path[t]) \cup {m}
  BY <1>2, <1>3, WalkExtends DEF WalkInv, WalkClean
<1>5. path'[t] = Append(path[t], m) /\ path'[t][Len(path'[t])] = m
  BY <1>1, <1>4 DEF WalkInv, TypeOK, Sanitize, Joins
<1>6. TypeOK'
  BY <1>1, <1>4 DEF WalkInv, TypeOK, Hop, request
<1>7. dst_node'[t] \in SeqSet(path'[t]) => dst_node'[t] = src_node'[t]
  BY <1>1, <1>2, <1>4, <1>5 DEF WalkInv, WalkClean, Hop, request
<1>8. Sanitize(path'[t], src_node'[t], path'[t][Len(path'[t])], edges'[t])
  BY <1>4, <1>5 DEF Hop, request
<1>9. \A u \in Threads \ {t} : pc'[u] = pc[u] /\ path'[u] = path[u]
  BY <1>1 DEF WalkInv, TypeOK, Hop
<1> QED BY <1>6, <1>7, <1>8, <1>9, OthersWalk DEF Hop, request

LEMMA ArriveWalk ==
    ASSUME WalkInv, NEW t \in Threads, Arrive(t)
    PROVE  /\ WalkInv'
           /\ pc' = [pc EXCEPT ![t] = "decide"]
           /\ Sanitize(path'[t], src_node'[t], dst_node'[t], edges'[t])
<1> DEFINE d == dst_node[t]
<1>1. pc[t] = "hop" /\ d \in Mask(t) /\ d \notin SeqSet(path[t]) /\ d \in Nodes
  BY DEF Arrive, Chosen, WalkInv, TypeOK
<1>2. /\ Append(path[t], d) \in Seq(Nodes)
      /\ Sanitize(Append(path[t], d), src_node[t], d, edges[t])
  BY <1>1, WalkExtends DEF WalkInv, WalkClean
<1>3. path'[t] = Append(path[t], d) /\ path' \in [Threads -> Seq(Nodes)]
  BY <1>2 DEF Arrive, WalkInv, TypeOK
<1>4. pc' = [pc EXCEPT ![t] = "decide"] /\ _last_model_confidence' = {t}
  BY <1>2, <1>3 DEF Arrive
<1>5. TypeOK'
  BY <1>3, <1>4 DEF Arrive, WalkInv, TypeOK, request
<1>6. Sanitize(path'[t], src_node'[t], dst_node'[t], edges'[t])
  BY <1>2, <1>3 DEF Arrive, request
<1>7. \A u \in Threads \ {t} : pc'[u] = pc[u] /\ path'[u] = path[u]
  BY <1>4 DEF WalkInv, TypeOK, Arrive
<1>8. pc'[t] # "hop"
  BY <1>4 DEF WalkInv, TypeOK
<1> QED BY <1>4, <1>5, <1>6, <1>7, <1>8, OthersWalk DEF Arrive, request

\* The steps that end a walk without a path.
LEMMA GivenUpWalk ==
    ASSUME WalkInv, NEW t \in Threads, Stuck(t) \/ Revisit(t)
    PROVE  WalkInv'
<1>1. pc' = [pc EXCEPT ![t] = "dijkstra"]
  BY DEF Stuck, Revisit
<1>2. UNCHANGED <<request, path, _last_model_confidence, answer, requests>>
  BY DEF Stuck, Revisit
<1>3. TypeOK'
  BY <1>1, <1>2 DEF WalkInv, TypeOK, request
<1>4. pc'[t] # "hop" /\ \A u \in Threads \ {t} : pc'[u] = pc[u]
  BY <1>1 DEF WalkInv, TypeOK
<1> QED BY <1>2, <1>3, <1>4, OthersWalk DEF request

LEMMA RespondWalk ==
    ASSUME WalkInv, NEW t \in Threads, NEW source \in {"gart_model", "dijkstra", "none"},
           NEW p \in Seq(Nodes), NEW c \in SUBSET Threads, Respond(t, source, p, c)
    PROVE  WalkInv'
<1>1. [source |-> source, src |-> src_node[t], dst |-> dst_node[t],
       edges |-> edges[t], path |-> p, confidence |-> c] \in Decision
  BY DEF WalkInv, TypeOK, Decision
<1>2. answer' \in [Threads -> Decision \cup {None}]
  BY <1>1 DEF Respond, WalkInv, TypeOK
<1>3. TypeOK'
  BY <1>2 DEF Respond, WalkInv, TypeOK, request
<1>4. pc'[t] # "hop" /\ \A u \in Threads \ {t} : pc'[u] = pc[u]
  BY DEF Respond, WalkInv, TypeOK
<1> QED BY <1>3, <1>4, OthersWalk DEF Respond, request

\* What Dijkstra finds is a path of the edges it is given.
LEMMA FoundIsPath ==
    ASSUME NEW E, NEW s, NEW d, NEW p \in Found(E, s, d)
    PROVE  p \in Seq(Nodes) /\ Sanitize(p, s, d, E)
<1>1. Cardinality(Nodes) \in Nat
  BY FS_CardinalityType
<1>2. PICK n \in 1..Cardinality(Nodes) : p \in [1..n -> Nodes] /\ Sanitize(p, s, d, E)
  BY DEF Found, SimplePaths
<1>3. n \in Nat
  BY <1>1
<1> QED BY <1>2, <1>3

\* Which response a step gives, if it gives one.
LEMMA Responds ==
    ASSUME WalkInv, NEW t \in Threads, Decide(t) \/ Dijkstra(t)
    PROVE  \E source \in {"gart_model", "dijkstra", "none"}, p \in Seq(Nodes),
              c \in SUBSET Threads :
                /\ Respond(t, source, p, c)
                /\ source = "gart_model" => pc[t] = "decide" /\ p = path[t]
                /\ source = "dijkstra" => Sanitize(p, src_node[t], dst_node[t], edges[t])
<1>1. CASE Decide(t)
  BY <1>1 DEF Decide, WalkInv, TypeOK
<1>2. CASE Dijkstra(t)
  <2>1. CASE \E p \in Found(edges[t], src_node[t], dst_node[t]) : Respond(t, "dijkstra", p, {})
    BY <2>1, FoundIsPath
  <2>2. CASE Respond(t, "none", <<>>, {})
    <3>1. <<>> \in Seq(Nodes) OBVIOUS
    <3>2. "none" \in {"gart_model", "dijkstra", "none"} /\ {} \in SUBSET Threads OBVIOUS
    <3>3. "none" # "gart_model" /\ "none" # "dijkstra" OBVIOUS
    <3> QED BY <2>2, <3>1, <3>2, <3>3, Zenon
  <2> QED BY <1>2, <2>1, <2>2 DEF Dijkstra
<1> QED BY <1>1, <1>2

LEMMA WalkStep == WalkInv /\ [Next]_vars => WalkInv'
<1> SUFFICES ASSUME WalkInv, [Next]_vars PROVE WalkInv'
  OBVIOUS
<1>1. ASSUME NEW t \in Threads, Decide(t) \/ Dijkstra(t) PROVE WalkInv'
  BY <1>1, Responds, RespondWalk
<1>2. CASE UNCHANGED vars
  BY <1>2 DEF WalkInv, WalkClean, TypeOK, vars, request, current
<1> QED
  BY <1>1, <1>2, ReceiveWalk, HopWalk, ArriveWalk, GivenUpWalk DEF Next, Work

\* Until it is given up, a walk of the model is one that its final check
\* accepts, and has met its destination only if it began there.
THEOREM WalkCorrect == Spec => []WalkInv
  BY WalkInit, WalkStep, PTL DEF Spec

-----------------------------------------------------------------------------
(* Responses *)

\* What waits to be responded is a path of the request.
DecideClean ==
    \A t \in Threads : pc[t] = "decide" =>
        Sanitize(path[t], src_node[t], dst_node[t], edges[t])

AnswerInv == DecideClean /\ AnswerValid

LEMMA AnswerStep == WalkInv /\ AnswerInv /\ [Next]_vars => AnswerInv'
<1> SUFFICES ASSUME WalkInv, AnswerInv, [Next]_vars PROVE AnswerInv'
  OBVIOUS
<1>1. ASSUME NEW t \in Threads, Receive(t) \/ Stuck(t) \/ Revisit(t) \/ Hop(t)
      PROVE  AnswerInv'
  <2>1. UNCHANGED answer
    BY <1>1 DEF Receive, Stuck, Revisit, Hop
  <2>2. pc'[t] # "decide"
    BY <1>1 DEF Receive, Stuck, Revisit, Hop, WalkInv, TypeOK
  <2>3. \A u \in Threads \ {t} :
          /\ pc'[u] = pc[u] /\ path'[u] = path[u] /\ edges'[u] = edges[u]
          /\ src_node'[u] = src_node[u] /\ dst_node'[u] = dst_node[u]
    BY <1>1 DEF Receive, Stuck, Revisit, Hop, WalkInv, TypeOK, request
  <2>4. AnswerValid'
    BY <2>1 DEF AnswerInv, AnswerValid
  <2> QED BY <2>2, <2>3, <2>4 DEF AnswerInv, DecideClean
<1>2. ASSUME NEW t \in Threads, Arrive(t) PROVE AnswerInv'
  <2>1. /\ Sanitize(path'[t], src_node'[t], dst_node'[t], edges'[t])
        /\ pc' = [pc EXCEPT ![t] = "decide"]
    BY <1>2, ArriveWalk
  <2>2. \A u \in Threads \ {t} : pc'[u] = pc[u] /\ path'[u] = path[u]
    BY <1>2, <2>1 DEF Arrive, WalkInv, TypeOK
  <2>3. AnswerValid'
    BY <1>2 DEF Arrive, AnswerInv, AnswerValid
  <2> QED BY <1>2, <2>1, <2>2, <2>3 DEF Arrive, AnswerInv, DecideClean, request
<1>3. ASSUME NEW t \in Threads, Decide(t) \/ Dijkstra(t) PROVE AnswerInv'
  <2>1. PICK source \in {"gart_model", "dijkstra", "none"}, p \in Seq(Nodes),
             c \in SUBSET Threads :
               /\ Respond(t, source, p, c)
               /\ source = "gart_model" => pc[t] = "decide" /\ p = path[t]
               /\ source = "dijkstra" => Sanitize(p, src_node[t], dst_node[t], edges[t])
    BY <1>3, Responds
  <2>2. source # "none" => Sanitize(p, src_node[t], dst_node[t], edges[t])
    BY <2>1 DEF AnswerInv, DecideClean
  <2>3. answer' = [answer EXCEPT ![t] =
          [source |-> source, src |-> src_node[t], dst |-> dst_node[t],
           edges |-> edges[t], path |-> p, confidence |-> c]]
    BY <2>1 DEF Respond
  <2>4. ASSUME NEW u \in Threads, answer'[u] # None, answer'[u].source # "none"
        PROVE  Sanitize(answer'[u].path, answer'[u].src, answer'[u].dst, answer'[u].edges)
    <3>1. CASE u = t BY <2>2, <2>3, <2>4, <3>1 DEF WalkInv, TypeOK
    <3>2. CASE u # t BY <2>3, <2>4, <3>2 DEF WalkInv, TypeOK, AnswerInv, AnswerValid
    <3> QED BY <3>1, <3>2
  <2>5. DecideClean'
    BY <2>1 DEF Respond, request, AnswerInv, DecideClean, WalkInv, TypeOK
  <2> QED BY <2>4, <2>5 DEF AnswerInv, AnswerValid
<1>4. CASE UNCHANGED vars
  BY <1>4 DEF AnswerInv, DecideClean, AnswerValid, vars, request
<1> QED BY <1>1, <1>2, <1>3, <1>4 DEF Next, Work

\* A response of the service, by the model or by Dijkstra, holds a simple path
\* between the endpoints of its request, along the edges that were searched.
THEOREM AnswerValidHolds == Spec => []AnswerValid
<1>1. Init => AnswerInv
  BY DEF Init, AnswerInv, DecideClean, AnswerValid
<1>2. AnswerInv => AnswerValid
  BY DEF AnswerInv
<1> QED BY <1>1, <1>2, AnswerStep, WalkCorrect, PTL DEF Spec

\* The nodes of a path between two different nodes have edges, so that where networkx
\* finds nothing, since it does not know a node, there is nothing.
LEMMA FoundAll ==
    ASSUME NEW E, NEW s, NEW d, s # d, Found(E, s, d) = {}
    PROVE  SimplePaths(E, s, d) = {}
<1> SUFFICES ASSUME NEW p \in SimplePaths(E, s, d) PROVE FALSE
  OBVIOUS
<1>1. PICK n \in 1..Cardinality(Nodes) : p \in [1..n -> Nodes] /\ Sanitize(p, s, d, E)
  BY DEF SimplePaths
<1>2. n \in Nat /\ n >= 1 /\ Len(p) = n /\ p[1] = s /\ p[n] = d
  <2>1. Cardinality(Nodes) \in Nat BY FS_CardinalityType, ObservationAssumption
  <2> QED BY <1>1, <2>1 DEF Sanitize, Joins
<1>3. n >= 2
  BY <1>2
<1>4. <<p[1], p[2]>> \in E /\ <<p[n - 1], p[n]>> \in E
  BY <1>1, <1>2, <1>3 DEF Sanitize, Follows
<1>5. p[1] \in Nodes /\ p[n] \in Nodes
  BY <1>1, <1>2
<1>6. s \in endpoints(E) /\ d \in endpoints(E)
  BY <1>2, <1>4, <1>5 DEF endpoints
<1> QED BY <1>6 DEF Found

LEMMA NoneStep == WalkInv /\ NoneOnlyIfUnreachable /\ [Next]_vars => NoneOnlyIfUnreachable'
<1> SUFFICES ASSUME WalkInv, NoneOnlyIfUnreachable, [Next]_vars PROVE NoneOnlyIfUnreachable'
  OBVIOUS
<1>1. ASSUME NEW t \in Threads, Receive(t) \/ Stuck(t) \/ Revisit(t) \/ Hop(t) \/ Arrive(t)
      PROVE  NoneOnlyIfUnreachable'
  <2>1. UNCHANGED answer
    BY <1>1 DEF Receive, Stuck, Revisit, Hop, Arrive
  <2> QED BY <2>1 DEF NoneOnlyIfUnreachable
<1>2. ASSUME NEW t \in Threads, NEW source, NEW p, NEW c, Respond(t, source, p, c),
             source = "none" => Found(edges[t], src_node[t], dst_node[t]) = {}
      PROVE  NoneOnlyIfUnreachable'
  <2> SUFFICES ASSUME NEW u \in Threads, answer'[u] # None, answer'[u].source = "none",
                      answer'[u].src # answer'[u].dst
               PROVE  SimplePaths(answer'[u].edges, answer'[u].src, answer'[u].dst) = {}
    BY DEF NoneOnlyIfUnreachable
  <2>1. answer' = [answer EXCEPT ![t] =
          [source |-> source, src |-> src_node[t], dst |-> dst_node[t],
           edges |-> edges[t], path |-> p, confidence |-> c]]
    BY <1>2 DEF Respond
  <2>2. CASE u = t BY <1>2, <2>1, <2>2, FoundAll DEF WalkInv, TypeOK
  <2>3. CASE u # t BY <2>1, <2>3 DEF WalkInv, TypeOK, NoneOnlyIfUnreachable
  <2> QED BY <2>2, <2>3
<1>3. ASSUME NEW t \in Threads, Decide(t) \/ Dijkstra(t) PROVE NoneOnlyIfUnreachable'
  BY <1>2, <1>3 DEF Decide, Dijkstra
<1>4. CASE UNCHANGED vars
  BY <1>4 DEF NoneOnlyIfUnreachable, vars
<1> QED BY <1>1, <1>3, <1>4 DEF Next, Work

\* Between two different nodes the service responds a path just when there is one: that
\* of the model is never a wrong one, and Dijkstra is asked when there is none.
THEOREM AnswerRightHolds == Spec => []AnswerRight
<1>1. Init => NoneOnlyIfUnreachable
  BY DEF Init, NoneOnlyIfUnreachable
<1>2. AnswerValid /\ NoneOnlyIfUnreachable => AnswerRight
  BY DEF AnswerRight
<1> QED BY <1>1, <1>2, NoneStep, AnswerValidHolds, WalkCorrect, PTL DEF Spec

-----------------------------------------------------------------------------
(* Giving up *)

\* While a walk goes on, the hop limit is not reached: the nodes on it, and the
\* one it goes to, are endpoints of the edges.
LEMMA LimitNotReached ==
    ASSUME WalkInv, NEW t \in Threads, Hop(t)
    PROVE  pc'[t] = "hop"
<1>1. PICK m \in Chosen(t) \ {dst_node[t]} : TRUE
  BY DEF Hop
<1>2. pc[t] = "hop" /\ m \in Mask(t) /\ m \notin SeqSet(path[t]) /\ m \in Nodes
  BY <1>1, ModelStays DEF Hop, Chosen, WalkInv
<1> DEFINE q == Append(path[t], m)
<1>3. q \in Seq(Nodes) /\ Sanitize(q, src_node[t], m, edges[t])
  BY <1>2, WalkExtends DEF WalkInv, WalkClean
<1>4. path[t] \in Seq(Nodes) /\ path[t] # <<>> /\ Len(q) = Len(path[t]) + 1 /\ Len(path[t]) \in Nat \ {0}
  BY <1>2 DEF WalkInv, WalkClean, TypeOK, Sanitize, Joins
<1> HIDE DEF q
<1>5. ASSUME NEW i \in 1..Len(q) PROVE q[i] \in endpoints(edges[t])
  <2>1. CASE i < Len(q)
    <3>1. <<q[i], q[i + 1]>> \in edges[t] BY <1>3, <1>4, <2>1 DEF Sanitize, Follows
    <3>2. q[i] \in Nodes BY <1>3
    <3>3. q[i] \in {<<q[i], q[i + 1]>>[1], <<q[i], q[i + 1]>>[2]} OBVIOUS
    <3> QED BY <3>1, <3>2, <3>3 DEF endpoints
  <2>2. CASE i = Len(q)
    <3>1. <<q[i - 1], q[i]>> \in edges[t] BY <1>3, <1>4, <2>2 DEF Sanitize, Follows
    <3>2. q[i] \in Nodes BY <1>3
    <3>3. q[i] \in {<<q[i - 1], q[i]>>[1], <<q[i - 1], q[i]>>[2]} OBVIOUS
    <3> QED BY <3>1, <3>2, <3>3 DEF endpoints
  <2> QED BY <1>4, <2>1, <2>2
<1>6. q \in Seq(endpoints(edges[t])) /\ IsSimple(q)
  BY <1>3, <1>5 DEF Sanitize
<1>7. IsFiniteSet(endpoints(edges[t]))
  BY FS_Subset DEF endpoints
<1>8. Len(q) <= Cardinality(endpoints(edges[t])) /\ Cardinality(endpoints(edges[t])) \in Nat
  BY <1>6, <1>7, SimpleIsShort, FS_CardinalityType
<1>9. Len(path[t]) < max_hops(edges[t])
  BY <1>4, <1>8 DEF max_hops
<1> QED BY <1>9 DEF Hop, WalkInv, TypeOK

LEMMA GivenUpStep ==
    ASSUME WalkInv, [Next]_vars, NEW t \in Threads,
           pc[t] = "hop", pc'[t] = "dijkstra", src_node[t] # dst_node[t]
    PROVE  \/ current(t) \notin Agents
           \/ Neighbours(edges[t], current(t)) \subseteq SeqSet(path[t])
<1>1. path[t] \in Seq(Nodes) /\ path[t] # <<>> /\ edges[t] \in SUBSET (Nodes \X Nodes)
  BY DEF WalkInv, WalkClean, TypeOK, Sanitize, Joins
<1>2. current(t) \in Nodes
  BY <1>1 DEF current
<1>3. dst_node[t] \notin SeqSet(path[t])
  BY DEF WalkInv, WalkClean
<1>4. CASE Stuck(t)
  BY <1>1, <1>2, <1>4, MaskOf DEF Stuck, Mask
<1>5. CASE Revisit(t)
  BY <1>1, <1>2, <1>3, <1>5, MaskOf DEF Revisit, Mask
<1>6. CASE Hop(t)
  BY <1>6, LimitNotReached
<1>7. CASE Arrive(t)
  BY <1>7, ArriveWalk DEF WalkInv, TypeOK
<1>8. ASSUME NEW u \in Threads, u # t, Receive(u) \/ Work(u) PROVE FALSE
  BY <1>8 DEF Receive, Work, Stuck, Revisit, Hop, Arrive, Decide, Dijkstra, Respond,
              WalkInv, TypeOK
<1>9. ~ UNCHANGED vars
  BY DEF vars
<1>10. ~ (Receive(t) \/ Decide(t) \/ Dijkstra(t))
  BY DEF Receive, Decide, Dijkstra
<1> QED BY <1>4, <1>5, <1>6, <1>7, <1>8, <1>9, <1>10 DEF Next, Work

\* A walk between two nodes is given up only at a node without a model or with
\* no neighbour left: neither the mask built from the local view, nor the hop
\* limit, nor the final check gives it up earlier.
THEOREM GivenUpOnlyWhenStuckHolds == Spec => GivenUpOnlyWhenStuck
<1>1. WalkInv /\ [Next]_vars =>
        [\A t \in Threads :
           pc[t] = "hop" /\ pc'[t] = "dijkstra" /\ src_node[t] # dst_node[t] =>
              \/ current(t) \notin Agents
              \/ Neighbours(edges[t], current(t)) \subseteq SeqSet(path[t])]_vars
  BY GivenUpStep
<1> QED BY <1>1, WalkCorrect, PTL DEF Spec, GivenUpOnlyWhenStuck
=============================================================================
