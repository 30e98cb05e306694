------------------------- MODULE RouteChoice_proofs -------------------------
(***************************************************************************)
(* Proofs about RouteChoice for any threads, requests, links, failures of  *)
(* the service and reports of links: a request gets its own answer, over   *)
(* links that are up, and is not refused for what others do.               *)
(***************************************************************************)
EXTENDS RouteChoice, TLAPS

\* A path the service may return for a request.
Served(q, edges, p) ==
    p \in Paths[q] /\ (p \subseteq edges \/ (edges = {} /\ p \subseteq Static))

\* What a thread holds avoids the links that were down all along, and leaves out
\* none that could be used all along.
Holds(t) ==
    /\ downThroughout[t] \subseteq link_down_set
    /\ upThroughout[t] \subseteq graph \ link_down_set
    /\ topo_edges[t] \cap downThroughout[t] = {}
    /\ \A p \in drl[t] : Served(query[t], topo_edges[t], p)
    /\ pc[t] = "read" => /\ copied[t] \cap downThroughout[t] = {}
                         /\ upThroughout[t] \subseteq copied[t]

InProgress == \A t \in Threads : pc[t] # "idle" => Holds(t)

RInv == TypeOK /\ ConnectionOwned /\ InProgress /\ AnswerSound /\ FallbackUndisturbed

-----------------------------------------------------------------------------
(* Types *)

LEMMA OptionalEmpty == \A S : {} \in Optional(S)
  BY DEF Optional

LEMMA OptionalOne == \A S : \A x \in S : {x} \in Optional(S)
  BY DEF Optional

LEMMA OptionalIn == \A S : \A P \in Optional(S) : \A x \in P : x \in S /\ P = {x}
  BY DEF Optional

LEMMA PathsKnown == \A q \in Queries : \A p \in Paths[q] : p \in AllPaths /\ p \subseteq Links
  BY ConstantsAssumption DEF AllPaths

\* What the service computes is none or one path that it may return.
LEMMA Computed ==
    ASSUME NEW q \in Queries, NEW edges,
           NEW path \in Search([query |-> q, topo_edges |-> edges])
    PROVE  /\ path \in Optional(AllPaths)
           /\ \A p \in path : Served(q, edges, p)
<1> DEFINE used  == IF edges = {} THEN Static ELSE edges
           found == {p \in Paths[q] : p \subseteq used}
<1>1. path \in IF found = {} THEN {{}} ELSE {{p} : p \in found}
  BY DEF Search
<1>2. \A p \in found : p \in AllPaths /\ Served(q, edges, p)
  BY PathsKnown DEF Served
<1> HIDE DEF found
<1>3. path = {} \/ \E p \in found : path = {p}
  BY <1>1
<1> QED BY <1>2, <1>3 DEF Optional

\* The same of the fallback.  Unless the links changed as it read them, it finds a path
\* if there is one over the links it copied.
LEMMA Fallback ==
    ASSUME TypeOK, NEW t \in Threads, NEW path \in Dijkstra(t)
    PROVE  /\ path \in Optional(AllPaths)
           /\ \A p \in path : /\ p \in Paths[query[t]]
                              /\ p \subseteq copied[t] \cup (graph \ link_down_set)
           /\ t \notin torn /\ path = {} =>
                ~ \E p \in Paths[query[t]] : p \subseteq copied[t]
<1> DEFINE read  == IF t \in torn THEN copied[t] \cup (graph \ link_down_set) ELSE copied[t]
           found == {p \in Paths[query[t]] : p \subseteq read}
<1>1. path \in IF found = {} \/ t \in torn THEN {{}} \cup {{p} : p \in found}
               ELSE {{p} : p \in found}
  BY DEF Dijkstra
<1>2. \A p \in found : /\ p \in AllPaths /\ p \in Paths[query[t]]
                       /\ p \subseteq copied[t] \cup (graph \ link_down_set)
  BY PathsKnown DEF TypeOK
<1>3. t \notin torn => \A p \in Paths[query[t]] : p \subseteq copied[t] => p \in found
  OBVIOUS
<1> HIDE DEF found
<1>4. path = {} \/ \E p \in found : path = {p}
  BY <1>1
<1>5. t \notin torn /\ path = {} => found = {}
  BY <1>1
<1> QED BY <1>2, <1>3, <1>4, <1>5 DEF Optional

-----------------------------------------------------------------------------
(* What other threads learn of the links *)

\* A step of those leaves every thread where it is; the history follows it.
LEMMA ToldKeeps ==
    ASSUME RInv, Told,
           graph' \subseteq Links, link_down_set' \subseteq Links, overdue' \subseteq link_down_set'
    PROVE  RInv'
<1>1. /\ torn' = torn \cup {t \in Threads : pc[t] = "read" /\ (graph' # graph \/ link_down_set # {})}
      /\ downThroughout' = [t \in Threads |->
                              IF pc[t] = "idle" THEN downThroughout[t]
                              ELSE downThroughout[t] \cap link_down_set']
      /\ upThroughout' = [t \in Threads |->
                            IF pc[t] = "idle" THEN upThroughout[t]
                            ELSE upThroughout[t] \cap (graph' \ link_down_set')]
      /\ UNCHANGED <<pc, query, topo_edges, path_service_lock, path_service_sock, asked,
                     answered, drl, copied, answer, breaks, requests>>
  BY DEF Told, connVars
<1>2. TypeOK'
  <2>1. torn' \subseteq Threads
    BY <1>1 DEF RInv, TypeOK
  <2>2. downThroughout' \in [Threads -> SUBSET Links] /\ upThroughout' \in [Threads -> SUBSET Links]
    BY <1>1 DEF RInv, TypeOK
  <2> QED BY <1>1, <2>1, <2>2 DEF RInv, TypeOK
<1>3. ConnectionOwned'
  BY <1>1 DEF RInv, ConnectionOwned
<1>4. InProgress'
  BY <1>1 DEF RInv, InProgress, Holds, Served
<1>5. AnswerSound'
  BY <1>1 DEF RInv, AnswerSound
<1>6. FallbackUndisturbed'
  <2>1. \A t \in Threads : pc[t] = "idle" => upThroughout'[t] = upThroughout[t]
    BY <1>1
  <2> QED BY <1>1, <2>1 DEF RInv, FallbackUndisturbed, Reachable
<1> QED BY <1>2, <1>3, <1>4, <1>5, <1>6 DEF RInv

LEMMA LinksKeep ==
    ASSUME RInv,
           \/ \E l \in Links : LinkDown(l) \/ LinkUp(l)
           \/ GraphChanges \/ Age \/ Expire
    PROVE  RInv'
<1>1. Told
  BY DEF LinkDown, LinkUp, GraphChanges, Age, Expire
<1>2. graph \subseteq Links /\ link_down_set \subseteq Links /\ overdue \subseteq link_down_set
  BY DEF RInv, TypeOK
<1>3. CASE \E l \in Links : LinkDown(l)
  <2>1. PICK l \in Links : LinkDown(l)
    BY <1>3
  <2>2. Reverse[l] \in Links
    BY ConstantsAssumption
  <2>3. graph' \subseteq Links /\ link_down_set' \subseteq Links /\ overdue' \subseteq link_down_set'
    BY <1>2, <2>1, <2>2 DEF LinkDown
  <2> QED BY <1>1, <2>3, ToldKeeps
<1>4. CASE \E l \in Links : LinkUp(l)
  <2>1. PICK l \in Links : LinkUp(l)
    BY <1>4
  <2>2. graph' \subseteq Links /\ link_down_set' \subseteq Links /\ overdue' \subseteq link_down_set'
    BY <1>2, <2>1 DEF LinkUp
  <2> QED BY <1>1, <2>2, ToldKeeps
<1>5. CASE GraphChanges
  <2>1. \/ graph' = {} \/ (\E l \in Links : graph' = graph \cup {l})
        \/ (\E l \in Links : graph' = graph \ {l})
    BY <1>5 DEF GraphChanges
  <2>2. graph' \subseteq Links /\ link_down_set' = link_down_set /\ overdue' = overdue
    BY <1>2, <1>5, <2>1 DEF GraphChanges
  <2> QED BY <1>1, <1>2, <2>2, ToldKeeps
<1>6. CASE Age \/ Expire
  <2>1. graph' \subseteq Links /\ link_down_set' \subseteq Links /\ overdue' \subseteq link_down_set'
    BY <1>2, <1>6 DEF Age, Expire
  <2> QED BY <1>1, <2>1, ToldKeeps
<1> QED BY <1>3, <1>4, <1>5, <1>6

-----------------------------------------------------------------------------
(* A client's thread *)

\* A step of one thread that has not answered.
LEMMA OneThread ==
    ASSUME RInv, NEW t \in Threads, TypeOK', ConnectionOwned',
           UNCHANGED linkVars, UNCHANGED answer,
           \A s \in Threads \ {t} :
              /\ pc'[s] = pc[s] /\ query'[s] = query[s] /\ topo_edges'[s] = topo_edges[s]
              /\ drl'[s] = drl[s] /\ copied'[s] = copied[s]
              /\ downThroughout'[s] = downThroughout[s] /\ upThroughout'[s] = upThroughout[s],
           pc'[t] # "idle", Holds(t)'
    PROVE  RInv'
<1>1. InProgress'
  BY DEF RInv, InProgress, Holds, linkVars
<1>2. AnswerSound'
  BY DEF RInv, AnswerSound
<1>3. FallbackUndisturbed'
  BY DEF RInv, FallbackUndisturbed, Reachable
<1> QED BY <1>1, <1>2, <1>3 DEF RInv

\* A thread without the lock does not touch the connection.
LEMMA OwnedKeeps ==
    ASSUME RInv, NEW t \in Threads, pc[t] \notin {"send", "wait"}, pc'[t] \notin {"send", "wait"},
           path_service_lock' = path_service_lock, asked' = asked, answered' = answered,
           \A s \in Threads \ {t} : /\ pc'[s] = pc[s] /\ query'[s] = query[s]
                                    /\ topo_edges'[s] = topo_edges[s]
    PROVE  ConnectionOwned'
<1>1. t \notin path_service_lock /\ path_service_lock \subseteq Threads
  BY OptionalIn DEF RInv, ConnectionOwned, TypeOK
<1>2. \A s \in Threads : s \in path_service_lock' <=> pc'[s] \in {"send", "wait"}
  BY DEF RInv, ConnectionOwned
<1>3. Len(asked') + Len(answered') <= 1
  BY DEF RInv, ConnectionOwned
<1>4. ASSUME NEW n \in 1..Len(asked')
      PROVE  \E s \in path_service_lock' :
               /\ pc'[s] = "wait"
               /\ asked'[n] = [query |-> query'[s], topo_edges |-> topo_edges'[s]]
  <2>1. PICK s \in path_service_lock :
          pc[s] = "wait" /\ asked[n] = [query |-> query[s], topo_edges |-> topo_edges[s]]
    BY <1>4 DEF RInv, ConnectionOwned
  <2> QED BY <1>1, <2>1
<1>5. ASSUME NEW n \in 1..Len(answered')
      PROVE  \E s \in path_service_lock' :
               /\ pc'[s] = "wait"
               /\ answered'[n] \in Search([query |-> query'[s], topo_edges |-> topo_edges'[s]])
  <2>1. PICK s \in path_service_lock :
          pc[s] = "wait" /\ answered[n] \in Search([query |-> query[s], topo_edges |-> topo_edges[s]])
    BY <1>5 DEF RInv, ConnectionOwned
  <2>2. query'[s] = query[s] /\ topo_edges'[s] = topo_edges[s] /\ pc'[s] = "wait"
    BY <1>1, <2>1
  <2> QED BY <2>1, <2>2
<1> QED BY <1>2, <1>3, <1>4, <1>5 DEF ConnectionOwned

LEMMA BeginKeeps ==
    ASSUME RInv, NEW t \in Threads, Begin(t)
    PROVE  RInv'
<1>1. /\ pc[t] = "idle" /\ UNCHANGED <<linkVars, connVars, readVars, answer, events, breaks>>
      /\ topo_edges' = [topo_edges EXCEPT ![t] = graph \ link_down_set]
      /\ drl' = [drl EXCEPT ![t] = {}]
      /\ downThroughout' = [downThroughout EXCEPT ![t] = link_down_set]
      /\ upThroughout' = [upThroughout EXCEPT ![t] = graph \ link_down_set]
  BY DEF Begin, Edges
<1>2. PICK q \in Queries : query' = [query EXCEPT ![t] = q]
  BY DEF Begin
<1>3. PICK here \in {"lock", "choose"} : pc' = [pc EXCEPT ![t] = here]
  BY DEF Begin
<1>4. TypeOK'
  <2>1. query' \in [Threads -> Queries] /\ topo_edges' \in [Threads -> SUBSET Links]
        /\ pc' \in [Threads -> {"idle", "lock", "send", "wait", "choose", "read"}]
    BY <1>1, <1>2, <1>3 DEF RInv, TypeOK
  <2>2. drl' \in [Threads -> Optional(AllPaths)]
    BY <1>1, OptionalEmpty DEF RInv, TypeOK
  <2>3. downThroughout' \in [Threads -> SUBSET Links] /\ upThroughout' \in [Threads -> SUBSET Links]
    BY <1>1 DEF RInv, TypeOK
  <2> QED BY <1>1, <2>1, <2>2, <2>3 DEF RInv, TypeOK, linkVars, connVars, readVars
<1>5. ConnectionOwned'
  <2>1. \A s \in Threads \ {t} : /\ pc'[s] = pc[s] /\ query'[s] = query[s]
                                 /\ topo_edges'[s] = topo_edges[s]
    BY <1>1, <1>2, <1>3 DEF RInv, TypeOK
  <2>2. pc'[t] \notin {"send", "wait"}
    BY <1>3 DEF RInv, TypeOK
  <2> QED BY <1>1, <2>1, <2>2, OwnedKeeps DEF connVars
<1>6. Holds(t)' /\ pc'[t] # "idle"
  BY <1>1, <1>3 DEF RInv, TypeOK, Holds, linkVars
<1> QED BY <1>1, <1>2, <1>3, <1>4, <1>5, <1>6, OneThread DEF RInv, TypeOK, readVars

LEMMA LockKeeps ==
    ASSUME RInv, NEW t \in Threads, Lock(t)
    PROVE  RInv'
<1>1. /\ pc[t] = "lock" /\ path_service_lock = {}
      /\ UNCHANGED <<linkVars, query, topo_edges, asked, answered, drl, readVars, answer, history>>
  BY DEF Lock
<1>2. Len(asked) = 0 /\ Len(answered) = 0
  <2>1. \A n \in 1..Len(asked) : FALSE
    BY <1>1 DEF RInv, ConnectionOwned
  <2>2. \A n \in 1..Len(answered) : FALSE
    BY <1>1 DEF RInv, ConnectionOwned
  <2>3. Len(asked) \in Nat /\ Len(answered) \in Nat
    BY DEF RInv, TypeOK
  <2> QED BY <2>1, <2>2, <2>3
<1>3. CASE path_service_lock' = {t} /\ pc' = [pc EXCEPT ![t] = "send"]
           /\ path_service_sock' \in {"none", "up", "closed"}
  <2>1. TypeOK'
    BY <1>1, <1>3, OptionalOne DEF RInv, TypeOK, linkVars, readVars, history
  <2>2. ConnectionOwned'
    <3>1. \A s \in Threads : s \in path_service_lock' <=> pc'[s] \in {"send", "wait"}
      BY <1>1, <1>3 DEF RInv, TypeOK, ConnectionOwned
    <3>2. Len(asked') = 0 /\ Len(answered') = 0
      BY <1>1, <1>2
    <3>3. \A n : n \notin 1..0
      OBVIOUS
    <3> QED BY <3>1, <3>2, <3>3 DEF ConnectionOwned
  <2>3. Holds(t)' /\ pc'[t] # "idle"
    BY <1>1, <1>3 DEF RInv, TypeOK, InProgress, Holds, linkVars, readVars, history
  <2> QED BY <1>1, <1>3, <2>1, <2>2, <2>3, OneThread DEF RInv, TypeOK, readVars, history
<1>4. CASE UNCHANGED <<path_service_lock, path_service_sock>> /\ pc' = [pc EXCEPT ![t] = "choose"]
  <2>1. TypeOK'
    BY <1>1, <1>4 DEF RInv, TypeOK, linkVars, readVars, history
  <2>2. ConnectionOwned'
    BY <1>1, <1>4, OwnedKeeps DEF RInv, TypeOK
  <2>3. Holds(t)' /\ pc'[t] # "idle"
    BY <1>1, <1>4 DEF RInv, TypeOK, InProgress, Holds, linkVars, readVars, history
  <2> QED BY <1>1, <1>4, <2>1, <2>2, <2>3, OneThread DEF RInv, TypeOK, readVars, history
<1>5. path_service_sock' \in {"none", "up", "closed"}
  BY DEF Lock, RInv, TypeOK
<1> QED BY <1>3, <1>4, <1>5 DEF Lock

\* The thread with the lock is the only one, and what it asks is all that is asked.
LEMMA Owner ==
    ASSUME RInv, NEW t \in Threads, pc[t] \in {"send", "wait"}
    PROVE  /\ path_service_lock = {t}
           /\ \A s \in Threads \ {t} : pc[s] \notin {"send", "wait"}
<1>1. t \in path_service_lock
  BY DEF RInv, ConnectionOwned
<1>2. path_service_lock = {t}
  BY <1>1, OptionalIn DEF RInv, TypeOK
<1> QED BY <1>2 DEF RInv, ConnectionOwned

LEMMA AskKeeps ==
    ASSUME RInv, NEW t \in Threads, Ask(t)
    PROVE  RInv'
<1> DEFINE request == [query |-> query[t], topo_edges |-> topo_edges[t]]
<1>1. /\ pc[t] = "send" /\ pc' = [pc EXCEPT ![t] = "wait"]
      /\ asked' = Append(asked, request)
      /\ UNCHANGED <<linkVars, query, topo_edges, path_service_lock, path_service_sock,
                     answered, drl, readVars, answer, history>>
  BY DEF Ask
<1>2. path_service_lock = {t} /\ \A s \in Threads \ {t} : pc[s] \notin {"send", "wait"}
  BY <1>1, Owner
<1>3. Len(asked) = 0 /\ Len(answered) = 0
  <2>1. \A n \in 1..Len(asked) : FALSE
    BY <1>1, <1>2 DEF RInv, ConnectionOwned
  <2>2. \A n \in 1..Len(answered) : FALSE
    BY <1>1, <1>2 DEF RInv, ConnectionOwned
  <2>3. Len(asked) \in Nat /\ Len(answered) \in Nat
    BY DEF RInv, TypeOK
  <2> QED BY <2>1, <2>2, <2>3
<1>4. request \in [query : Queries, topo_edges : SUBSET Links]
  BY DEF RInv, TypeOK
<1> HIDE DEF request
<1>5. Len(asked') = 1 /\ asked'[1] = request
  BY <1>1, <1>3, <1>4 DEF RInv, TypeOK
<1>6. TypeOK'
  <2>1. asked' \in Seq([query : Queries, topo_edges : SUBSET Links])
    BY <1>1, <1>4 DEF RInv, TypeOK
  <2> QED BY <1>1, <2>1 DEF RInv, TypeOK, linkVars, readVars, history
<1>7. ConnectionOwned'
  <2>1. \A s \in Threads : s \in path_service_lock' <=> pc'[s] \in {"send", "wait"}
    BY <1>1, <1>2 DEF RInv, TypeOK
  <2>2. Len(asked') + Len(answered') <= 1 /\ \A n \in 1..Len(asked') : n = 1
    BY <1>1, <1>3, <1>5
  <2>3. \A n : n \notin 1..Len(answered')
    BY <1>1, <1>3
  <2>4. t \in path_service_lock' /\ pc'[t] = "wait"
        /\ asked'[1] = [query |-> query'[t], topo_edges |-> topo_edges'[t]]
    BY <1>1, <1>2, <1>5 DEF RInv, TypeOK, request
  <2> QED BY <2>1, <2>2, <2>3, <2>4 DEF ConnectionOwned
<1>8. Holds(t)' /\ pc'[t] # "idle"
  BY <1>1 DEF RInv, TypeOK, InProgress, Holds, linkVars, readVars, history
<1> QED BY <1>1, <1>6, <1>7, <1>8, OneThread DEF RInv, TypeOK, readVars, history

\* The answer that is read is to the thread's own request.
LEMMA ReceiveKeeps ==
    ASSUME RInv, NEW t \in Threads, Receive(t)
    PROVE  RInv'
<1> DEFINE path == {p \in Head(answered) : p \subseteq graph}
<1>1. /\ pc[t] = "wait" /\ answered # <<>> /\ answered' = Tail(answered)
      /\ path_service_lock' = {}
      /\ drl' = [drl EXCEPT ![t] = path]
      /\ pc' = [pc EXCEPT ![t] = "choose"]
      /\ UNCHANGED <<linkVars, query, topo_edges, path_service_sock, asked, readVars,
                     answer, history>>
  BY DEF Receive
<1>2. path_service_lock = {t} /\ \A s \in Threads \ {t} : pc[s] \notin {"send", "wait"}
  BY <1>1, Owner
<1>3. /\ Len(answered) \in Nat /\ Len(answered) >= 1 /\ Head(answered) = answered[1]
      /\ Len(asked) \in Nat /\ Len(answered') = Len(answered) - 1
  BY <1>1 DEF RInv, TypeOK
<1>4. Len(asked) = 0 /\ Len(answered') = 0
  BY <1>3 DEF RInv, ConnectionOwned
<1>5. /\ Head(answered) \in Optional(AllPaths)
      /\ \A p \in Head(answered) : Served(query[t], topo_edges[t], p)
  <2>1. 1 \in 1..Len(answered)
    BY <1>3
  <2>2. answered[1] \in Search([query |-> query[t], topo_edges |-> topo_edges[t]])
    BY <1>2, <2>1 DEF RInv, ConnectionOwned
  <2>3. query[t] \in Queries
    BY DEF RInv, TypeOK
  <2> QED BY <1>3, <2>2, <2>3, Computed
<1>6. path \in Optional(AllPaths) /\ \A p \in path : Served(query[t], topo_edges[t], p)
  <2>1. path = {} \/ path = Head(answered)
    BY <1>5, OptionalIn
  <2> QED BY <1>5, <2>1, OptionalEmpty
<1> HIDE DEF path
<1>7. TypeOK'
  <2>1. answered' \in Seq(Optional(AllPaths))
    BY <1>1 DEF RInv, TypeOK
  <2>2. drl' \in [Threads -> Optional(AllPaths)]
    BY <1>1, <1>6 DEF RInv, TypeOK
  <2> QED BY <1>1, <2>1, <2>2, OptionalEmpty DEF RInv, TypeOK, linkVars, readVars, history
<1>8. ConnectionOwned'
  <2>1. \A s \in Threads : s \in path_service_lock' <=> pc'[s] \in {"send", "wait"}
    BY <1>1, <1>2 DEF RInv, TypeOK
  <2>2. Len(asked') = 0 /\ Len(answered') = 0 /\ \A n : n \notin 1..0
    BY <1>1, <1>4
  <2> QED BY <2>1, <2>2 DEF ConnectionOwned
<1>9. Holds(t)' /\ pc'[t] # "idle"
  <2>1. drl'[t] = path
    BY <1>1 DEF RInv, TypeOK
  <2>2. pc'[t] = "choose"
    BY <1>1 DEF RInv, TypeOK
  <2>3. Holds(t)
    BY <1>1 DEF RInv, InProgress
  <2> QED BY <1>1, <1>6, <2>1, <2>2, <2>3 DEF Holds, linkVars, readVars, history
<1> QED BY <1>1, <1>7, <1>8, <1>9, OneThread DEF RInv, TypeOK, readVars, history

LEMMA FailKeeps ==
    ASSUME RInv, NEW t \in Threads, Fail(t)
    PROVE  RInv'
<1>1. /\ pc[t] \in {"send", "wait"}
      /\ path_service_sock' \in {"up", "none"} /\ asked' = <<>> /\ answered' = <<>>
      /\ path_service_lock' = {}
      /\ pc' = [pc EXCEPT ![t] = "choose"]
      /\ UNCHANGED <<linkVars, query, topo_edges, drl, readVars, answer, history>>
  BY DEF Fail, Reconnect, Released
<1>2. path_service_lock = {t} /\ \A s \in Threads \ {t} : pc[s] \notin {"send", "wait"}
  BY <1>1, Owner
<1>3. TypeOK'
  BY <1>1, OptionalEmpty DEF RInv, TypeOK, linkVars, readVars, history
<1>4. ConnectionOwned'
  <2>1. \A s \in Threads : s \in path_service_lock' <=> pc'[s] \in {"send", "wait"}
    BY <1>1, <1>2 DEF RInv, TypeOK
  <2>2. Len(asked') = 0 /\ Len(answered') = 0 /\ \A n : n \notin 1..0
    BY <1>1
  <2> QED BY <2>1, <2>2 DEF ConnectionOwned
<1>5. Holds(t)' /\ pc'[t] # "idle"
  <2>1. pc'[t] = "choose" /\ Holds(t)
    BY <1>1 DEF RInv, TypeOK, InProgress
  <2> QED BY <1>1, <2>1 DEF Holds, linkVars, history
<1> QED BY <1>1, <1>3, <1>4, <1>5, OneThread DEF RInv, TypeOK, readVars, history

LEMMA CopyKeeps ==
    ASSUME RInv, NEW t \in Threads, Copy(t)
    PROVE  RInv'
<1>1. /\ pc[t] = "choose" /\ pc' = [pc EXCEPT ![t] = "read"]
      /\ copied' = [copied EXCEPT ![t] = graph \ link_down_set]
      /\ torn' = torn \ {t}
      /\ UNCHANGED <<linkVars, query, topo_edges, connVars, drl, answer, history>>
  BY DEF Copy
<1>2. TypeOK'
  <2>1. copied' \in [Threads -> SUBSET Links] /\ torn' \subseteq Threads
    BY <1>1 DEF RInv, TypeOK
  <2> QED BY <1>1, <2>1 DEF RInv, TypeOK, linkVars, connVars, history
<1>3. ConnectionOwned'
  BY <1>1, OwnedKeeps DEF RInv, TypeOK, connVars
<1>4. Holds(t)' /\ pc'[t] # "idle"
  <2>1. pc'[t] = "read" /\ copied'[t] = graph \ link_down_set /\ Holds(t)
    BY <1>1 DEF RInv, TypeOK, InProgress
  <2> QED BY <1>1, <2>1 DEF Holds, linkVars, history
<1> QED BY <1>1, <1>2, <1>3, <1>4, OneThread DEF RInv, TypeOK, history

\* The answer is the service's path or the fallback's, as the mode says.
LEMMA ChosenGood ==
    ASSUME RInv, NEW t \in Threads, pc[t] \in {"choose", "read"},
           NEW fallback \in IF pc[t] = "read" THEN Dijkstra(t) ELSE {{}}
    PROVE  /\ Choose(t, fallback) \in Optional(AllPaths)
           /\ \A p \in Choose(t, fallback) :
                /\ p \in Paths[query[t]]
                /\ \/ p \cap downThroughout[t] = {}
                   \/ topo_edges[t] = {} /\ p \subseteq Static
           /\ pc[t] = "read" /\ Mode # "drl" /\ t \notin torn /\ Choose(t, fallback) = {} =>
                ~ \E p \in Paths[query[t]] : p \subseteq upThroughout[t]
<1>1. Holds(t) /\ query[t] \in Queries /\ drl[t] \in Optional(AllPaths)
  BY DEF RInv, InProgress, TypeOK
<1>2. \A p \in drl[t] : /\ p \in Paths[query[t]]
                        /\ \/ p \cap downThroughout[t] = {}
                           \/ topo_edges[t] = {} /\ p \subseteq Static
  BY <1>1 DEF Holds, Served
<1>3. fallback \in Optional(AllPaths)
      /\ \A p \in fallback : p \in Paths[query[t]] /\ p \cap downThroughout[t] = {}
  <2>1. CASE pc[t] = "read"
    <3>1. fallback \in Dijkstra(t) /\ TypeOK
      BY <2>1 DEF RInv
    <3>2. /\ fallback \in Optional(AllPaths)
          /\ \A p \in fallback : /\ p \in Paths[query[t]]
                                 /\ p \subseteq copied[t] \cup (graph \ link_down_set)
      BY <3>1, Fallback
    <3>3. (copied[t] \cup (graph \ link_down_set)) \cap downThroughout[t] = {}
      BY <1>1, <2>1 DEF Holds
    <3> QED BY <3>2, <3>3
  <2>2. CASE pc[t] # "read"
    BY <2>2, OptionalEmpty
  <2> QED BY <2>1, <2>2
<1>4. Choose(t, fallback) \in {drl[t], fallback}
  BY DEF Choose
<1>5. ASSUME pc[t] = "read", Mode # "drl", t \notin torn, Choose(t, fallback) = {}
      PROVE  ~ \E p \in Paths[query[t]] : p \subseteq upThroughout[t]
  <2>1. fallback = {}
    BY <1>5 DEF Choose
  <2>2. ~ \E p \in Paths[query[t]] : p \subseteq copied[t]
    BY <1>5, <2>1, Fallback DEF RInv
  <2> QED BY <1>1, <1>5, <2>2 DEF Holds
<1> QED BY <1>1, <1>2, <1>3, <1>4, <1>5

LEMMA AnswerKeeps ==
    ASSUME RInv, NEW t \in Threads, Answer(t)
    PROVE  RInv'
<1>1. /\ pc[t] \in {"choose", "read"}
      /\ pc[t] = "choose" => drl[t] # {} /\ Mode \notin {"spf", "shadow"}
      /\ pc' = [pc EXCEPT ![t] = "idle"]
      /\ topo_edges' = [topo_edges EXCEPT ![t] = {}]
      /\ drl' = [drl EXCEPT ![t] = {}]
      /\ copied' = [copied EXCEPT ![t] = {}]
      /\ torn' = torn \ {t}
      /\ UNCHANGED <<linkVars, query, connVars, history>>
  BY DEF Answer
<1>2. PICK fallback \in IF pc[t] = "read" THEN Dijkstra(t) ELSE {{}} :
        answer' = [answer EXCEPT ![t] = [query |-> query[t],
                                         path  |-> Choose(t, fallback),
                                         torn  |-> t \in torn,
                                         blind |-> topo_edges[t] = {}]]
  BY DEF Answer
<1> DEFINE path == Choose(t, fallback)
<1>3. /\ path \in Optional(AllPaths)
      /\ \A p \in path : /\ p \in Paths[query[t]]
                         /\ \/ p \cap downThroughout[t] = {}
                            \/ topo_edges[t] = {} /\ p \subseteq Static
      /\ pc[t] = "read" /\ Mode # "drl" /\ t \notin torn /\ path = {} =>
           ~ \E p \in Paths[query[t]] : p \subseteq upThroughout[t]
  BY <1>1, ChosenGood
<1>4. pc[t] = "choose" /\ Mode # "drl" => path # {}
  <2>1. Mode \in {"spf", "shadow", "hybrid", "drl"}
    BY ConstantsAssumption
  <2> QED BY <1>1, <2>1 DEF Choose
<1> HIDE DEF path
<1> DEFINE given == [query |-> query[t], path |-> path, torn |-> t \in torn,
                     blind |-> topo_edges[t] = {}]
<1>5. /\ given \in Answers /\ given.query = query[t] /\ given.path = path
      /\ given.torn = (t \in torn) /\ given.blind = (topo_edges[t] = {})
  BY <1>3 DEF Answers, RInv, TypeOK
<1>6. answer' = [answer EXCEPT ![t] = given]
  BY <1>2 DEF path
<1> HIDE DEF given
<1>7. TypeOK'
  <2>1. answer' \in [Threads -> Answers \cup {None}]
    BY <1>5, <1>6 DEF RInv, TypeOK
  <2>2. drl' \in [Threads -> Optional(AllPaths)]
    BY <1>1, OptionalEmpty DEF RInv, TypeOK
  <2>3. /\ pc' \in [Threads -> {"idle", "lock", "send", "wait", "choose", "read"}]
        /\ topo_edges' \in [Threads -> SUBSET Links]
        /\ copied' \in [Threads -> SUBSET Links] /\ torn' \subseteq Threads
    BY <1>1 DEF RInv, TypeOK
  <2> QED BY <1>1, <2>1, <2>2, <2>3 DEF RInv, TypeOK, linkVars, connVars, history
<1>8. ConnectionOwned'
  BY <1>1, OwnedKeeps DEF RInv, TypeOK, connVars
<1>9. \A s \in Threads \ {t} : /\ pc'[s] = pc[s] /\ topo_edges'[s] = topo_edges[s]
                               /\ drl'[s] = drl[s] /\ copied'[s] = copied[s]
                               /\ answer'[s] = answer[s]
  BY <1>1, <1>6 DEF RInv, TypeOK
<1>10. pc'[t] = "idle" /\ answer'[t] = given
  BY <1>1, <1>6 DEF RInv, TypeOK
<1>11. UNCHANGED <<graph, link_down_set, query, downThroughout, upThroughout>>
  BY <1>1 DEF linkVars, history
<1>12. InProgress'
  BY <1>9, <1>10, <1>11 DEF RInv, InProgress, Holds
<1>13. AnswerSound'
  <2> SUFFICES ASSUME NEW s \in Threads, answer'[s] # None, NEW p \in answer'[s].path
               PROVE  /\ p \in Paths[answer'[s].query]
                      /\ pc'[s] = "idle" => \/ p \cap downThroughout'[s] = {}
                                            \/ answer'[s].blind /\ p \subseteq Static
    BY DEF AnswerSound
  <2>1. CASE s = t
    <3>1. answer'[s].path = path /\ answer'[s].query = query[t]
          /\ answer'[s].blind = (topo_edges[t] = {})
      BY <1>5, <1>10, <2>1
    <3> QED BY <1>3, <1>11, <2>1, <3>1
  <2>2. CASE s # t
    BY <1>9, <1>11, <2>2 DEF RInv, AnswerSound
  <2> QED BY <2>1, <2>2
<1>14. FallbackUndisturbed'
  <2> SUFFICES ASSUME Mode # "drl", NEW s \in Threads, pc'[s] = "idle", answer'[s] # None,
                      ~answer'[s].torn,
                      \E p \in Paths[answer'[s].query] : p \subseteq upThroughout'[s]
               PROVE  answer'[s].path # {}
    BY DEF FallbackUndisturbed, Reachable
  <2>1. CASE s = t
    BY <1>1, <1>3, <1>4, <1>5, <1>10, <1>11, <2>1
  <2>2. CASE s # t
    BY <1>9, <1>11, <2>2 DEF RInv, FallbackUndisturbed, Reachable
  <2> QED BY <2>1, <2>2
<1> QED BY <1>7, <1>8, <1>12, <1>13, <1>14 DEF RInv

LEMMA RefuseKeeps ==
    ASSUME RInv, NEW t \in Threads, Refuse(t)
    PROVE  RInv'
<1>1. /\ pc[t] = "idle"
      /\ downThroughout' = [downThroughout EXCEPT ![t] = link_down_set]
      /\ upThroughout' = [upThroughout EXCEPT ![t] = {}]
      /\ UNCHANGED <<linkVars, pc, query, topo_edges, connVars, drl, readVars>>
  BY DEF Refuse
<1>2. PICK q \in Queries : answer' = [answer EXCEPT ![t] = [query |-> q, path |-> {},
                                                            torn |-> FALSE, blind |-> FALSE]]
  BY DEF Refuse
<1> DEFINE given == [query |-> q, path |-> {}, torn |-> FALSE, blind |-> FALSE]
<1>3. given \in Answers /\ given.path = {} /\ given.query = q
  BY OptionalEmpty DEF Answers
<1>4. answer' = [answer EXCEPT ![t] = given]
  BY <1>2
<1> HIDE DEF given
<1>5. /\ answer'[t] = given /\ upThroughout'[t] = {}
      /\ \A s \in Threads \ {t} : /\ answer'[s] = answer[s]
                                  /\ downThroughout'[s] = downThroughout[s]
                                  /\ upThroughout'[s] = upThroughout[s]
  BY <1>1, <1>4 DEF RInv, TypeOK
<1>6. TypeOK'
  <2>1. answer' \in [Threads -> Answers \cup {None}]
    BY <1>3, <1>4 DEF RInv, TypeOK
  <2>2. downThroughout' \in [Threads -> SUBSET Links] /\ upThroughout' \in [Threads -> SUBSET Links]
    BY <1>1 DEF RInv, TypeOK
  <2> QED BY <1>1, <2>1, <2>2 DEF RInv, TypeOK, linkVars, connVars, readVars
<1>7. ConnectionOwned'
  BY <1>1, OwnedKeeps DEF RInv, TypeOK, connVars
<1>8. InProgress'
  BY <1>1, <1>5 DEF RInv, InProgress, Holds, linkVars, readVars
<1>9. AnswerSound'
  BY <1>1, <1>3, <1>5 DEF RInv, AnswerSound
<1>10. FallbackUndisturbed'
  <2>1. ~ \E p \in Paths[q] : p \subseteq {}
    BY ConstantsAssumption
  <2> QED BY <1>1, <1>3, <1>5, <2>1 DEF RInv, FallbackUndisturbed, Reachable
<1> QED BY <1>6, <1>7, <1>8, <1>9, <1>10 DEF RInv

-----------------------------------------------------------------------------
(* The path service *)

\* A step of the service changes what is on the connection, and nothing else.
LEMMA ServiceStep ==
    ASSUME RInv, TypeOK', ConnectionOwned',
           UNCHANGED <<linkVars, pc, query, topo_edges, drl, readVars, answer, history>>
    PROVE  RInv'
<1>1. InProgress' /\ AnswerSound'
  BY DEF RInv, InProgress, Holds, AnswerSound, linkVars, readVars, history
<1>2. FallbackUndisturbed'
  BY DEF RInv, FallbackUndisturbed, Reachable, history
<1> QED BY <1>1, <1>2 DEF RInv

LEMMA ComputeKeeps == RInv /\ Compute => RInv'
<1> SUFFICES ASSUME RInv, Compute PROVE RInv'
  OBVIOUS
<1>1. /\ asked # <<>> /\ asked' = Tail(asked)
      /\ UNCHANGED <<linkVars, pc, query, topo_edges, path_service_lock,
                     path_service_sock, drl, readVars, answer, history>>
  BY DEF Compute
<1>2. PICK path \in Search(Head(asked)) : answered' = Append(answered, path)
  BY DEF Compute
<1>3. /\ Len(asked) \in Nat /\ Len(answered) \in Nat /\ Len(asked) >= 1
      /\ Head(asked) = asked[1] /\ Len(asked') = Len(asked) - 1
  BY <1>1 DEF RInv, TypeOK
<1>4. Len(asked') = 0 /\ Len(answered) = 0
  BY <1>3 DEF RInv, ConnectionOwned
<1>5. PICK t \in path_service_lock :
        pc[t] = "wait" /\ asked[1] = [query |-> query[t], topo_edges |-> topo_edges[t]]
  <2>1. 1 \in 1..Len(asked)
    BY <1>3
  <2> QED BY <2>1 DEF RInv, ConnectionOwned
<1>6. t \in Threads /\ query[t] \in Queries
  BY OptionalIn DEF RInv, TypeOK
<1>7. path \in Search([query |-> query[t], topo_edges |-> topo_edges[t]])
  BY <1>2, <1>3, <1>5
<1>8. path \in Optional(AllPaths)
  BY <1>6, <1>7, Computed
<1>9. Len(answered') = 1 /\ answered'[1] = path
  BY <1>2, <1>4, <1>8 DEF RInv, TypeOK
<1>10. TypeOK'
  <2>1. asked' \in Seq([query : Queries, topo_edges : SUBSET Links])
    BY <1>1 DEF RInv, TypeOK
  <2>2. answered' \in Seq(Optional(AllPaths))
    BY <1>2, <1>8 DEF RInv, TypeOK
  <2> QED BY <1>1, <2>1, <2>2 DEF RInv, TypeOK, linkVars, readVars, history
<1>11. ConnectionOwned'
  <2>1. \A s \in Threads : s \in path_service_lock' <=> pc'[s] \in {"send", "wait"}
    BY <1>1 DEF RInv, ConnectionOwned
  <2>2. /\ Len(asked') + Len(answered') <= 1
        /\ \A n : n \notin 1..Len(asked')
        /\ \A n \in 1..Len(answered') : n = 1
    BY <1>4, <1>9
  <2>3. /\ t \in path_service_lock' /\ pc'[t] = "wait"
        /\ answered'[1] \in Search([query |-> query'[t], topo_edges |-> topo_edges'[t]])
    BY <1>1, <1>5, <1>7, <1>9
  <2> QED BY <2>1, <2>2, <2>3 DEF ConnectionOwned
<1> QED BY <1>1, <1>10, <1>11, ServiceStep

LEMMA BreakKeeps == RInv /\ Break => RInv'
<1> SUFFICES ASSUME RInv, Break PROVE RInv'
  OBVIOUS
<1>1. /\ path_service_sock' = "closed" /\ asked' = <<>>
      /\ UNCHANGED <<linkVars, pc, query, topo_edges, path_service_lock, answered, drl,
                     readVars, answer, history>>
  BY DEF Break
<1>2. TypeOK'
  BY <1>1 DEF RInv, TypeOK, linkVars, readVars, history
<1>3. ConnectionOwned'
  <2>1. /\ \A s \in Threads : s \in path_service_lock' <=> pc'[s] \in {"send", "wait"}
        /\ \A n \in 1..Len(answered') : \E t \in path_service_lock' :
             /\ pc'[t] = "wait"
             /\ answered'[n] \in Search([query |-> query'[t], topo_edges |-> topo_edges'[t]])
    BY <1>1 DEF RInv, ConnectionOwned
  <2>2. Len(asked') + Len(answered') <= 1 /\ \A n : n \notin 1..Len(asked')
    <3>1. Len(asked') = 0 /\ Len(asked) \in Nat /\ Len(answered) \in Nat
      BY <1>1 DEF RInv, TypeOK
    <3> QED BY <1>1, <3>1 DEF RInv, ConnectionOwned
  <2> QED BY <2>1, <2>2 DEF ConnectionOwned
<1> QED BY <1>1, <1>2, <1>3, ServiceStep

-----------------------------------------------------------------------------
LEMMA RouteInit == Init => RInv
<1> SUFFICES ASSUME Init PROVE RInv
  OBVIOUS
<1>1. (CHOOSE q \in Queries : TRUE) \in Queries
  BY ConstantsAssumption
<1>2. query \in [Threads -> Queries]
  BY <1>1 DEF Init
<1>3. TypeOK
  BY <1>2, OptionalEmpty DEF Init, TypeOK
<1>4. ConnectionOwned
  <2>1. Len(asked) = 0 /\ Len(answered) = 0 /\ \A n : n \notin 1..0
    BY DEF Init
  <2> QED BY <2>1 DEF Init, ConnectionOwned
<1>5. InProgress /\ AnswerSound /\ FallbackUndisturbed
  BY DEF Init, InProgress, AnswerSound, FallbackUndisturbed
<1> QED BY <1>3, <1>4, <1>5 DEF RInv

LEMMA RouteStep == RInv /\ [Next]_vars => RInv'
<1> SUFFICES ASSUME RInv, [Next]_vars PROVE RInv'
  OBVIOUS
<1>1. CASE UNCHANGED vars
  <2>1. UNCHANGED <<linkVars, pc, query, topo_edges, path_service_lock, path_service_sock,
                    asked, answered, drl, readVars, answer, history>>
    BY <1>1 DEF vars, connVars
  <2>2. TypeOK'
    BY <2>1 DEF RInv, TypeOK, linkVars, readVars, history
  <2>3. ConnectionOwned'
    BY <2>1 DEF RInv, ConnectionOwned
  <2> QED BY <2>1, <2>2, <2>3, ServiceStep
<1>2. ASSUME NEW t \in Threads, Work(t) PROVE RInv'
  BY <1>2, LockKeeps, AskKeeps, ReceiveKeeps, FailKeeps, CopyKeeps, AnswerKeeps DEF Work
<1> QED BY <1>1, <1>2, LinksKeep, RefuseKeeps, BeginKeeps, ComputeKeeps, BreakKeeps DEF Next

-----------------------------------------------------------------------------
\* ServiceInv: over any number of requests, timeouts and broken connections, what a
\* thread reads from the connection is the answer to its own request.
THEOREM ServiceInvHolds == Spec => []ServiceInv
<1>1. RInv => ServiceInv
  BY DEF RInv, ServiceInv
<1> QED BY <1>1, RouteInit, RouteStep, PTL DEF Spec

\* AnswerSound: no answer uses a link that was held to be down from when its request
\* was taken up, however the service's answer, the reports of links and the rebuilds
\* of the graph interleave, but for a request that found no link up.
THEOREM AnswerSoundHolds == Spec => []AnswerSound
<1>1. RInv => AnswerSound
  BY DEF RInv
<1> QED BY <1>1, RouteInit, RouteStep, PTL DEF Spec

\* FallbackUndisturbed: in every mode with a fallback a request gets a path whenever
\* one could be used all along, if nothing changed while the fallback computed.
THEOREM FallbackUndisturbedHolds == Spec => []FallbackUndisturbed
<1>1. RInv => FallbackUndisturbed
  BY DEF RInv
<1> QED BY <1>1, RouteInit, RouteStep, PTL DEF Spec
=============================================================================
