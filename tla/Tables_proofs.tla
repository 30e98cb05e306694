---------------------------- MODULE Tables_proofs ----------------------------
(***************************************************************************)
(* Proofs about what a controller knows: of the flows in a switch, whose   *)
(* statistics the server's table follows (FlowTables, for any keys, web    *)
(* threads, queues and faults), and of links and hosts (HostTable, for all *)
(* switches, ports, hosts, external ports, virtual switches and any number *)
(* of connections).                                                        *)
(***************************************************************************)
EXTENDS FlowTables, HostTable, SequenceTheorems, TLAPS

(***************************************************************************)
(* Flow tables and manual flows (FlowTables)                               *)
(***************************************************************************)
(* Messages and sequences of them *)

Way  == toSwitch \o toController
Msgs == Mods \cup {Poll}

HasDelete(s, k) == \E n \in 1..Len(s) : s[n] = Delete(k)

\* Every addition of k has a deletion behind it.
AddsUndone(s, k) ==
    \A n \in 1..Len(s) : s[n] = Add(k) => \E m \in n+1..Len(s) : s[m] = Delete(k)

LEMMA Distinct ==
    /\ \A k, j : (Add(k) = Add(j) => k = j) /\ (Delete(k) = Delete(j) => k = j)
    /\ \A k, j : Add(k) # Delete(j) /\ Add(k) # Poll /\ Delete(k) # Poll
    /\ \A k : Add(k).op = "add" /\ Add(k).key = k /\ Delete(k).op = "delete" /\ Delete(k).key = k
<1>1. \A k : Add(k).op = "add" /\ Add(k).key = k /\ Delete(k).op = "delete" /\ Delete(k).key = k
  BY DEF Add, Delete
<1>2. Poll.op = "poll"
  BY DEF Poll
<1> QED BY <1>1, <1>2

LEMMA ModsAre ==
    /\ \A k \in Keys : Add(k) \in Mods /\ Delete(k) \in Mods
    /\ \A m \in Mods : m.key \in Keys /\ (m = Add(m.key) \/ m = Delete(m.key))
    /\ \A k \in Keys : [op |-> "add", key |-> k] = Add(k) /\ [op |-> "delete", key |-> k] = Delete(k)
<1>1. \A k \in Keys : Add(k) \in Mods /\ Delete(k) \in Mods
  BY DEF Mods
<1>2. ASSUME NEW m \in Mods PROVE m.key \in Keys /\ (m = Add(m.key) \/ m = Delete(m.key))
  <2>1. (\E k \in Keys : m = Add(k)) \/ (\E k \in Keys : m = Delete(k))
    BY DEF Mods
  <2> QED BY <2>1, Distinct
<1>3. \A k \in Keys : [op |-> "add", key |-> k] = Add(k) /\ [op |-> "delete", key |-> k] = Delete(k)
  BY DEF Add, Delete
<1> QED BY <1>1, <1>2, <1>3

\* The first message is taken.
LEMMA TakeFirst ==
    ASSUME NEW s \in Seq(Msgs), s # <<>>, NEW k, AddsUndone(s, k)
    PROVE  /\ AddsUndone(Tail(s), k)
           /\ HasDelete(s, k) /\ Head(s) # Delete(k) => HasDelete(Tail(s), k)
           /\ Head(s) = Add(k) => HasDelete(Tail(s), k)
<1> DEFINE r == Tail(s)
<1>1. /\ Len(s) \in Nat \ {0} /\ Len(r) = Len(s) - 1 /\ Head(s) = s[1]
      /\ \A i \in 1..Len(r) : r[i] = s[i + 1]
  BY HeadTailProperties, EmptySeq
<1> HIDE DEF r
<1>2. \A i \in 2..Len(s) : i - 1 \in 1..Len(r) /\ r[i - 1] = s[i]
  <2> TAKE i \in 2..Len(s)
  <2>1. i - 1 \in 1..Len(r) /\ (i - 1) + 1 = i
    BY <1>1
  <2> QED BY <1>1, <2>1
<1>3. AddsUndone(r, k)
  <2> SUFFICES ASSUME NEW n \in 1..Len(r), r[n] = Add(k)
               PROVE  \E m \in n+1..Len(r) : r[m] = Delete(k)
    BY DEF AddsUndone
  <2>1. n + 1 \in 1..Len(s) /\ s[n + 1] = Add(k)
    BY <1>1
  <2>2. PICK m \in n+2..Len(s) : s[m] = Delete(k)
    <3>1. \E m \in (n+1)+1..Len(s) : s[m] = Delete(k)
      BY <2>1 DEF AddsUndone
    <3> QED BY <3>1
  <2>3. m - 1 \in n+1..Len(r) /\ r[m - 1] = Delete(k)
    BY <1>1, <1>2, <2>2
  <2> QED BY <2>3
<1>4. HasDelete(s, k) /\ Head(s) # Delete(k) => HasDelete(r, k)
  <2> SUFFICES ASSUME NEW n \in 1..Len(s), s[n] = Delete(k), s[1] # Delete(k) PROVE HasDelete(r, k)
    BY <1>1 DEF HasDelete
  <2>1. n \in 2..Len(s)
    BY <1>1
  <2> QED BY <1>2, <2>1 DEF HasDelete
<1>5. Head(s) = Add(k) => HasDelete(r, k)
  <2> SUFFICES ASSUME s[1] = Add(k) PROVE HasDelete(r, k)
    BY <1>1
  <2>1. 1 \in 1..Len(s)
    BY <1>1
  <2>2. PICK m \in 1+1..Len(s) : s[m] = Delete(k)
    BY <2>1 DEF AddsUndone
  <2>3. m \in 2..Len(s)
    BY <2>2
  <2> QED BY <1>2, <2>2, <2>3 DEF HasDelete
<1> QED BY <1>3, <1>4, <1>5 DEF r

\* A message is put in between that does not add k.
LEMMA PutBetween ==
    ASSUME NEW a \in Seq(Msgs), NEW b \in Seq(Msgs), NEW x \in Msgs, NEW k, x # Add(k)
    PROVE  /\ AddsUndone(a \o b, k) => AddsUndone(Append(a, x) \o b, k)
           /\ HasDelete(a \o b, k) => HasDelete(Append(a, x) \o b, k)
<1> DEFINE s == a \o b
           t == Append(a, x) \o b
           to(i) == IF i <= Len(a) THEN i ELSE i + 1
<1>1. /\ Len(a) \in Nat /\ Len(b) \in Nat /\ Len(s) = Len(a) + Len(b) /\ Len(t) = Len(s) + 1
      /\ \A i \in 1..Len(s) : s[i] = IF i <= Len(a) THEN a[i] ELSE b[i - Len(a)]
      /\ \A i \in 1..Len(t) : t[i] = IF i <= Len(a) THEN a[i]
                                     ELSE IF i = Len(a) + 1 THEN x ELSE b[i - (Len(a) + 1)]
  <2> DEFINE c == Append(a, x)
  <2>1. /\ c \in Seq(Msgs) /\ Len(c) = Len(a) + 1 /\ c[Len(a) + 1] = x
        /\ \A i \in 1..Len(a) : c[i] = a[i]
    BY AppendProperties
  <2> HIDE DEF c
  <2>2. /\ Len(c \o b) = Len(c) + Len(b)
        /\ \A i \in 1..Len(c) + Len(b) : (c \o b)[i] = IF i <= Len(c) THEN c[i] ELSE b[i - Len(c)]
    BY <2>1, ConcatProperties
  <2>3. /\ Len(a) \in Nat /\ Len(b) \in Nat /\ Len(s) = Len(a) + Len(b)
        /\ \A i \in 1..Len(s) : s[i] = IF i <= Len(a) THEN a[i] ELSE b[i - Len(a)]
    BY ConcatProperties
  <2>4. \A i \in 1..Len(c) + Len(b) : (c \o b)[i] = IF i <= Len(a) THEN a[i]
                                     ELSE IF i = Len(a) + 1 THEN x ELSE b[i - (Len(a) + 1)]
    BY <2>1, <2>2, <2>3
  <2> QED BY <2>1, <2>2, <2>3, <2>4 DEF c
<1> HIDE DEF s, t
<1>2. \A i \in 1..Len(s) : to(i) \in 1..Len(t) /\ t[to(i)] = s[i]
  BY <1>1
<1>3. \A i \in 1..Len(t) : i = Len(a) + 1 \/ \E j \in 1..Len(s) : i = to(j)
  <2> TAKE i \in 1..Len(t)
  <2>1. CASE i <= Len(a)
    BY <1>1, <2>1
  <2>2. CASE i > Len(a) + 1
    <3>1. i - 1 \in 1..Len(s) /\ i = to(i - 1)
      BY <1>1, <2>2
    <3> QED BY <3>1
  <2> QED BY <1>1, <2>1, <2>2
<1>4. t[Len(a) + 1] = x
  BY <1>1
<1>5. ASSUME AddsUndone(s, k) PROVE AddsUndone(t, k)
  <2> SUFFICES ASSUME NEW n \in 1..Len(t), t[n] = Add(k)
               PROVE  \E m \in n+1..Len(t) : t[m] = Delete(k)
    BY DEF AddsUndone
  <2>1. PICK j \in 1..Len(s) : n = to(j)
    BY <1>3, <1>4
  <2>2. PICK m \in j+1..Len(s) : s[m] = Delete(k)
    BY <1>2, <1>5, <2>1 DEF AddsUndone
  <2>3. to(m) \in n+1..Len(t) /\ t[to(m)] = Delete(k)
    BY <1>1, <1>2, <2>1, <2>2
  <2> QED BY <2>3
<1>6. HasDelete(s, k) => HasDelete(t, k)
  BY <1>2 DEF HasDelete
<1> QED BY <1>5, <1>6 DEF s, t

\* A message is put at the end that does not add k.
LEMMA PutLast ==
    ASSUME NEW s \in Seq(Msgs), NEW x \in Msgs, NEW k, x # Add(k)
    PROVE  /\ AddsUndone(s, k) => AddsUndone(Append(s, x), k)
           /\ HasDelete(s, k) => HasDelete(Append(s, x), k)
           /\ x = Delete(k) => AddsUndone(Append(s, x), k) /\ HasDelete(Append(s, x), k)
<1> DEFINE t == Append(s, x)
<1>1. /\ Len(s) \in Nat /\ Len(t) = Len(s) + 1 /\ t[Len(s) + 1] = x
      /\ \A i \in 1..Len(s) : t[i] = s[i]
  BY AppendProperties
<1> HIDE DEF t
<1>2. ASSUME AddsUndone(s, k) PROVE AddsUndone(t, k)
  <2> SUFFICES ASSUME NEW n \in 1..Len(t), t[n] = Add(k)
               PROVE  \E m \in n+1..Len(t) : t[m] = Delete(k)
    BY DEF AddsUndone
  <2>1. n \in 1..Len(s) /\ s[n] = Add(k)
    BY <1>1
  <2>2. PICK m \in n+1..Len(s) : s[m] = Delete(k)
    BY <1>2, <2>1 DEF AddsUndone
  <2> QED BY <1>1, <2>1, <2>2
<1>3. HasDelete(s, k) => HasDelete(t, k)
  BY <1>1 DEF HasDelete
<1>4. ASSUME x = Delete(k) PROVE AddsUndone(t, k) /\ HasDelete(t, k)
  <2>1. Len(s) + 1 \in 1..Len(t) /\ t[Len(s) + 1] = Delete(k)
    BY <1>1, <1>4
  <2>2. \A n \in 1..Len(t) : t[n] = Add(k) => Len(s) + 1 \in n+1..Len(t)
    BY <1>1
  <2> QED BY <2>1, <2>2 DEF AddsUndone, HasDelete
<1> QED BY <1>2, <1>3, <1>4 DEF t

\* What the two queues hold after a message is moved, taken or added.
LEMMA WayMoves ==
    ASSUME NEW a \in Seq(Msgs), NEW b \in Seq(Msgs)
    PROVE  /\ a \o b \in Seq(Msgs)
           /\ \A x \in Msgs : a \o Append(b, x) = Append(a \o b, x)
           /\ b # <<>> => (a \o <<Head(b)>>) \o Tail(b) = a \o b
           /\ a # <<>> => /\ Tail(a) \o b = Tail(a \o b)
                          /\ a \o b # <<>> /\ Head(a \o b) = Head(a)
<1>1. a \o b \in Seq(Msgs)
  BY ConcatProperties
<1>2. ASSUME NEW x \in Msgs PROVE a \o Append(b, x) = Append(a \o b, x)
  <2>1. Append(b, x) = b \o <<x>> /\ Append(a \o b, x) = (a \o b) \o <<x>> /\ <<x>> \in Seq(Msgs)
    BY <1>1, AppendIsConcat
  <2> QED BY <2>1, ConcatAssociative
<1>3. ASSUME b # <<>> PROVE (a \o <<Head(b)>>) \o Tail(b) = a \o b
  <2>1. Head(b) \in Msgs /\ Tail(b) \in Seq(Msgs) /\ <<Head(b)>> \in Seq(Msgs)
    BY <1>3, HeadTailProperties
  <2>2. <<Head(b)>> \o Tail(b) = b
    <3> DEFINE h == <<Head(b)>> \o Tail(b)
    <3>1. /\ h \in Seq(Msgs) /\ Len(h) = 1 + Len(Tail(b))
          /\ \A i \in 1..1 + Len(Tail(b)) : h[i] = IF i <= 1 THEN Head(b) ELSE Tail(b)[i - 1]
      <4>1. Len(<<Head(b)>>) = 1 /\ \A i : i \in 1..1 => <<Head(b)>>[i] = Head(b)
        OBVIOUS
      <4> HIDE DEF h
      <4>2. /\ h \in Seq(Msgs) /\ Len(h) = Len(<<Head(b)>>) + Len(Tail(b))
            /\ \A i \in 1..Len(<<Head(b)>>) + Len(Tail(b)) :
                 h[i] = IF i <= Len(<<Head(b)>>) THEN <<Head(b)>>[i] ELSE Tail(b)[i - Len(<<Head(b)>>)]
        BY <2>1, ConcatProperties DEF h
      <4> QED BY <4>1, <4>2
    <3> HIDE DEF h
    <3>2. /\ Len(Tail(b)) = Len(b) - 1 /\ Len(b) \in Nat \ {0} /\ Head(b) = b[1]
          /\ \A i \in 1..Len(Tail(b)) : Tail(b)[i] = b[i + 1]
      BY <1>3, HeadTailProperties, EmptySeq
    <3>3. Len(h) = Len(b) /\ \A i \in 1..Len(h) : h[i] = b[i]
      <4>1. Len(h) = Len(b)
        BY <3>1, <3>2
      <4> SUFFICES ASSUME NEW i \in 1..Len(b) PROVE h[i] = b[i]
        BY <4>1
      <4>2. CASE i = 1
        BY <3>1, <3>2, <4>2
      <4>3. CASE i > 1
        <5>1. i - 1 \in 1..Len(Tail(b)) /\ (i - 1) + 1 = i
          BY <3>2, <4>3
        <5> QED BY <3>1, <3>2, <4>3, <5>1
      <4> QED BY <4>2, <4>3
    <3> QED BY <3>1, <3>3, SeqEqual DEF h
  <2> QED BY <2>1, <2>2, ConcatAssociative
<1>4. ASSUME a # <<>> PROVE /\ Tail(a) \o b = Tail(a \o b)
                            /\ a \o b # <<>> /\ Head(a \o b) = Head(a)
  <2> DEFINE s == a \o b
  <2>1. /\ s \in Seq(Msgs) /\ Len(s) = Len(a) + Len(b) /\ Len(a) \in Nat \ {0} /\ Len(b) \in Nat
        /\ \A i \in 1..Len(s) : s[i] = IF i <= Len(a) THEN a[i] ELSE b[i - Len(a)]
    BY <1>4, ConcatProperties, EmptySeq
  <2> HIDE DEF s
  <2>2. s # <<>> /\ Head(s) = s[1] /\ Head(a) = a[1] /\ s[1] = a[1]
    BY <2>1
  <2>3. /\ Tail(s) \in Seq(Msgs) /\ Len(Tail(s)) = Len(s) - 1
        /\ \A i \in 1..Len(Tail(s)) : Tail(s)[i] = s[i + 1]
    BY <2>1, <2>2, HeadTailProperties
  <2> DEFINE q == Tail(a)
  <2>4. /\ q \in Seq(Msgs) /\ Len(q) = Len(a) - 1
        /\ \A i \in 1..Len(q) : q[i] = a[i + 1]
    BY <1>4, HeadTailProperties
  <2> HIDE DEF q
  <2> DEFINE r == q \o b
  <2>5. /\ r \in Seq(Msgs) /\ Len(r) = Len(q) + Len(b)
        /\ \A i \in 1..Len(r) : r[i] = IF i <= Len(q) THEN q[i] ELSE b[i - Len(q)]
    <3>1. /\ q \o b \in Seq(Msgs) /\ Len(q \o b) = Len(q) + Len(b)
          /\ \A i \in 1..Len(q) + Len(b) : (q \o b)[i] = IF i <= Len(q) THEN q[i] ELSE b[i - Len(q)]
      BY <2>4, ConcatProperties
    <3> QED BY <3>1
  <2> HIDE DEF r
  <2>6. Len(r) = Len(Tail(s))
    BY <2>1, <2>3, <2>4, <2>5
  <2>7. ASSUME NEW i \in 1..Len(r) PROVE r[i] = Tail(s)[i]
    <3>1. i + 1 \in 1..Len(s) /\ Tail(s)[i] = s[i + 1]
      BY <2>1, <2>3, <2>6
    <3>2. CASE i <= Len(q)
      BY <2>1, <2>4, <2>5, <3>1, <3>2
    <3>3. CASE i > Len(q)
      <4>1. i - Len(q) = (i + 1) - Len(a) /\ ~ (i + 1 <= Len(a))
        BY <2>1, <2>4, <3>3
      <4>2. r[i] = b[i - Len(q)]
        <5>1. ~ (i <= Len(q))
          BY <2>1, <2>4, <2>5, <3>3
        <5> QED BY <2>5, <5>1, Zenon
      <4>3. s[i + 1] = b[(i + 1) - Len(a)]
        BY <2>1, <3>1, <4>1
      <4>4. b[i - Len(q)] = b[(i + 1) - Len(a)]
        BY <4>1, Zenon
      <4>5. Tail(s)[i] = b[(i + 1) - Len(a)]
        BY <3>1, <4>3, Zenon
      <4> QED BY <4>2, <4>4, <4>5, Zenon
    <3> QED BY <2>1, <2>4, <2>5, <3>2, <3>3
  <2>8. r = Tail(s)
    BY <2>3, <2>5, <2>6, <2>7, SeqEqual
  <2> QED BY <2>2, <2>8 DEF r, s, q
<1> QED BY <1>1, <1>2, <1>3, <1>4

-----------------------------------------------------------------------------
(* The invariant *)

\* A thread's job is one of its own kind.
JobsRight ==
    \A t \in Threads :
        /\ pc[t] # "idle" => job[t] \in Jobs
        /\ pc[t] # "idle" /\ t \in Web => job[t].op \in {"add", "delete"}
        /\ t = Client => pc[t] # "send"

\* Nothing is under way to a switch that has left, or from it.
Away == ~joined => toSwitch = <<>> /\ reports = <<>> /\ ~polled

\* DeletionStands of one key, and no thread is about to add it.
Stands(k) ==
    /\ AddedBy(k) = {}
    /\ AddsUndone(Way, k)
    /\ k \in flow_table => HasDelete(Way, k)

Standing == \A k \in deleted : Stands(k)

IInv == TypeOK /\ breaks \in Nat /\ JobsRight /\ Away /\ StatsFresh /\ ReportsFresh /\ Standing

LEMMA WayTyped == TypeOK => toSwitch \in Seq(Msgs) /\ toController \in Seq(Msgs) /\ Way \in Seq(Msgs)
<1> SUFFICES ASSUME TypeOK PROVE toSwitch \in Seq(Msgs) /\ toController \in Seq(Msgs) /\ Way \in Seq(Msgs)
  OBVIOUS
<1>1. toSwitch \in Seq(Msgs) /\ toController \in Seq(Mods) /\ Mods \subseteq Msgs
  BY DEF TypeOK, Msgs
<1>2. toController \in Seq(Msgs)
  BY <1>1
<1> QED BY <1>1, <1>2, WayMoves DEF Way

\* With the same messages under way, no flow more and no new addition, the deletions stand.
LEMMA StandingKeeps ==
    ASSUME IInv, UNCHANGED <<toSwitch, toController>>,
           flow_table' \subseteq flow_table, deleted' \subseteq deleted,
           \A k \in deleted' : AddedBy(k)' \subseteq AddedBy(k)
    PROVE  Standing'
<1> SUFFICES ASSUME NEW k \in deleted' PROVE Stands(k)'
  BY DEF Standing
<1>1. Way' = Way /\ AddedBy(k)' = {} /\ Stands(k)
  BY DEF Way, IInv, Standing, Stands
<1>2. AddsUndone(Way', k) /\ (k \in flow_table' => HasDelete(Way', k))
  BY <1>1 DEF Stands
<1> QED BY <1>1, <1>2 DEF Stands

\* The same flows and statistics, and reports, leave them fresh.
LEMMA FreshKeeps ==
    ASSUME IInv, UNCHANGED <<polled, switch_flow_stats, reports>>, flow_table \subseteq flow_table'
    PROVE  StatsFresh' /\ ReportsFresh'
  BY DEF IInv, StatsFresh, ReportsFresh

-----------------------------------------------------------------------------
(* The server *)

LEMMA BeginKeeps ==
    ASSUME IInv, NEW t \in Web, NEW k \in Keys, BeginAdd(t, k) \/ BeginDelete(t, k)
    PROVE  IInv'
<1>1. /\ pc[t] = "idle" /\ pc' = [pc EXCEPT ![t] = "write"]
      /\ deleted' \subseteq deleted /\ (BeginAdd(t, k) => deleted' = deleted \ {k})
      /\ UNCHANGED <<switchVars, switch_flow_stats, netVars, managed, switch_flow_tables, polled, breaks>>
  BY DEF BeginAdd, BeginDelete
<1>2. PICK op \in {"add", "delete"} : \E copy \in [Keys -> Nat] :
        /\ job' = [job EXCEPT ![t] = [op |-> op, key |-> k, conn |-> breaks, copy |-> copy]]
        /\ op = "add" => deleted' = deleted \ {k}
  <2>1. CASE BeginAdd(t, k)
    <3>1. [switch_flow_tables EXCEPT ![k] = @ + 1] \in [Keys -> Nat]
      BY DEF IInv, TypeOK
    <3> QED BY <2>1, <3>1 DEF BeginAdd
  <2>2. CASE BeginDelete(t, k)
    <3>1. switch_flow_tables[k] \in Nat /\ switch_flow_tables[k] > 0
      BY <2>2 DEF IInv, TypeOK, BeginDelete
    <3>2. [switch_flow_tables EXCEPT ![k] = @ - 1] \in [Keys -> Nat]
      BY <3>1 DEF IInv, TypeOK
    <3> QED BY <2>2, <3>2 DEF BeginDelete
  <2> QED BY <2>1, <2>2
<1>3. PICK copy \in [Keys -> Nat] :
        job' = [job EXCEPT ![t] = [op |-> op, key |-> k, conn |-> breaks, copy |-> copy]]
  BY <1>2
<1> DEFINE j == [op |-> op, key |-> k, conn |-> breaks, copy |-> copy]
<1>4. j \in Jobs /\ j.op = op /\ j.key = k
  BY DEF Jobs, IInv
<1> HIDE DEF j
<1>5. t \in Threads /\ job' = [job EXCEPT ![t] = j]
  BY <1>3 DEF Threads, j
<1>6. TypeOK'
  <2>1. job' \in [Threads -> Jobs \cup {NoJob}] /\ pc' \in [Threads -> {"idle", "write", "send"}]
    BY <1>1, <1>4, <1>5 DEF IInv, TypeOK
  <2> QED BY <1>1, <2>1 DEF IInv, TypeOK, switchVars, netVars
<1>7. /\ job'[t] = j /\ pc'[t] = "write"
      /\ \A s \in Threads \ {t} : job'[s] = job[s] /\ pc'[s] = pc[s]
  BY <1>1, <1>5 DEF IInv, TypeOK
<1>8. JobsRight'
  BY <1>4, <1>7, ConstantsAssumption DEF IInv, JobsRight, Client
<1>9. Standing'
  <2>1. ASSUME NEW l \in deleted' PROVE AddedBy(l)' \subseteq AddedBy(l)
    <3>1. op = "add" => l # k
      BY <1>2
    <3> QED BY <1>4, <1>7, <3>1 DEF AddedBy, Threads
  <2> QED BY <1>1, <2>1, StandingKeeps DEF switchVars, netVars
<1>10. StatsFresh' /\ ReportsFresh' /\ Away' /\ breaks' \in Nat
  BY <1>1, FreshKeeps DEF IInv, Away, switchVars
<1> QED BY <1>6, <1>8, <1>9, <1>10 DEF IInv

LEMMA WriteKeeps ==
    ASSUME IInv, NEW t \in Threads, Write(t)
    PROVE  IInv'
<1>1. /\ pc[t] = "write" /\ switch_flow_tables' = job[t].copy
      /\ \/ t \in Web /\ pc' = [pc EXCEPT ![t] = "send"] /\ UNCHANGED job
         \/ pc' = [pc EXCEPT ![t] = "idle"] /\ job' = [job EXCEPT ![t] = NoJob]
      /\ UNCHANGED <<switchVars, switch_flow_stats, netVars, managed, polled, deleted, breaks>>
  BY DEF Write, counts
<1>2. TypeOK'
  <2>1. job[t].copy \in [Keys -> Nat]
    BY <1>1 DEF IInv, JobsRight, Jobs
  <2>2. job' \in [Threads -> Jobs \cup {NoJob}] /\ pc' \in [Threads -> {"idle", "write", "send"}]
    BY <1>1 DEF IInv, TypeOK
  <2> QED BY <1>1, <2>1, <2>2 DEF IInv, TypeOK, switchVars, netVars
<1>3. /\ \A s \in Threads \ {t} : job'[s] = job[s] /\ pc'[s] = pc[s]
      /\ pc'[t] = "idle" \/ (pc'[t] = "send" /\ t \in Web /\ job'[t] = job[t])
  BY <1>1 DEF IInv, TypeOK
<1>4. JobsRight'
  BY <1>1, <1>3, ConstantsAssumption DEF IInv, JobsRight, Client
<1>5. Standing'
  <2>1. \A l : AddedBy(l)' \subseteq AddedBy(l)
    BY <1>1, <1>3 DEF AddedBy, Threads
  <2> QED BY <1>1, <2>1, StandingKeeps DEF switchVars, netVars
<1>6. StatsFresh' /\ ReportsFresh' /\ Away' /\ breaks' \in Nat
  BY <1>1, FreshKeeps DEF IInv, Away, switchVars
<1> QED BY <1>2, <1>4, <1>5, <1>6 DEF IInv

LEMMA SendKeeps ==
    ASSUME IInv, NEW t \in Web, Send(t)
    PROVE  IInv'
<1>1. /\ pc[t] = "send" /\ pc' = [pc EXCEPT ![t] = "idle"] /\ job' = [job EXCEPT ![t] = NoJob]
      /\ UNCHANGED <<switchVars, switch_flow_stats, is_connected, toServer, managed,
                     switch_flow_tables, polled, breaks>>
  BY DEF Send, counts
<1>2. t \in Threads /\ job[t] \in Jobs /\ job[t].op \in {"add", "delete"} /\ job[t].key \in Keys
  BY <1>1 DEF Threads, IInv, JobsRight, Jobs
<1> DEFINE k == job[t].key
           m == [op |-> job[t].op, key |-> k]
<1>3. \/ UNCHANGED <<toController, deleted>>
      \/ /\ toController' = Append(toController, m)
         /\ deleted' = IF job[t].op = "delete" /\ AddedBy(k) = {} THEN deleted \cup {k} ELSE deleted
  BY DEF Send
<1>4. m \in Mods /\ m = IF job[t].op = "add" THEN Add(k) ELSE Delete(k)
  BY <1>2, ModsAre
<1>5. /\ \A s \in Threads \ {t} : job'[s] = job[s] /\ pc'[s] = pc[s]
      /\ pc'[t] = "idle"
  BY <1>1, <1>2 DEF IInv, TypeOK
<1>6. TypeOK'
  <2>1. job' \in [Threads -> Jobs \cup {NoJob}] /\ pc' \in [Threads -> {"idle", "write", "send"}]
    BY <1>1 DEF IInv, TypeOK
  <2>2. toController' \in Seq(Mods) /\ deleted' \subseteq Keys
    <3>1. m \in Mods /\ k \in Keys /\ toController \in Seq(Mods) /\ deleted \subseteq Keys
      BY <1>2, <1>4 DEF IInv, TypeOK
    <3>2. Append(toController, m) \in Seq(Mods)
      BY <3>1, AppendProperties
    <3> QED BY <1>3, <3>1, <3>2
  <2> QED BY <1>1, <2>1, <2>2 DEF IInv, TypeOK, switchVars
<1>7. JobsRight'
  BY <1>1, <1>5 DEF IInv, JobsRight
<1>8. \A l : AddedBy(l)' \subseteq AddedBy(l)
  BY <1>1, <1>5 DEF AddedBy, Threads
<1>9. Standing'
  <2>1. CASE UNCHANGED <<toController, deleted>>
    BY <1>1, <1>8, <2>1, StandingKeeps DEF switchVars
  <2>2. CASE ~ UNCHANGED <<toController, deleted>>
    <3> SUFFICES ASSUME NEW l \in deleted' PROVE Stands(l)'
      BY DEF Standing
    <3>1. m \in Msgs /\ Way \in Seq(Msgs)
      BY <1>4, WayTyped DEF IInv, Msgs
    <3>2. Way' = Append(Way, m)
      <4>1. toController' = Append(toController, m) /\ toSwitch' = toSwitch
        BY <1>1, <1>3, <2>2 DEF switchVars
      <4> HIDE DEF m
      <4> QED BY <3>1, <4>1, WayMoves, WayTyped DEF Way, IInv
    <3>3. l \in deleted \/ (l = k /\ m = Delete(k) /\ AddedBy(k) = {})
      BY <1>2, <1>3, <1>4, <2>2
    <3>4. AddedBy(l) = {}
      BY <3>3 DEF IInv, Standing, Stands
    <3>5. m # Add(l)
      <4>1. m = Add(l) => job[t].op = "add" /\ k = l
        BY <1>4, Distinct
      <4>2. job[t].op = "add" => t \in AddedBy(k)
        BY <1>1 DEF AddedBy
      <4> QED BY <3>4, <4>1, <4>2
    <3> HIDE DEF m, k
    <3>6. AddsUndone(Append(Way, m), l) /\ (l \in flow_table => HasDelete(Append(Way, m), l))
      BY <3>1, <3>3, <3>5, PutLast DEF IInv, Standing, Stands
    <3>7. AddedBy(l)' = {} /\ flow_table' = flow_table
      BY <1>1, <1>8, <3>4 DEF switchVars
    <3>8. AddsUndone(Way', l) /\ (l \in flow_table' => HasDelete(Way', l))
      BY <3>2, <3>6, <3>7
    <3> QED BY <3>7, <3>8 DEF Stands
  <2> QED BY <2>1, <2>2
<1>10. StatsFresh' /\ ReportsFresh' /\ Away' /\ breaks' \in Nat
  BY <1>1, FreshKeeps DEF IInv, Away, switchVars
<1> QED BY <1>6, <1>7, <1>9, <1>10 DEF IInv

\* The client's thread takes a message.
LEMMA ReadKeeps ==
    ASSUME IInv, ReadTopo \/ ReadRemoved
    PROVE  IInv'
<1>1. /\ pc[Client] = "idle" /\ toServer # <<>> /\ toServer' = Tail(toServer)
      /\ UNCHANGED <<switchVars, switch_flow_stats, is_connected, toController, polled, deleted, breaks>>
  BY DEF ReadTopo, ReadRemoved, counts
<1> DEFINE Types == {Removed(k) : k \in Keys} \cup [type : {"topo"}, keys : SUBSET Keys, here : BOOLEAN]
<1>2. toServer \in Seq(Types) /\ toServer' \in Seq(Types) /\ Head(toServer) \in Types
  <2>1. toServer \in Seq(Types)
    BY DEF IInv, TypeOK
  <2> HIDE DEF Types
  <2> QED BY <1>1, <2>1, HeadTailProperties
<1>3. /\ Head(toServer).type = "topo" => Head(toServer).keys \subseteq Keys /\ Head(toServer).here \in BOOLEAN
      /\ Head(toServer).type = "flow_removed" => Head(toServer).key \in Keys
  BY <1>2 DEF Removed
<1>4. Client \in Threads /\ Client \notin Web
  BY ConstantsAssumption DEF Threads, Client
<1>5. CASE ReadTopo
  <2>1. UNCHANGED <<pc, job>>
    BY <1>5 DEF ReadTopo
  <2>2. switch_flow_tables' \in [Keys -> Nat] /\ managed' \in BOOLEAN
    <3>1. \A S : Stored(S) \in [Keys -> Nat]
      BY DEF Stored
    <3> QED BY <1>3, <1>5, <3>1 DEF ReadTopo, IInv, TypeOK
  <2>3. TypeOK'
    BY <1>1, <1>2, <2>1, <2>2 DEF IInv, TypeOK, switchVars
  <2>4. JobsRight' /\ \A l : AddedBy(l)' = AddedBy(l)
    BY <2>1 DEF IInv, JobsRight, AddedBy
  <2>5. Standing'
    BY <1>1, <2>4, StandingKeeps DEF switchVars
  <2> QED BY <1>1, <2>3, <2>4, <2>5, FreshKeeps DEF IInv, Away, switchVars
<1>6. CASE ReadRemoved
  <2> DEFINE k == Head(toServer).key
             j == [op |-> "flow_removed", key |-> k, conn |-> breaks,
                   copy |-> [switch_flow_tables EXCEPT ![k] = 0]]
  <2>1. /\ job' = [job EXCEPT ![Client] = j] /\ pc' = [pc EXCEPT ![Client] = "write"]
        /\ UNCHANGED <<managed, switch_flow_tables>>
    BY <1>6 DEF ReadRemoved
  <2>2. j \in Jobs
    <3>1. k \in Keys
      BY <1>3, <1>6 DEF ReadRemoved
    <3>2. [switch_flow_tables EXCEPT ![k] = 0] \in [Keys -> Nat]
      BY DEF IInv, TypeOK
    <3> QED BY <3>1, <3>2 DEF Jobs, IInv
  <2> HIDE DEF j
  <2>3. /\ job' \in [Threads -> Jobs \cup {NoJob}] /\ pc' \in [Threads -> {"idle", "write", "send"}]
        /\ job'[Client] = j /\ pc'[Client] = "write"
        /\ \A s \in Web : job'[s] = job[s] /\ pc'[s] = pc[s]
    BY <1>4, <2>1, <2>2 DEF IInv, TypeOK, Threads
  <2>4. TypeOK'
    BY <1>1, <1>2, <2>1, <2>3 DEF IInv, TypeOK, switchVars
  <2>5. JobsRight' /\ \A l : AddedBy(l)' = AddedBy(l)
    BY <1>4, <2>2, <2>3 DEF IInv, JobsRight, AddedBy, Threads
  <2>6. Standing'
    BY <1>1, <2>5, StandingKeeps DEF switchVars
  <2> QED BY <1>1, <2>4, <2>5, <2>6, FreshKeeps DEF IInv, Away, switchVars
<1> QED BY <1>5, <1>6

-----------------------------------------------------------------------------
(* The controller *)

\* A message goes on to the switch, or finds none.
LEMMA ReceiveModKeeps ==
    ASSUME IInv, ReceiveMod
    PROVE  IInv'
<1>1. /\ toController # <<>> /\ toController' = Tail(toController)
      /\ toSwitch' = IF joined THEN toSwitch \o <<Head(toController)>> ELSE toSwitch
      /\ deleted' = IF joined THEN deleted ELSE deleted \ {Head(toController).key}
      /\ UNCHANGED <<flow_table, joined, reports, switch_flow_stats, is_connected, toServer,
                     serverVars, polled, breaks>>
  BY DEF ReceiveMod, Relayed, counts
<1>2. /\ toSwitch \in Seq(Msgs) /\ toController \in Seq(Msgs) /\ toController \in Seq(Mods)
      /\ Way \in Seq(Msgs)
  BY WayTyped DEF IInv, TypeOK
<1> DEFINE m == Head(toController)
<1>3. m \in Mods /\ toController' \in Seq(Mods) /\ m \in Msgs
  BY <1>1, <1>2, HeadTailProperties DEF Msgs
<1>4. TypeOK'
  <2>1. toSwitch' \in Seq(Msgs)
    <3>1. <<m>> \in Seq(Msgs)
      BY <1>3
    <3> QED BY <1>1, <1>2, <3>1, ConcatProperties
  <2> QED BY <1>1, <1>3, <2>1 DEF IInv, TypeOK, serverVars, Msgs
<1>5. JobsRight' /\ \A l : AddedBy(l)' = AddedBy(l)
  BY <1>1 DEF IInv, JobsRight, AddedBy, serverVars
<1>6. Standing'
  <2> SUFFICES ASSUME NEW k \in deleted' PROVE Stands(k)'
    BY DEF Standing
  <2>1. Stands(k)
    BY <1>1 DEF IInv, Standing
  <2>2. CASE joined
    <3>1. Way' = Way
      BY <1>1, <1>2, <2>2, WayMoves DEF Way
    <3>2. AddsUndone(Way', k) /\ (k \in flow_table' => HasDelete(Way', k)) /\ AddedBy(k)' = {}
      BY <1>1, <1>5, <2>1, <3>1 DEF Stands
    <3> QED BY <3>2 DEF Stands
  <2>3. CASE ~joined
    <3>1. Way = toController /\ Way' = Tail(toController)
      <4>1. toSwitch = <<>> /\ toSwitch' = <<>>
        BY <1>1, <2>3 DEF IInv, Away
      <4>2. toController' \in Seq(Msgs)
        BY <1>1, <1>2, HeadTailProperties
      <4> QED BY <1>1, <1>2, <4>1, <4>2, ConcatEmptySeq DEF Way
    <3>2. m # Delete(k)
      BY <1>1, <2>3, Distinct
    <3> HIDE DEF m
    <3>3. AddsUndone(Tail(toController), k)
          /\ (HasDelete(toController, k) => HasDelete(Tail(toController), k))
      BY <1>1, <1>2, <2>1, <3>1, <3>2, TakeFirst DEF Stands, m
    <3>4. AddsUndone(Way', k) /\ (k \in flow_table' => HasDelete(Way', k)) /\ AddedBy(k)' = {}
      BY <1>1, <1>5, <2>1, <3>1, <3>3 DEF Stands
    <3> QED BY <3>4 DEF Stands
  <2> QED BY <2>2, <2>3
<1>7. StatsFresh' /\ ReportsFresh' /\ Away' /\ breaks' \in Nat
  BY <1>1, FreshKeeps DEF IInv, Away
<1> QED BY <1>4, <1>5, <1>6, <1>7 DEF IInv

\* The controller asks the switch for a flow or for statistics.
LEMMA RouteKeeps ==
    ASSUME IInv, AskStats \/ \E k \in Keys : RouteFlow(k)
    PROVE  IInv'
<1>1. PICK x \in Msgs :
        /\ joined /\ toSwitch' = Append(toSwitch, x)
        /\ \A k \in deleted' : k \in deleted /\ x # Add(k)
        /\ UNCHANGED <<flow_table, joined, reports, switch_flow_stats, netVars, serverVars, polled,
                       breaks>>
  <2>1. CASE AskStats
    <3>1. Poll \in Msgs /\ \A k : Poll # Add(k)
      BY Distinct DEF Msgs
    <3> QED BY <2>1, <3>1 DEF AskStats, counts
  <2>2. ASSUME NEW k \in Keys, RouteFlow(k)
        PROVE  \E x \in Msgs :
                 /\ joined /\ toSwitch' = Append(toSwitch, x)
                 /\ \A l \in deleted' : l \in deleted /\ x # Add(l)
                 /\ UNCHANGED <<flow_table, joined, reports, switch_flow_stats, netVars, serverVars,
                                polled, breaks>>
    <3>1. Add(k) \in Msgs /\ \A l : l # k => Add(k) # Add(l)
      BY Distinct, ModsAre DEF Msgs
    <3> QED BY <2>2, <3>1 DEF RouteFlow
  <2> QED BY <2>1, <2>2
<1>2. toSwitch \in Seq(Msgs) /\ toController \in Seq(Msgs)
  BY WayTyped DEF IInv
<1>3. TypeOK'
  <2>1. toSwitch' \in Seq(Msgs)
    BY <1>1, <1>2, AppendProperties
  <2> QED BY <1>1, <2>1 DEF IInv, TypeOK, netVars, serverVars, Msgs
<1>4. JobsRight' /\ \A l : AddedBy(l)' = AddedBy(l)
  BY <1>1 DEF IInv, JobsRight, AddedBy, serverVars
<1>5. Standing'
  <2> SUFFICES ASSUME NEW k \in deleted' PROVE Stands(k)'
    BY DEF Standing
  <2>1. Stands(k) /\ x # Add(k)
    BY <1>1 DEF IInv, Standing
  <2>2. Way' = Append(toSwitch, x) \o toController
    BY <1>1 DEF Way, netVars
  <2>3. /\ AddsUndone(toSwitch \o toController, k)
        /\ k \in flow_table => HasDelete(toSwitch \o toController, k)
    BY <2>1 DEF Stands, Way
  <2>4. AddsUndone(Way', k) /\ (k \in flow_table' => HasDelete(Way', k)) /\ AddedBy(k)' = {}
    <3>1. AddedBy(k)' = {} /\ flow_table' = flow_table
      BY <1>1, <1>4, <2>1 DEF Stands
    <3> QED BY <1>2, <2>1, <2>2, <2>3, <3>1, PutBetween
  <2> QED BY <2>4 DEF Stands
<1>6. StatsFresh' /\ ReportsFresh' /\ Away' /\ breaks' \in Nat
  BY <1>1, FreshKeeps DEF IInv, Away
<1> QED BY <1>3, <1>4, <1>5, <1>6 DEF IInv

LEMMA SendTopoKeeps ==
    ASSUME IInv, SendTopo
    PROVE  IInv'
<1>1. UNCHANGED <<switchVars, switch_flow_stats, is_connected, toController, serverVars, polled,
                  deleted, breaks>>
  BY DEF SendTopo, counts
<1>2. TypeOK'
  <2> DEFINE Types == {Removed(k) : k \in Keys} \cup [type : {"topo"}, keys : SUBSET Keys, here : BOOLEAN]
             sent == Topo(IF joined THEN switch_flow_stats ELSE {})
  <2>1. toServer \in Seq(Types) /\ sent \in Types
    BY DEF IInv, TypeOK, Topo
  <2>2. toServer' = Append(toServer, sent)
    BY DEF SendTopo
  <2> HIDE DEF Types, sent
  <2>3. toServer' \in Seq(Types)
    BY <2>1, <2>2, AppendProperties
  <2> QED BY <1>1, <2>3 DEF IInv, TypeOK, switchVars, serverVars, Types
<1>3. JobsRight' /\ \A l : AddedBy(l)' = AddedBy(l)
  BY <1>1 DEF IInv, JobsRight, AddedBy, serverVars
<1>4. Standing'
  BY <1>1, <1>3, StandingKeeps DEF switchVars
<1> QED BY <1>1, <1>2, <1>3, <1>4, FreshKeeps DEF IInv, Away, switchVars

\* A report from the switch changes the controller's statistics.
LEMMA ReceiveReportKeeps ==
    ASSUME IInv, ReceiveReport
    PROVE  IInv'
<1> DEFINE Types == {Removed(k) : k \in Keys} \cup {Stats(S) : S \in SUBSET Keys}
           m     == Head(reports)
<1>1. /\ reports # <<>> /\ reports' = Tail(reports)
      /\ UNCHANGED <<flow_table, joined, toSwitch, is_connected, toController, serverVars, deleted,
                     breaks>>
      /\ \/ /\ m.type = "stats" /\ switch_flow_stats' = m.keys
            /\ polled' = TRUE /\ UNCHANGED toServer
         \/ /\ m.type = "flow_removed" /\ switch_flow_stats' = switch_flow_stats \ {m.key}
            /\ toServer' = IF is_connected THEN Append(toServer, m) ELSE toServer
            /\ UNCHANGED polled
  BY DEF ReceiveReport, Pruned, counts
<1>2. /\ reports \in Seq(Types) /\ m \in Types /\ m = reports[1] /\ reports' \in Seq(Types)
      /\ Len(reports) \in Nat \ {0} /\ Len(reports') = Len(reports) - 1
      /\ \A n \in 1..Len(reports') : reports'[n] = reports[n + 1]
  <2>1. reports \in Seq(Types)
    BY DEF IInv, TypeOK
  <2> HIDE DEF Types
  <2> QED BY <1>1, <2>1, HeadTailProperties, EmptySeq
<1>3. /\ \A k : Removed(k).type = "flow_removed" /\ Removed(k).key = k
      /\ m.type = "stats" => m.keys \subseteq Keys
      /\ m.type = "flow_removed" => \E k \in Keys : m = Removed(k)
  BY <1>2 DEF Removed, Stats
<1> HIDE DEF m, Types
<1>4. TypeOK'
  <2>1. switch_flow_stats' \subseteq Keys /\ polled' \in BOOLEAN
    BY <1>1, <1>3 DEF IInv, TypeOK
  <2> DEFINE Sent == {Removed(k) : k \in Keys} \cup [type : {"topo"}, keys : SUBSET Keys, here : BOOLEAN]
  <2>2. toServer' \in Seq(Sent)
    <3>1. toServer \in Seq(Sent) /\ (m.type = "flow_removed" => m \in Sent)
      BY <1>3 DEF IInv, TypeOK
    <3> HIDE DEF Sent
    <3> QED BY <1>1, <3>1, AppendProperties
  <2> QED BY <1>1, <1>2, <2>1, <2>2 DEF IInv, TypeOK, serverVars, Types
<1>5. JobsRight' /\ \A l : AddedBy(l)' = AddedBy(l)
  BY <1>1 DEF IInv, JobsRight, AddedBy, serverVars
<1>6. Standing'
  BY <1>1, <1>5, StandingKeeps
<1>7. \A n \in 2..Len(reports) : n - 1 \in 1..Len(reports') /\ reports'[n - 1] = reports[n]
  <2> TAKE n \in 2..Len(reports)
  <2>1. n - 1 \in 1..Len(reports') /\ (n - 1) + 1 = n
    BY <1>2
  <2> QED BY <1>2, <2>1
<1>8. StatsFresh'
  <2> SUFFICES ASSUME polled', NEW k \in switch_flow_stats', k \notin flow_table
               PROVE  \E n \in 1..Len(reports') : reports'[n] = Removed(k)
    BY <1>1 DEF StatsFresh
  <2>1. \E n \in 2..Len(reports) : reports[n] = Removed(k)
    <3>1. CASE m.type = "stats"
      <4>1. 1 \in 1..Len(reports) /\ reports[1].type = "stats" /\ k \in reports[1].keys
        BY <1>1, <1>2, <3>1
      <4>2. PICK n \in 1+1..Len(reports) : reports[n] = Removed(k)
        BY <4>1 DEF IInv, ReportsFresh
      <4> QED BY <4>2
    <3>2. CASE m.type = "flow_removed"
      <4>1. polled /\ k \in switch_flow_stats /\ k # m.key
        BY <1>1, <3>2
      <4>2. PICK n \in 1..Len(reports) : reports[n] = Removed(k)
        BY <4>1 DEF IInv, StatsFresh
      <4>3. n # 1
        BY <1>2, <1>3, <4>1, <4>2
      <4>4. n \in 2..Len(reports)
        BY <1>2, <4>3
      <4> QED BY <4>2, <4>4
    <3> QED BY <1>1, <3>1, <3>2
  <2> QED BY <1>7, <2>1
<1>9. ReportsFresh'
  <2> SUFFICES ASSUME NEW n \in 1..Len(reports'), reports'[n].type = "stats",
                      NEW k \in reports'[n].keys, k \notin flow_table
               PROVE  \E i \in n+1..Len(reports') : reports'[i] = Removed(k)
    BY <1>1 DEF ReportsFresh
  <2>1. n + 1 \in 1..Len(reports) /\ reports'[n] = reports[n + 1]
    BY <1>2
  <2>2. PICK i \in (n+1)+1..Len(reports) : reports[i] = Removed(k)
    BY <2>1 DEF IInv, ReportsFresh
  <2>3. i \in 2..Len(reports) /\ i - 1 \in n+1..Len(reports')
    BY <1>2, <2>2
  <2> QED BY <1>7, <2>2, <2>3
<1>10. Away' /\ breaks' \in Nat
  BY <1>1 DEF IInv, Away
<1> QED BY <1>4, <1>5, <1>6, <1>8, <1>9, <1>10 DEF IInv

-----------------------------------------------------------------------------
(* The switch *)

\* The switch takes its first message: what stands of the others still stands.
LEMMA Taken ==
    ASSUME IInv, toSwitch # <<>>, toSwitch' = Tail(toSwitch),
           UNCHANGED <<toController, serverVars, deleted>>,
           NEW k \in deleted',
           k \in flow_table' => \/ k \in flow_table /\ Head(toSwitch) # Delete(k)
                                \/ Head(toSwitch) = Add(k)
    PROVE  Stands(k)'
<1>1. Stands(k) /\ toSwitch \in Seq(Msgs) /\ toController \in Seq(Msgs) /\ Way \in Seq(Msgs)
  BY WayTyped DEF IInv, Standing
<1>2. Way # <<>> /\ Way' = Tail(Way) /\ Head(Way) = Head(toSwitch)
  BY <1>1, WayMoves DEF Way
<1>3. AddsUndone(Tail(Way), k)
      /\ (HasDelete(Way, k) /\ Head(Way) # Delete(k) => HasDelete(Tail(Way), k))
      /\ (Head(Way) = Add(k) => HasDelete(Tail(Way), k))
  BY <1>1, <1>2, TakeFirst DEF Stands
<1>4. AddedBy(k)' = {}
  BY <1>1 DEF Stands, AddedBy, serverVars
<1>5. AddsUndone(Way', k) /\ (k \in flow_table' => HasDelete(Way', k))
  BY <1>1, <1>2, <1>3 DEF Stands
<1> QED BY <1>4, <1>5 DEF Stands

\* A report from the switch is put behind the others.
LEMMA Reported ==
    ASSUME IInv, NEW r, reports' = Append(reports, r), UNCHANGED <<polled, switch_flow_stats>>,
           \A k \in flow_table \ flow_table' : r = Removed(k),
           r.type = "stats" => r.keys \subseteq flow_table'
    PROVE  StatsFresh' /\ ReportsFresh'
<1>1. /\ Len(reports) \in Nat /\ Len(reports') = Len(reports) + 1
      /\ reports'[Len(reports) + 1] = r /\ \A n \in 1..Len(reports) : reports'[n] = reports[n]
  BY DEF IInv, TypeOK
<1>2. StatsFresh'
  <2> SUFFICES ASSUME polled, NEW k \in switch_flow_stats, k \notin flow_table'
               PROVE  \E n \in 1..Len(reports') : reports'[n] = Removed(k)
    BY DEF StatsFresh
  <2>1. CASE k \in flow_table
    BY <1>1, <2>1
  <2>2. CASE k \notin flow_table
    <3>1. PICK n \in 1..Len(reports) : reports[n] = Removed(k)
      BY <2>2 DEF IInv, StatsFresh
    <3> QED BY <1>1, <3>1
  <2> QED BY <2>1, <2>2
<1>3. ReportsFresh'
  <2> SUFFICES ASSUME NEW n \in 1..Len(reports'), reports'[n].type = "stats",
                      NEW k \in reports'[n].keys, k \notin flow_table'
               PROVE  \E m \in n+1..Len(reports') : reports'[m] = Removed(k)
    BY DEF ReportsFresh
  <2>1. n \in 1..Len(reports) /\ reports'[n] = reports[n]
    BY <1>1
  <2>2. CASE k \in flow_table
    BY <1>1, <2>1, <2>2
  <2>3. CASE k \notin flow_table
    <3>1. PICK m \in n+1..Len(reports) : reports[m] = Removed(k)
      BY <2>1, <2>3 DEF IInv, ReportsFresh
    <3> QED BY <1>1, <2>1, <3>1
  <2> QED BY <2>2, <2>3
<1> QED BY <1>2, <1>3

\* A step of the switch, and nothing else.
LEMMA SwitchTyped ==
    ASSUME IInv, toSwitch' = toSwitch \/ (toSwitch # <<>> /\ toSwitch' = Tail(toSwitch)),
           flow_table' \subseteq Keys, deleted' \subseteq deleted,
           \/ UNCHANGED reports
           \/ \E k \in Keys : reports' = Append(reports, Removed(k))
           \/ \E S \in SUBSET Keys : reports' = Append(reports, Stats(S)),
           UNCHANGED <<joined, switch_flow_stats, netVars, serverVars, polled, breaks>>
    PROVE  TypeOK' /\ JobsRight' /\ breaks' \in Nat /\ \A l : AddedBy(l)' = AddedBy(l)
<1>1. toSwitch' \in Seq(Mods \cup {Poll})
  <2>1. toSwitch \in Seq(Msgs)
    BY WayTyped DEF IInv
  <2>2. toSwitch' \in Seq(Msgs)
    BY <2>1, HeadTailProperties
  <2> QED BY <2>2 DEF Msgs
<1> DEFINE Types == {Removed(k) : k \in Keys} \cup {Stats(S) : S \in SUBSET Keys}
<1>2. reports' \in Seq(Types)
  <2>1. /\ reports \in Seq(Types)
        /\ \A k \in Keys : Removed(k) \in Types
        /\ \A S \in SUBSET Keys : Stats(S) \in Types
    BY DEF IInv, TypeOK
  <2> HIDE DEF Types
  <2> QED BY <2>1, AppendProperties
<1>3. TypeOK'
  BY <1>1, <1>2 DEF IInv, TypeOK, netVars, serverVars
<1> QED BY <1>3 DEF IInv, JobsRight, AddedBy, serverVars

LEMMA ApplyKeeps ==
    ASSUME IInv, NEW k \in Keys, ApplyAdd(k) \/ ApplyDelete(k)
    PROVE  IInv'
<1>1. /\ toSwitch # <<>> /\ toSwitch' = Tail(toSwitch)
      /\ UNCHANGED <<joined, switch_flow_stats, netVars, serverVars, polled, deleted, breaks>>
  BY DEF ApplyAdd, ApplyDelete, counts
<1>2. Away'
  BY <1>1 DEF IInv, Away
<1>3. CASE ApplyAdd(k)
  <2>1. Head(toSwitch) = Add(k) /\ flow_table' = flow_table \cup {k} /\ UNCHANGED reports
    BY <1>3 DEF ApplyAdd
  <2>2. TypeOK' /\ JobsRight' /\ breaks' \in Nat
    <3>1. flow_table' \subseteq Keys
      BY <2>1 DEF IInv, TypeOK
    <3> QED BY <1>1, <2>1, <3>1, SwitchTyped
  <2>3. Standing'
    <3>1. ASSUME NEW l \in deleted' PROVE Stands(l)'
      BY <1>1, <2>1, Taken, Distinct DEF netVars
    <3> QED BY <3>1 DEF Standing
  <2> QED BY <1>1, <1>2, <2>1, <2>2, <2>3, FreshKeeps DEF IInv
<1>4. CASE ApplyDelete(k)
  <2>1. /\ Head(toSwitch) = Delete(k) /\ flow_table' = flow_table \ {k}
        /\ reports' = IF k \in flow_table THEN Append(reports, Removed(k)) ELSE reports
    BY <1>4 DEF ApplyDelete
  <2>2. TypeOK' /\ JobsRight' /\ breaks' \in Nat
    <3>1. flow_table' \subseteq Keys
      BY <2>1 DEF IInv, TypeOK
    <3> QED BY <1>1, <2>1, <3>1, SwitchTyped
  <2>3. Standing'
    <3>1. ASSUME NEW l \in deleted' PROVE Stands(l)'
      BY <1>1, <2>1, Taken, Distinct DEF netVars
    <3> QED BY <3>1 DEF Standing
  <2>4. StatsFresh' /\ ReportsFresh'
    <3>1. CASE k \in flow_table
      <4>1. Removed(k).type # "stats"
        BY DEF Removed
      <4> QED BY <1>1, <2>1, <3>1, <4>1, Reported
    <3>2. CASE k \notin flow_table
      BY <1>1, <2>1, <3>2, FreshKeeps
    <3> QED BY <3>1, <3>2
  <2> QED BY <1>2, <2>2, <2>3, <2>4 DEF IInv
<1> QED BY <1>3, <1>4

LEMMA ReplyKeeps ==
    ASSUME IInv, ReplyStats
    PROVE  IInv'
<1>1. /\ toSwitch # <<>> /\ Head(toSwitch) = Poll /\ toSwitch' = Tail(toSwitch)
      /\ UNCHANGED <<flow_table, joined, switch_flow_stats, netVars, serverVars, polled, deleted, breaks>>
  BY DEF ReplyStats, counts
<1>2. PICK S \in SUBSET flow_table : reports' = Append(reports, Stats(S))
  BY DEF ReplyStats
<1>3. S \in SUBSET Keys /\ flow_table' \subseteq Keys
  BY <1>1 DEF IInv, TypeOK
<1>4. TypeOK' /\ JobsRight' /\ breaks' \in Nat
  BY <1>1, <1>2, <1>3, SwitchTyped
<1>5. Standing'
  <2>1. ASSUME NEW l \in deleted' PROVE Stands(l)'
    BY <1>1, Taken, Distinct DEF netVars
  <2> QED BY <2>1 DEF Standing
<1>6. StatsFresh' /\ ReportsFresh'
  <2>1. Stats(S).keys \subseteq flow_table'
    BY <1>1 DEF Stats
  <2> QED BY <1>1, <1>2, <2>1, Reported
<1>7. Away'
  BY <1>1 DEF IInv, Away
<1> QED BY <1>4, <1>5, <1>6, <1>7 DEF IInv

LEMMA ExpireKeeps ==
    ASSUME IInv, NEW k \in Keys, Expire(k)
    PROVE  IInv'
<1>1. /\ flow_table' = flow_table \ {k} /\ k \in flow_table
      /\ reports' = IF joined THEN Append(reports, Removed(k)) ELSE reports
      /\ UNCHANGED <<joined, toSwitch, switch_flow_stats, netVars, serverVars, polled, deleted, breaks>>
  BY DEF Expire
<1>2. TypeOK' /\ JobsRight' /\ breaks' \in Nat /\ \A l : AddedBy(l)' = AddedBy(l)
  <2>1. flow_table' \subseteq Keys
    BY <1>1 DEF IInv, TypeOK
  <2> QED BY <1>1, <2>1, SwitchTyped
<1>3. Standing'
  BY <1>1, <1>2, StandingKeeps DEF netVars
<1>4. StatsFresh' /\ ReportsFresh'
  <2>1. CASE joined
    <3>1. Removed(k).type # "stats"
      BY DEF Removed
    <3> QED BY <1>1, <2>1, <3>1, Reported
  <2>2. CASE ~joined
    <3>1. ~polled' /\ reports' = <<>>
      BY <1>1, <2>2 DEF IInv, Away
    <3> QED BY <3>1 DEF StatsFresh, ReportsFresh
  <2> QED BY <2>1, <2>2
<1>5. Away'
  BY <1>1 DEF IInv, Away
<1> QED BY <1>2, <1>3, <1>4, <1>5 DEF IInv

-----------------------------------------------------------------------------
(* Connections *)

LEMMA LeaveKeeps ==
    ASSUME IInv, Leave
    PROVE  IInv'
<1>1. /\ ~joined' /\ toSwitch' = <<>> /\ reports' = <<>> /\ ~polled' /\ deleted' = {}
      /\ UNCHANGED <<flow_table, switch_flow_stats, netVars, serverVars, breaks>>
  BY DEF Leave
<1>2. TypeOK'
  <2>1. \A S : <<>> \in Seq(S)
    BY EmptySeq
  <2>2. joined' = FALSE /\ polled' = FALSE
    BY DEF Leave
  <2> QED BY <1>1, <2>1, <2>2 DEF IInv, TypeOK, netVars, serverVars
<1>3. JobsRight' /\ Away' /\ StatsFresh' /\ ReportsFresh' /\ Standing' /\ breaks' \in Nat
  BY <1>1 DEF IInv, JobsRight, Away, StatsFresh, ReportsFresh, Standing, serverVars
<1> QED BY <1>2, <1>3 DEF IInv

LEMMA LoseKeeps ==
    ASSUME IInv, Lose
    PROVE  IInv'
<1>1. /\ toServer' = <<>> /\ toController' = <<>> /\ deleted' = {} /\ breaks' = breaks + 1
      /\ is_connected' = FALSE /\ managed' = FALSE
      /\ UNCHANGED <<switchVars, switch_flow_stats, switch_flow_tables, pc, job, polled>>
  BY DEF Lose
<1>2. TypeOK'
  <2>1. \A S : <<>> \in Seq(S)
    BY EmptySeq
  <2> QED BY <1>1, <2>1 DEF IInv, TypeOK, switchVars
<1>3. JobsRight' /\ Away' /\ Standing' /\ breaks' \in Nat
  BY <1>1 DEF IInv, JobsRight, Away, Standing, switchVars
<1> QED BY <1>1, <1>2, <1>3, FreshKeeps DEF IInv, switchVars

LEMMA JoinKeeps ==
    ASSUME IInv, Join \/ Reconnect \/ UNCHANGED vars
    PROVE  IInv'
<1>1. /\ UNCHANGED <<flow_table, toSwitch, reports, switch_flow_stats, toServer, toController,
                     serverVars, polled, deleted, breaks>>
      /\ joined' \in BOOLEAN /\ is_connected' \in BOOLEAN
      /\ joined' = joined \/ joined'
  BY DEF Join, Reconnect, vars, switchVars, netVars, counts, IInv, TypeOK
<1>2. TypeOK'
  BY <1>1 DEF IInv, TypeOK, serverVars
<1>3. JobsRight' /\ Away' /\ \A l : AddedBy(l)' = AddedBy(l)
  BY <1>1 DEF IInv, JobsRight, Away, AddedBy, serverVars
<1>4. Standing' /\ StatsFresh' /\ ReportsFresh'
  BY <1>1, <1>3, StandingKeeps, FreshKeeps
<1> QED BY <1>1, <1>2, <1>3, <1>4 DEF IInv

-----------------------------------------------------------------------------
LEMMA FlowInit == Init => IInv
<1> SUFFICES ASSUME Init PROVE IInv
  OBVIOUS
<1>1. TypeOK
  <2>1. \A S : <<>> \in Seq(S)
    BY EmptySeq
  <2> QED BY <2>1 DEF Init, TypeOK
<1> QED BY <1>1 DEF Init, IInv, JobsRight, Away, StatsFresh, ReportsFresh, Standing

LEMMA FlowStep == IInv /\ [Next]_vars => IInv'
<1> SUFFICES ASSUME IInv, [Next]_vars PROVE IInv'
  OBVIOUS
<1>1. CASE \E t \in Web, k \in Keys : BeginAdd(t, k) \/ BeginDelete(t, k)
  BY <1>1, BeginKeeps
<1>2. CASE \E t \in Web : WebThread(t)
  BY <1>2, WriteKeeps, SendKeeps DEF WebThread, Threads
<1>3. CASE ClientThread
  BY <1>3, ReadKeeps, WriteKeeps DEF ClientThread, Threads
<1>4. CASE ReceiveMod \/ AskStats \/ ReceiveReport \/ SendTopo
  BY <1>4, ReceiveModKeeps, RouteKeeps, ReceiveReportKeeps, SendTopoKeeps
<1>5. CASE Switch
  BY <1>5, ReplyKeeps, ApplyKeeps DEF Switch
<1>6. CASE \E k \in Keys : RouteFlow(k) \/ Expire(k)
  BY <1>6, RouteKeeps, ExpireKeeps
<1>7. CASE Leave \/ Join \/ Lose \/ Reconnect \/ UNCHANGED vars
  BY <1>7, LeaveKeeps, JoinKeeps, LoseKeeps
<1> QED BY <1>1, <1>2, <1>3, <1>4, <1>5, <1>6, <1>7 DEF Next

\* FlowInv: the flows that the controller's statistics name, or that are on their way
\* to it, are in the switch, or the notice of their removal is still to come.
THEOREM FlowInvHolds == Spec => []FlowInv
<1>1. IInv => FlowInv
  BY DEF IInv, FlowInv
<1> QED BY <1>1, FlowInit, FlowStep, PTL DEF Spec

\* DeletionStands: a flow that the operator has deleted, and that nothing has put back,
\* is gone from the switch, or its deletion is on the way with no addition behind it.
THEOREM DeletionStandsHolds == Spec => []DeletionStands
<1>1. IInv => DeletionStands
  <2> SUFFICES ASSUME IInv, NEW k \in deleted PROVE HasDelete(Way, k) \/ k \notin flow_table
    BY DEF IInv, Standing, Stands, HasDelete, AddsUndone, DeletionStands, Way
  <2> QED BY DEF IInv, Standing, Stands
<1> QED BY <1>1, FlowInit, FlowStep, PTL DEF Spec

-----------------------------------------------------------------------------
(***************************************************************************)
(* Links and hosts (HostTable)                                             *)
(***************************************************************************)
USE HostConstants

\* What the events do to partial functions.
LEMMA WithIsPartial ==
    ASSUME NEW S, NEW T, NEW f, IsPartial(f, S, T), NEW x \in S, NEW y \in T
    PROVE  IsPartial(With(f, x, y), S, T)
  BY DEF IsPartial, With

LEMMA WithoutIsPartial ==
    ASSUME NEW S, NEW T, NEW f, IsPartial(f, S, T), NEW x
    PROVE  IsPartial(Without(f, x), S, T)
  BY DEF IsPartial, Without

LEMMA PairOf ==
    ASSUME NEW l \in Pairs
    PROVE  /\ l[1] \in Switches /\ l[2] \in Switches /\ l = <<l[1], l[2]>>
           /\ <<l[2], l[1]>> \in Pairs
  BY DEF Pairs

-----------------------------------------------------------------------------
(* Types *)

LEMMA TypeInit == HostInit => HostTypeOK
  BY DEF HostInit, HostTypeOK, Nothing, IsPartial, Pairs

LEMMA TypeSwitches ==
    ASSUME HostTypeOK, NEW s \in Switches,
           SwitchEnter(s) \/ SwitchReconnected(s) \/ SwitchLeave(s)
    PROVE  HostTypeOK'
<1>1. CASE SwitchEnter(s)
  <2>1. connection' \in [Switches -> 0..MaxConnections] /\ connection'[s] \in 1..MaxConnections
    BY <1>1 DEF HostTypeOK, SwitchEnter, Connects
  <2>2. IsPartial(dpid_to_switch', Switches, 1..MaxConnections)
    BY <1>1, <2>1, WithIsPartial DEF HostTypeOK, SwitchEnter, Known
  <2>3. DOMAIN dpid_to_switch \subseteq DOMAIN dpid_to_switch'
    BY <1>1 DEF SwitchEnter, Known, With
  <2> QED
    BY <1>1, <2>1, <2>2, <2>3
    DEF HostTypeOK, SwitchEnter, Connects, Known, Mark, Purged, linkVars, history
<1>2. CASE SwitchReconnected(s)
  BY <1>2 DEF HostTypeOK, SwitchReconnected, Connects, linkVars, history
<1>3. CASE SwitchLeave(s)
  <2>1. IsPartial(dpid_to_switch', Switches, 1..MaxConnections)
    BY <1>3, WithoutIsPartial DEF HostTypeOK, SwitchLeave
  <2>2. DOMAIN dpid_to_switch' = DOMAIN dpid_to_switch \ {s}
    BY <1>3 DEF SwitchLeave, Without
  <2> QED BY <1>3, <2>1, <2>2 DEF HostTypeOK, SwitchLeave, LeaveHosts, linkVars, history
<1> QED BY <1>1, <1>2, <1>3

LEMMA TypeLinkAdd ==
    ASSUME HostTypeOK, NEW l \in Pairs, NEW p \in Ports, LinkAdd(l, p)
    PROVE  HostTypeOK'
<1>1. IsPartial(topo_inter_link', Pairs, Ports)
  BY WithIsPartial DEF HostTypeOK, LinkAdd
<1>2. IsPartial(topo_access_link', Pairs, Ports) /\ overdue' \subseteq DOMAIN topo_access_link'
  BY DEF HostTypeOK, LinkAdd, IsPartial
<1>3. permanent_link_ports' \subseteq Switches \X Ports
  <2>1. <<l[1], p>> \in Switches \X Ports
    BY PairOf
  <2>2. permanent_link_ports' = permanent_link_ports \cup {<<l[1], p>>}
    BY DEF LinkAdd, Mark
  <2> QED BY <2>1, <2>2 DEF HostTypeOK
<1>4. host_to_sw_port' \subseteq host_to_sw_port /\ graph' \subseteq Pairs
  BY DEF HostTypeOK, LinkAdd, Mark, Purged
<1> QED BY <1>1, <1>2, <1>3, <1>4 DEF HostTypeOK, LinkAdd, history

LEMMA TypeLinkEnds ==
    ASSUME HostTypeOK, NEW l \in Pairs, LinkDelete(l) \/ Silence(l) \/ Timeout(l)
    PROVE  HostTypeOK'
<1>1. CASE LinkDelete(l)
  <2>1. IsPartial(topo_inter_link', Pairs, Ports)
    BY <1>1, WithoutIsPartial DEF HostTypeOK, LinkDelete
  <2> QED BY <1>1, <2>1 DEF HostTypeOK, LinkDelete, GraphWithout, hostVars
<1>2. CASE Silence(l)
  BY <1>2 DEF HostTypeOK, Silence, hostVars, history
<1>3. CASE Timeout(l)
  <2>1. IsPartial(topo_access_link', Pairs, Ports)
    BY <1>3, WithoutIsPartial DEF HostTypeOK, Timeout
  <2>2. overdue' \subseteq DOMAIN topo_access_link'
    BY <1>3 DEF HostTypeOK, Timeout, Without
  <2> QED BY <1>3, <2>1, <2>2 DEF HostTypeOK, Timeout, GraphWithout, hostVars, history
<1> QED BY <1>1, <1>2, <1>3

LEMMA TypeLldp ==
    ASSUME HostTypeOK, NEW l \in Pairs, NEW p \in Ports, LldpIn(l[1], p, l[2])
    PROVE  HostTypeOK'
<1>1. l = <<l[1], l[2]>> /\ l[1] \in Switches
  BY PairOf
<1>2. IsPartial(With(topo_access_link, l, p), Pairs, Ports)
  BY WithIsPartial DEF HostTypeOK
<1>3. IsPartial(topo_access_link', Pairs, Ports)
  BY <1>1, <1>2 DEF HostTypeOK, LldpIn
<1>4. overdue' \subseteq DOMAIN topo_access_link'
  BY <1>1 DEF HostTypeOK, LldpIn, With
<1>5. IsPartial(lldp_port', Pairs, Ports)
  BY <1>1, WithIsPartial DEF HostTypeOK, LldpIn
<1>6. graph' \subseteq Pairs
  BY <1>1 DEF HostTypeOK, LldpIn
<1> QED BY <1>1, <1>3, <1>4, <1>5, <1>6 DEF HostTypeOK, LldpIn, Mark, Purged

LEMMA TypePackets ==
    ASSUME HostTypeOK, NEW s \in Switches, NEW p \in Ports, NEW h \in Hosts,
           ExternalPacketIn(s, p, h) \/ Learn(s, p, h)
    PROVE  HostTypeOK'
<1>1. CASE ExternalPacketIn(s, p, h)
  BY <1>1 DEF HostTypeOK, ExternalPacketIn, Remember, linkVars, history
<1>2. CASE Learn(s, p, h)
  <2>1. s \in DOMAIN dpid_to_switch /\ host_to_sw_port' \subseteq host_to_sw_port \cup {<<s, p, h>>}
    BY <1>2 DEF Learn, Learned
  <2>2. UNCHANGED <<connection, dpid_to_switch, permanent_link_ports,
                    external_host_sources, linkVars, history>>
    BY <1>2 DEF Learn
  <2> QED BY <2>1, <2>2 DEF HostTypeOK, linkVars, history
<1> QED BY <1>1, <1>2

\* The tables keep their types; in particular hosts are recorded on known
\* switches only.
THEOREM TypeCorrect == HostSpec => []HostTypeOK
<1>1. HostTypeOK /\ [HostNext]_tableVars => HostTypeOK'
  <2> SUFFICES ASSUME HostTypeOK, [HostNext]_tableVars PROVE HostTypeOK'
    OBVIOUS
  <2>1. CASE UNCHANGED tableVars
    BY <2>1 DEF HostTypeOK, tableVars, hostVars, linkVars, history
  <2> QED
    BY <2>1, TypeSwitches, TypeLinkAdd, TypeLinkEnds, TypeLldp, TypePackets DEF HostNext
<1> QED BY <1>1, TypeInit, PTL DEF HostSpec

-----------------------------------------------------------------------------
(* Hosts and link ports *)

\* A marked port has no records; what an event does not mark it leaves as it was.
LEMMA MarkedHaveNoHosts ==
    ASSUME NEW ports, Mark(ports)
    PROVE  /\ permanent_link_ports' = permanent_link_ports \cup ports
           /\ \A r \in host_to_sw_port' :
                r \in host_to_sw_port /\ <<r[1], r[2]>> \notin ports
  BY DEF Mark, Purged

LEMMA PortsOfWith ==
    ASSUME NEW f, NEW x, NEW y
    PROVE  PortsOf(With(f, x, y)) \subseteq PortsOf(f) \cup {<<x[1], y>>}
  BY DEF PortsOf, With

LEMMA PortsOfWithout ==
    ASSUME NEW f, NEW x
    PROVE  PortsOf(Without(f, x)) \subseteq PortsOf(f)
  BY DEF PortsOf, Without

\* Every event that makes a port a link port takes the records off it, and none
\* puts a record on a link port.
LEMMA LinkPortsSwitches ==
    ASSUME HostTypeOK, NoHostOnLinkPort, NEW s \in Switches,
           SwitchEnter(s) \/ SwitchReconnected(s) \/ SwitchLeave(s)
    PROVE  NoHostOnLinkPort'
<1>1. CASE SwitchEnter(s)
  BY <1>1, MarkedHaveNoHosts
  DEF SwitchEnter, Connects, Known, linkVars, NoHostOnLinkPort, is_link_port
<1>2. CASE SwitchReconnected(s)
  BY <1>2 DEF SwitchReconnected, Connects, linkVars, NoHostOnLinkPort, is_link_port
<1>3. CASE SwitchLeave(s)
  <2>1. host_to_sw_port' \subseteq host_to_sw_port
        /\ permanent_link_ports' \subseteq permanent_link_ports
        /\ UNCHANGED linkVars
    BY <1>3 DEF SwitchLeave, LeaveHosts
  <2> QED BY <2>1 DEF linkVars, NoHostOnLinkPort, is_link_port
<1> QED BY <1>1, <1>2, <1>3

LEMMA LinkPortsLinks ==
    ASSUME HostTypeOK, NoHostOnLinkPort, NEW l \in Pairs,
           \/ \E p \in Ports : LinkAdd(l, p) \/ LldpIn(l[1], p, l[2])
           \/ LinkDelete(l) \/ Silence(l) \/ Timeout(l)
    PROVE  NoHostOnLinkPort'
<1>1. ASSUME NEW p \in Ports, LinkAdd(l, p) PROVE NoHostOnLinkPort'
  <2>1. PortsOf(topo_inter_link') \subseteq PortsOf(topo_inter_link) \cup {<<l[1], p>>}
    BY <1>1, PortsOfWith DEF LinkAdd
  <2>2. PortsOf(topo_access_link') \subseteq PortsOf(topo_access_link)
    BY <1>1 DEF LinkAdd, PortsOf
  <2>3. Mark({<<l[1], p>>})
    BY <1>1 DEF LinkAdd
  <2> QED BY <2>1, <2>2, <2>3, MarkedHaveNoHosts DEF NoHostOnLinkPort, is_link_port
<1>2. ASSUME NEW p \in Ports, LldpIn(l[1], p, l[2]) PROVE NoHostOnLinkPort'
  <2>1. PortsOf(topo_access_link') \subseteq PortsOf(topo_access_link) \cup {<<l[1], p>>}
    <3>1. l = <<l[1], l[2]>>
      BY PairOf
    <3> QED BY <1>2, <3>1, PortsOfWith DEF LldpIn
  <2>2. Mark({<<l[1], p>>}) /\ PortsOf(topo_inter_link') = PortsOf(topo_inter_link)
    BY <1>2 DEF LldpIn
  <2> QED BY <2>1, <2>2, MarkedHaveNoHosts DEF NoHostOnLinkPort, is_link_port
<1>3. ASSUME LinkDelete(l) \/ Silence(l) \/ Timeout(l) PROVE NoHostOnLinkPort'
  <2>1. /\ PortsOf(topo_inter_link') \subseteq PortsOf(topo_inter_link)
        /\ PortsOf(topo_access_link') \subseteq PortsOf(topo_access_link)
    BY <1>3, PortsOfWithout DEF LinkDelete, Silence, Timeout
  <2>2. UNCHANGED hostVars
    BY <1>3 DEF LinkDelete, Silence, Timeout
  <2> QED BY <2>1, <2>2 DEF hostVars, NoHostOnLinkPort, is_link_port
<1> QED BY <1>1, <1>2, <1>3

LEMMA LinkPortsPackets ==
    ASSUME HostTypeOK, NoHostOnLinkPort, NEW s \in Switches, NEW p \in Ports, NEW h \in Hosts,
           ExternalPacketIn(s, p, h) \/ Learn(s, p, h)
    PROVE  NoHostOnLinkPort'
<1>1. CASE ExternalPacketIn(s, p, h)
  BY <1>1 DEF ExternalPacketIn, Remember, linkVars, NoHostOnLinkPort, is_link_port
<1>2. CASE Learn(s, p, h)
  <2>1. ~is_link_port(s, p)
    BY <1>2 DEF Learn
  <2>2. \A r \in host_to_sw_port' : r \in host_to_sw_port \/ (r[1] = s /\ r[2] = p)
    BY <1>2 DEF Learn, Learned
  <2>3. UNCHANGED permanent_link_ports /\ UNCHANGED linkVars
    BY <1>2 DEF Learn
  <2>4. \A x, y : is_link_port(x, y)' <=> is_link_port(x, y)
    BY <2>3 DEF linkVars, is_link_port, PortsOf
  <2> QED BY <2>1, <2>2, <2>4 DEF NoHostOnLinkPort
<1> QED BY <1>1, <1>2

\* Learning, migration, link discovery in either way and the coming and going of
\* switches never leave a host on a port known to lead to a switch.
THEOREM NoHostOnLinkPortHolds == HostSpec => []NoHostOnLinkPort
<1>1. HostInit => NoHostOnLinkPort
  BY DEF HostInit, NoHostOnLinkPort
<1>2. HostTypeOK /\ NoHostOnLinkPort /\ [HostNext]_tableVars => NoHostOnLinkPort'
  <2> SUFFICES ASSUME HostTypeOK, NoHostOnLinkPort, [HostNext]_tableVars PROVE NoHostOnLinkPort'
    OBVIOUS
  <2>1. CASE UNCHANGED tableVars
    BY <2>1 DEF tableVars, hostVars, linkVars, NoHostOnLinkPort, is_link_port
  <2> QED BY <2>1, LinkPortsSwitches, LinkPortsLinks, LinkPortsPackets DEF HostNext
<1> QED BY <1>1, <1>2, TypeCorrect, PTL DEF HostSpec

-----------------------------------------------------------------------------
(* One place for each host *)

\* Fewer records, or the same, are still in one place each.
LEMMA FewerInOnePlace ==
    ASSUME OnePlace, host_to_sw_port' \subseteq host_to_sw_port
    PROVE  OnePlace'
  BY DEF OnePlace

\* The one other record of the host, if there is one, is the one that goes.
LEMMA LearnInOnePlace ==
    ASSUME HostTypeOK, OnePlace,
           NEW s \in Switches, NEW p \in Ports, NEW h \in Hosts, Learn(s, p, h)
    PROVE  OnePlace'
<1>1. \A r \in host_to_sw_port : r = <<r[1], r[2], r[3]>>
  BY DEF HostTypeOK
<1>2. PICK gone : /\ host_to_sw_port' = Learned(s, p, h, gone)
                  /\ Moved(s, p, h) \subseteq gone
  <2>1. CASE Moved(s, p, h) = {}
    BY <2>1 DEF Learn
  <2>2. CASE Moved(s, p, h) # {}
    <3>1. PICK r \in Moved(s, p, h) : host_to_sw_port' = Learned(s, p, h, {r})
      BY <2>2 DEF Learn
    <3>2. \A q \in Moved(s, p, h) : q = r
      BY DEF Moved, OnePlace
    <3> QED BY <3>1, <3>2
  <2> QED BY <2>1, <2>2
<1>3. \A r \in host_to_sw_port' :
        \/ r = <<s, p, h>>
        \/ /\ r \in host_to_sw_port
           /\ r \notin Moved(s, p, h)
           /\ <<r[1], r[2]>> # <<s, p>> \/ Mac[r[3]] # Mac[h]
  BY <1>2 DEF Learned
<1>4. \A r \in host_to_sw_port' :
        r # <<s, p, h>> =>
            /\ r \in host_to_sw_port
            /\ r[3] # h
            /\ <<r[1], r[2]>> # <<s, p>> \/ Mac[r[3]] # Mac[h]
  BY <1>1, <1>3 DEF Moved
<1> SUFFICES ASSUME NEW r \in host_to_sw_port', NEW q \in host_to_sw_port',
                    \/ r[3] = q[3]
                    \/ <<r[1], r[2]>> = <<q[1], q[2]>> /\ Mac[r[3]] = Mac[q[3]]
             PROVE  r = q
  BY DEF OnePlace
<1>5. CASE r # <<s, p, h>> /\ q # <<s, p, h>>
  BY <1>4, <1>5 DEF OnePlace
<1>6. CASE r = <<s, p, h>> /\ q # <<s, p, h>>
  BY <1>4, <1>6
<1>7. CASE r # <<s, p, h>> /\ q = <<s, p, h>>
  BY <1>4, <1>7
<1> QED BY <1>5, <1>6, <1>7

\* A migrating host leaves its old place, and a port's record for a MAC address is
\* replaced when the address comes with another IP address.
THEOREM OnePlaceHolds == HostSpec => []OnePlace
<1>1. HostInit => OnePlace
  BY DEF HostInit, OnePlace
<1>2. HostTypeOK /\ OnePlace /\ [HostNext]_tableVars => OnePlace'
  <2> SUFFICES ASSUME HostTypeOK, OnePlace, [HostNext]_tableVars PROVE OnePlace'
    OBVIOUS
  <2>1. CASE UNCHANGED tableVars
    BY <2>1 DEF tableVars, hostVars, OnePlace
  <2>2. ASSUME NEW s \in Switches, SwitchEnter(s) \/ SwitchReconnected(s) \/ SwitchLeave(s)
        PROVE  OnePlace'
    <3>1. host_to_sw_port' \subseteq host_to_sw_port
      BY <2>2 DEF SwitchEnter, Known, Mark, Purged, SwitchReconnected, SwitchLeave, LeaveHosts
    <3> QED BY <3>1, FewerInOnePlace
  <2>3. ASSUME NEW l \in Pairs,
               \/ LinkDelete(l) \/ Silence(l) \/ Timeout(l)
               \/ \E p \in Ports : LinkAdd(l, p) \/ LldpIn(l[1], p, l[2])
        PROVE  OnePlace'
    <3>1. host_to_sw_port' \subseteq host_to_sw_port
      BY <2>3 DEF LinkDelete, Silence, Timeout, hostVars, LinkAdd, LldpIn, Mark, Purged
    <3> QED BY <3>1, FewerInOnePlace
  <2>4. ASSUME NEW s \in Switches, NEW p \in Ports, NEW h \in Hosts, ExternalPacketIn(s, p, h)
        PROVE  OnePlace'
    <3>1. host_to_sw_port' \subseteq host_to_sw_port
      BY <2>4 DEF ExternalPacketIn, Remember
    <3> QED BY <3>1, FewerInOnePlace
  <2> QED BY <2>1, <2>2, <2>3, <2>4, LearnInOnePlace DEF HostNext
<1> QED BY <1>1, <1>2, TypeCorrect, PTL DEF HostSpec

-----------------------------------------------------------------------------
(* External sources *)

\* Remembering a source purges what was learned of it on virtual switches, and
\* nothing of it is learned there afterwards.
THEOREM ExternalNotLearnedHolds == HostSpec => []ExternalNotLearned
<1>1. HostInit => ExternalNotLearned
  BY DEF HostInit, ExternalNotLearned
<1>2. HostTypeOK /\ ExternalNotLearned /\ [HostNext]_tableVars => ExternalNotLearned'
  <2> SUFFICES ASSUME HostTypeOK, ExternalNotLearned, [HostNext]_tableVars PROVE ExternalNotLearned'
    OBVIOUS
  <2>1. CASE UNCHANGED tableVars
    BY <2>1 DEF tableVars, hostVars, ExternalNotLearned
  <2>2. ASSUME NEW s \in Switches, SwitchEnter(s) \/ SwitchReconnected(s) \/ SwitchLeave(s)
        PROVE  ExternalNotLearned'
    <3>1. host_to_sw_port' \subseteq host_to_sw_port /\ UNCHANGED external_host_sources
      BY <2>2 DEF SwitchEnter, Connects, Known, Mark, Purged, SwitchReconnected,
                  SwitchLeave, LeaveHosts
    <3> QED BY <3>1 DEF ExternalNotLearned
  <2>3. ASSUME NEW l \in Pairs,
               \/ LinkDelete(l) \/ Silence(l) \/ Timeout(l)
               \/ \E p \in Ports : LinkAdd(l, p) \/ LldpIn(l[1], p, l[2])
        PROVE  ExternalNotLearned'
    <3>1. host_to_sw_port' \subseteq host_to_sw_port /\ UNCHANGED external_host_sources
      BY <2>3 DEF LinkDelete, Silence, Timeout, hostVars, LinkAdd, LldpIn, Mark, Purged
    <3> QED BY <3>1 DEF ExternalNotLearned
  <2>4. ASSUME NEW s \in Switches, NEW p \in Ports, NEW h \in Hosts, ExternalPacketIn(s, p, h)
        PROVE  ExternalNotLearned'
    BY <2>4 DEF ExternalPacketIn, Remember, ExternalNotLearned
  <2>5. ASSUME NEW s \in Switches, NEW p \in Ports, NEW h \in Hosts, Learn(s, p, h)
        PROVE  ExternalNotLearned'
    <3>1. \A r \in host_to_sw_port' : r \in host_to_sw_port \/ (r[1] = s /\ r[3] = h)
      BY <2>5 DEF Learn, Learned
    <3>2. ~Skip(s, h) /\ UNCHANGED external_host_sources
      BY <2>5 DEF Learn
    <3> QED BY <3>1, <3>2 DEF Skip, ExternalNotLearned
  <2> QED BY <2>1, <2>2, <2>3, <2>4, <2>5 DEF HostNext
<1> QED BY <1>1, <1>2, TypeCorrect, PTL DEF HostSpec

\* The records of hosts: typed, each on a port that leads to no switch, one for each
\* host, and none of a source seen outside on a virtual switch.
THEOREM HostInvHolds == HostSpec => []HostInv
<1>1. HostTypeOK /\ NoHostOnLinkPort /\ OnePlace /\ ExternalNotLearned => HostInv
  BY DEF HostInv
<1> QED
  BY <1>1, TypeCorrect, NoHostOnLinkPortHolds, OnePlaceHolds, ExternalNotLearnedHolds, PTL

-----------------------------------------------------------------------------
(* Links *)

\* The graph has only known links, and a pair of switches is never joined by a
\* link of both kinds.
THEOREM LinksConsistentHolds == HostSpec => []LinksConsistent
<1>1. HostInit => LinksConsistent
  BY DEF HostInit, LinksConsistent, Nothing
<1>2. HostTypeOK /\ LinksConsistent /\ [HostNext]_tableVars => LinksConsistent'
  <2> SUFFICES ASSUME HostTypeOK, LinksConsistent, [HostNext]_tableVars PROVE LinksConsistent'
    OBVIOUS
  <2>1. CASE UNCHANGED linkVars
    BY <2>1 DEF linkVars, LinksConsistent
  <2>2. ASSUME NEW l \in Pairs, NEW p \in Ports, LinkAdd(l, p) PROVE LinksConsistent'
    <3>1. /\ DOMAIN topo_inter_link' = DOMAIN topo_inter_link \cup {l}
          /\ DOMAIN topo_access_link' = DOMAIN topo_access_link \ Rivals(l)
      BY <2>2 DEF LinkAdd, With
    <3>2. graph' \subseteq (graph \cup {l}) \ (Rivals(l) \cap DOMAIN topo_access_link)
      BY <2>2 DEF LinkAdd
    <3> QED BY <3>1, <3>2 DEF LinksConsistent
  <2>3. ASSUME NEW l \in Pairs, NEW p \in Ports, LldpIn(l[1], p, l[2]) PROVE LinksConsistent'
    <3>1. l = <<l[1], l[2]>>
      BY PairOf
    <3>2. /\ Rivals(l) \cap DOMAIN topo_inter_link = {}
          /\ DOMAIN topo_access_link' = DOMAIN topo_access_link \cup {l}
          /\ UNCHANGED topo_inter_link
          /\ graph' \subseteq graph \cup {l}
      BY <2>3, <3>1 DEF LldpIn, With
    <3>3. \A k \in DOMAIN topo_inter_link : l \notin Rivals(k)
      <4> SUFFICES ASSUME NEW k \in DOMAIN topo_inter_link, l \in Rivals(k) PROVE FALSE
        OBVIOUS
      <4>1. k \in Pairs
        BY DEF HostTypeOK, IsPartial
      <4>2. k \in Rivals(l)
        BY <4>1, PairOf DEF Rivals
      <4> QED BY <4>2, <3>2
    <3> QED BY <3>2, <3>3 DEF LinksConsistent
  <2>4. ASSUME NEW l \in Pairs, LinkDelete(l) PROVE LinksConsistent'
    BY <2>4 DEF LinkDelete, GraphWithout, Without, LinksConsistent
  <2>5. ASSUME NEW l \in Pairs, Timeout(l) PROVE LinksConsistent'
    BY <2>5 DEF Timeout, GraphWithout, Without, LinksConsistent
  <2>6. ASSUME NEW l \in Pairs, Silence(l) PROVE LinksConsistent'
    BY <2>6 DEF Silence, LinksConsistent
  <2>7. ASSUME NEW s \in Switches, SwitchEnter(s) \/ SwitchReconnected(s) \/ SwitchLeave(s)
        PROVE  UNCHANGED linkVars
    BY <2>7 DEF SwitchEnter, Connects, SwitchReconnected, SwitchLeave
  <2>8. ASSUME NEW s \in Switches, NEW p \in Ports, NEW h \in Hosts,
               ExternalPacketIn(s, p, h) \/ Learn(s, p, h)
        PROVE  UNCHANGED linkVars
    BY <2>8 DEF ExternalPacketIn, Learn
  <2>9. UNCHANGED tableVars => UNCHANGED linkVars
    BY DEF tableVars
  <2> QED BY <2>1, <2>2, <2>3, <2>4, <2>5, <2>6, <2>7, <2>8, <2>9 DEF HostNext
<1> QED BY <1>1, <1>2, TypeCorrect, PTL DEF HostSpec
=============================================================================
