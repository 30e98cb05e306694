------------------------ MODULE RouteSessions_proofs ------------------------
(***************************************************************************)
(* Proofs about the session store of RouteSessions, for all switches, keys,*)
(* routes, foreign session ids and limits.                                 *)
(***************************************************************************)
EXTENDS RouteSessions, TLAPS

\* Recording adds or replaces one session, of the key it is called with.
LEMMA RecordChangesOne ==
    ASSUME NEW k, NEW p, NEW ms, NEW preferred, NEW d, Record(k, p, ms, preferred, d)
    PROVE  \A s \in DOMAIN route_sessions' :
              \/ s \in DOMAIN route_sessions /\ route_sessions'[s] = route_sessions[s]
              \/ s = SidFor(k, preferred) /\ route_sessions'[s] = Session(k, p, ms, d)
<1> DEFINE sid == SidFor(k, preferred)
           kept == Kept(DOMAIN route_sessions \cup {sid})
<1>1. CASE UNCHANGED route_sessions
  BY <1>1
<1>2. CASE route_sessions' = [s \in kept |->
                IF s = sid THEN Session(k, p, ms, d) ELSE route_sessions[s]]
  <2>1. kept \subseteq DOMAIN route_sessions \cup {sid}
    BY DEF Kept
  <2> QED BY <1>2, <2>1
<1> QED BY <1>1, <1>2 DEF Record

\* Recording uses the session of the key if there is one, whatever sid the
\* caller prefers, so it makes no second one.
LEMMA RecordKeepsOne ==
    ASSUME OneSessionPerKey,
           NEW k, NEW p, NEW ms, NEW preferred, NEW d, Record(k, p, ms, preferred, d)
    PROVE  OneSessionPerKey'
<1>1. \A s \in DOMAIN route_sessions :
        route_sessions[s].key = k => s = SidFor(k, preferred)
  <2> SUFFICES ASSUME NEW s \in DOMAIN route_sessions, route_sessions[s].key = k
               PROVE  s = SidFor(k, preferred)
    OBVIOUS
  <2>1. s \in SidsOf(k)
    BY DEF SidsOf
  <2>2. SidFor(k, preferred) \in SidsOf(k)
    BY <2>1 DEF SidFor
  <2> QED BY <2>2 DEF SidsOf, OneSessionPerKey
<1>2. \A s \in DOMAIN route_sessions' :
        \/ s \in DOMAIN route_sessions /\ route_sessions'[s] = route_sessions[s]
        \/ s = SidFor(k, preferred) /\ route_sessions'[s].key = k
  BY RecordChangesOne DEF Session
<1> QED BY <1>1, <1>2 DEF OneSessionPerKey

\* A step that only forgets sessions, or changes one without changing its key.
LEMMA FewerKeepOne ==
    ASSUME OneSessionPerKey,
           \A s \in DOMAIN route_sessions' :
              s \in DOMAIN route_sessions /\ route_sessions'[s].key = route_sessions[s].key
    PROVE  OneSessionPerKey'
  BY DEF OneSessionPerKey

\* A link failure gives every session it touches a new path or removes it.
LEMMA LinkDeleteSessions ==
    ASSUME NEW u \in Switches, NEW v \in Switches, LinkDelete(u, v)
    PROVE  \A s \in DOMAIN route_sessions' :
              /\ s \in DOMAIN route_sessions
              /\ route_sessions'[s].key = route_sessions[s].key
              /\ \/ /\ route_sessions'[s] = route_sessions[s]
                    /\ ~Uses(route_sessions[s].path, u, v)
                 \/ HopsOf(route_sessions'[s].path) \subseteq graph'
<1> DEFINE hit      == {s \in DOMAIN route_sessions : Uses(route_sessions[s].path, u, v)}
           routable == {s \in hit : /\ route_sessions[s].key \in LocalKeys
                                    /\ Shortest(route_sessions[s].key, graph') # {}}
<1>1. PICK new \in [routable -> UNION {Routes[k] : k \in LocalKeys}] :
        /\ \A s \in routable : new[s] \in Shortest(route_sessions[s].key, graph')
        /\ Reroute(hit, new)
  BY DEF LinkDelete
<1>2. DOMAIN new = routable
  OBVIOUS
<1>3. route_sessions' =
        [s \in (DOMAIN route_sessions \ hit) \cup DOMAIN new |->
           IF s \in DOMAIN new
           THEN Session(route_sessions[s].key, new[s],
                        Matches(EndFlows(route_sessions[s].key, new[s], graph')), FALSE)
           ELSE route_sessions[s]]
  BY <1>1 DEF Reroute
<1> HIDE DEF hit, routable
<1>4. \A s \in DOMAIN route_sessions' :
        \/ s \in DOMAIN route_sessions \ hit /\ route_sessions'[s] = route_sessions[s]
        \/ s \in routable /\ route_sessions'[s].key = route_sessions[s].key
                          /\ route_sessions'[s].path = new[s]
  BY <1>2, <1>3 DEF Session
<1>5. \A s \in routable : /\ s \in DOMAIN route_sessions
                          /\ HopsOf(new[s]) \subseteq graph'
  BY <1>1 DEF Shortest, routable, hit
<1> QED BY <1>4, <1>5 DEF hit

LEMMA OneSessionStep == OneSessionPerKey /\ [Next]_vars => OneSessionPerKey'
<1> SUFFICES ASSUME OneSessionPerKey, [Next]_vars PROVE OneSessionPerKey'
  OBVIOUS
<1>1. CASE \E k \in Keys : LocalRoute(k)
  <2>1. PICK k \in Keys : LocalRoute(k)
    BY <1>1
  <2>2. CASE UNCHANGED route_sessions
    BY <2>2 DEF OneSessionPerKey
  <2>3. CASE \E p \in Shortest(k, graph) :
               Record(k, p, Matches(EndFlows(k, p, graph)), 0, FALSE)
    BY <2>3, RecordKeepsOne
  <2> QED BY <2>1, <2>2, <2>3 DEF LocalRoute
<1>2. CASE ServerPathDone
  BY <1>2, RecordKeepsOne DEF ServerPathDone
<1>3. CASE \E m \in AllMatches : FlowRemoved(m)
  <2>1. PICK m \in AllMatches : FlowRemoved(m)
    BY <1>3
  <2>2. route_sessions' =
          [s \in {r \in DOMAIN route_sessions : ~HasFlow(r, m)} |-> route_sessions[s]]
    BY <2>1 DEF FlowRemoved
  <2> QED BY <2>2, FewerKeepOne
<1>4. CASE \E u, v \in Switches : LinkDelete(u, v)
  BY <1>4, LinkDeleteSessions, FewerKeepOne
<1>5. CASE UNCHANGED route_sessions
  BY <1>5 DEF OneSessionPerKey
<1>6. CASE \/ \E k \in Keys : RemoteRoute(k)
           \/ \E w \in AccessSwitches : OtherRoute(w)
           \/ \E f \in table : Expire(f)
           \/ \E u, v \in Switches : LinkAdd(u, v)
           \/ ServerPath
  <2>1. UNCHANGED route_sessions
    BY <1>6 DEF RemoteRoute, OtherRoute, Expire, LinkAdd, ServerPath
  <2> QED BY <2>1, <1>5
<1> QED BY <1>1, <1>2, <1>3, <1>4, <1>5, <1>6 DEF Next, vars

\* A key never has two sessions, whatever becomes of old answers, hints and
\* the session ids of other controllers.
THEOREM OneSessionPerKeyHolds == Spec => []OneSessionPerKey
<1>1. Init => OneSessionPerKey
  BY DEF Init, OneSessionPerKey
<1> QED BY <1>1, OneSessionStep, PTL DEF Spec

-----------------------------------------------------------------------------
\* LocalPathsUp rests on this: the server is asked, and sends paths, only for
\* keys that are not local, so its stale paths never become local sessions.
NoLocalKeyAsked ==
    /\ \A a \in asked : a[1] \notin LocalKeys
    /\ \A i \in install : i.key \notin LocalKeys

LocalInv == LocalPathsUp /\ NoLocalKeyAsked

\* A path that is up, or belongs to a key that is not local, may be recorded.
LEMMA RecordKeepsUp ==
    ASSUME LocalPathsUp, UNCHANGED graph,
           NEW k, NEW p, NEW ms, NEW preferred, NEW d, Record(k, p, ms, preferred, d),
           k \in LocalKeys => HopsOf(p) \subseteq graph
    PROVE  LocalPathsUp'
<1>1. \A s \in DOMAIN route_sessions' :
        \/ s \in DOMAIN route_sessions /\ route_sessions'[s] = route_sessions[s]
        \/ route_sessions'[s].key = k /\ route_sessions'[s].path = p
  BY RecordChangesOne DEF Session
<1> QED BY <1>1 DEF LocalPathsUp

LEMMA LocalStep == LocalInv /\ [Next]_vars => LocalInv'
<1> SUFFICES ASSUME LocalInv, [Next]_vars PROVE LocalInv'
  OBVIOUS
<1> USE DEF LocalInv
<1>1. CASE \E k \in Keys : LocalRoute(k)
  <2>1. PICK k \in Keys : LocalRoute(k)
    BY <1>1
  <2>2. UNCHANGED <<graph, asked, install>>
    BY <2>1 DEF LocalRoute
  <2>3. CASE UNCHANGED route_sessions
    BY <2>2, <2>3 DEF LocalPathsUp, NoLocalKeyAsked
  <2>4. CASE \E p \in Shortest(k, graph) :
               Record(k, p, Matches(EndFlows(k, p, graph)), 0, FALSE)
    <3>1. PICK p \in Shortest(k, graph) :
             Record(k, p, Matches(EndFlows(k, p, graph)), 0, FALSE)
      BY <2>4
    <3>2. HopsOf(p) \subseteq graph
      BY DEF Shortest
    <3>3. LocalPathsUp'
      BY <2>2, <3>1, <3>2, RecordKeepsUp
    <3> QED BY <2>2, <3>3 DEF NoLocalKeyAsked
  <2> QED BY <2>1, <2>3, <2>4 DEF LocalRoute
<1>2. CASE ServerPathDone
  <2>1. PICK i \in install : Record(i.key, i.path, UNION tracking, i.sid, disturbed)
    BY <1>2 DEF ServerPathDone
  <2>2. UNCHANGED <<graph, asked>> /\ install' = {}
    BY <1>2 DEF ServerPathDone
  <2>3. i.key \notin LocalKeys
    BY DEF NoLocalKeyAsked
  <2>4. LocalPathsUp'
    BY <2>1, <2>2, <2>3, RecordKeepsUp
  <2> QED BY <2>2, <2>4 DEF NoLocalKeyAsked
<1>3. CASE \E m \in AllMatches : FlowRemoved(m)
  <2>1. PICK m \in AllMatches : FlowRemoved(m)
    BY <1>3
  <2>2. /\ UNCHANGED <<graph, asked, install>>
        /\ route_sessions' =
             [s \in {r \in DOMAIN route_sessions : ~HasFlow(r, m)} |-> route_sessions[s]]
    BY <2>1 DEF FlowRemoved
  <2> QED BY <2>2 DEF LocalPathsUp, NoLocalKeyAsked
<1>4. CASE \E u, v \in Switches : LinkDelete(u, v)
  <2>1. PICK u \in Switches, v \in Switches : LinkDelete(u, v)
    BY <1>4
  <2>2. graph' = graph \ {<<u, v>>} /\ UNCHANGED install
    BY <2>1 DEF LinkDelete
  <2>3. \A s \in DOMAIN route_sessions' :
          /\ s \in DOMAIN route_sessions
          /\ route_sessions'[s].key = route_sessions[s].key
          /\ \/ /\ route_sessions'[s] = route_sessions[s]
                /\ ~Uses(route_sessions[s].path, u, v)
             \/ HopsOf(route_sessions'[s].path) \subseteq graph'
    BY <2>1, LinkDeleteSessions
  <2>4. LocalPathsUp'
    <3> SUFFICES ASSUME NEW s \in DOMAIN route_sessions',
                        route_sessions'[s].key \in LocalKeys,
                        route_sessions'[s] = route_sessions[s],
                        ~Uses(route_sessions[s].path, u, v)
                 PROVE  HopsOf(route_sessions[s].path) \subseteq graph'
      BY <2>3 DEF LocalPathsUp
    <3>1. HopsOf(route_sessions[s].path) \subseteq graph
      BY <2>3 DEF LocalPathsUp
    <3>2. <<u, v>> \notin HopsOf(route_sessions[s].path)
      BY DEF Uses
    <3> QED BY <2>2, <3>1, <3>2
  <2>5. \A a \in asked' : a \in asked \/ a[1] \notin LocalKeys
    <3> DEFINE hit == {s \in DOMAIN route_sessions : Uses(route_sessions[s].path, u, v)}
               local == {s \in hit : route_sessions[s].key \in LocalKeys}
    <3>1. asked' = asked \cup {<<route_sessions[s].key, s>> : s \in hit \ local}
      BY <2>1 DEF LinkDelete, Reroute
    <3> QED BY <3>1
  <2> QED BY <2>2, <2>4, <2>5 DEF NoLocalKeyAsked
<1>5. CASE \E u, v \in Switches : LinkAdd(u, v)
  BY <1>5 DEF LinkAdd, LocalPathsUp, NoLocalKeyAsked
<1>6. CASE ServerPath
  <2>1. PICK r \in Incoming : \E p \in Routes[r[1]] :
          asked' = asked \ {r} /\ install' = {[key |-> r[1], path |-> p, sid |-> r[2]]}
    BY <1>6 DEF ServerPath
  <2>2. r[1] \notin LocalKeys
    BY <2>1 DEF Incoming, NoLocalKeyAsked
  <2>3. NoLocalKeyAsked'
    BY <2>1, <2>2 DEF NoLocalKeyAsked
  <2> QED BY <1>6, <2>3 DEF ServerPath, LocalPathsUp
<1>7. CASE \E k \in Keys : RemoteRoute(k)
  BY <1>7 DEF RemoteRoute, LocalPathsUp, NoLocalKeyAsked
<1>8. CASE \/ \E w \in AccessSwitches : OtherRoute(w)
           \/ \E f \in table : Expire(f)
           \/ UNCHANGED vars
  <2>1. UNCHANGED <<graph, route_sessions, asked, install>>
    BY <1>8 DEF OtherRoute, Expire, vars
  <2> QED BY <2>1 DEF LocalPathsUp, NoLocalKeyAsked
<1> QED BY <1>1, <1>2, <1>3, <1>4, <1>5, <1>6, <1>7, <1>8 DEF Next

\* A local session's path is up: every failed link takes its sessions with it or
\* moves them, and no stale path of the server replaces them.
THEOREM LocalPathsUpHolds == Spec => []LocalPathsUp
<1>1. Init => LocalInv
  BY DEF Init, LocalInv, LocalPathsUp, NoLocalKeyAsked
<1>2. LocalInv => LocalPathsUp
  BY DEF LocalInv
<1> QED BY <1>1, <1>2, LocalStep, PTL DEF Spec

-----------------------------------------------------------------------------
\* SidKeepsKey rests on this: a sid of this controller that is in use anywhere has
\* been given out, so the next one is new.
GivenOut(n) == n \in ForeignSids \/ (n \in Nat /\ n < next_sid)

SidInv ==
    /\ SidKeepsKey
    /\ next_sid \in Nat
    /\ \A c \in Claims : GivenOut(c[2])

\* A pair of a key and a sid that the controller may use, or a sid of another's.
Allowed(k, s) == s \in ForeignSids \/ \E c \in Claims : c[1] = k /\ c[2] = s

\* ... or the next sid, for a key of K.
Allows(K, k, s) == Allowed(k, s) \/ (k \in K /\ s = next_sid)

LEMMA NoNewClaims ==
    ASSUME SidInv, next_sid' = next_sid, \A c \in Claims' : Allows({}, c[1], c[2])
    PROVE  SidInv'
  BY DEF SidInv, SidKeepsKey, Allows, Allowed, GivenOut

\* The next sid goes to one key.
LEMMA OneNewClaim ==
    ASSUME SidInv, next_sid' = next_sid + 1, NEW k,
           \A c \in Claims' : Allows({k}, c[1], c[2])
    PROVE  SidInv'
<1>1. \A c \in Claims' : GivenOut(c[2])'
  BY DEF SidInv, Allows, Allowed, GivenOut
<1>2. ASSUME NEW c \in Claims', c[2] \notin ForeignSids, c[2] # next_sid
      PROVE  \E e \in Claims : e[1] = c[1] /\ e[2] = c[2]
  BY <1>2 DEF Allows, Allowed
<1>3. ASSUME NEW c \in Claims', c[2] \notin ForeignSids, c[2] = next_sid
      PROVE  c[1] = k
  BY <1>3 DEF Allows, Allowed, SidInv, GivenOut
<1>4. SidKeepsKey'
  <2> SUFFICES ASSUME NEW c \in Claims', NEW d \in Claims', c[2] = d[2], c[2] \notin ForeignSids
               PROVE  c[1] = d[1]
    BY DEF SidKeepsKey
  <2>1. CASE c[2] = next_sid
    <3>1. c[1] = k BY <1>3, <2>1
    <3>2. d[1] = k BY <1>3, <2>1
    <3> QED BY <3>1, <3>2
  <2>2. CASE c[2] # next_sid
    <3>1. PICK e \in Claims : e[1] = c[1] /\ e[2] = c[2]
      BY <1>2, <2>2
    <3>2. PICK f \in Claims : f[1] = d[1] /\ f[2] = d[2]
      BY <1>2, <2>2
    <3> QED BY <3>1, <3>2 DEF SidInv, SidKeepsKey
  <2> QED BY <2>1, <2>2
<1> QED BY <1>1, <1>4 DEF SidInv

LEMMA SessionClaim == \A s \in DOMAIN route_sessions : Allowed(route_sessions[s].key, s)
<1> SUFFICES ASSUME NEW s \in DOMAIN route_sessions PROVE Allowed(route_sessions[s].key, s)
  OBVIOUS
<1>1. <<route_sessions[s].key, s>> \in Claims
  BY DEF Claims
<1> QED BY <1>1 DEF Allowed

LEMMA HintClaim == \A k \in DOMAIN hints : Allowed(k, hints[k])
<1> SUFFICES ASSUME NEW k \in DOMAIN hints PROVE Allowed(k, hints[k])
  OBVIOUS
<1>1. <<k, hints[k]>> \in Claims
  BY DEF Claims
<1> QED BY <1>1 DEF Allowed

LEMMA AskedClaim == \A r \in asked : r[2] # 0 => Allowed(r[1], r[2])
  BY DEF Claims, Allowed

LEMMA InstallClaim == \A i \in install : i.sid # 0 => Allowed(i.key, i.sid)
<1> SUFFICES ASSUME NEW i \in install, i.sid # 0 PROVE Allowed(i.key, i.sid)
  OBVIOUS
<1>1. <<i.key, i.sid>> \in Claims
  BY DEF Claims
<1> QED BY <1>1 DEF Allowed

\* What Claims holds after a step, part by part.
LEMMA ClaimsNext ==
    ASSUME NEW K,
           \A s \in DOMAIN route_sessions' : Allows(K, route_sessions'[s].key, s),
           \A k \in DOMAIN hints' : Allows(K, k, hints'[k]),
           \A r \in asked' : r[2] # 0 => Allows(K, r[1], r[2]),
           \A i \in install' : i.sid # 0 => Allows(K, i.key, i.sid)
    PROVE  \A c \in Claims' : Allows(K, c[1], c[2])
<1> SUFFICES ASSUME NEW c \in Claims' PROVE Allows(K, c[1], c[2])
  OBVIOUS
<1>1. CASE c \in {<<route_sessions'[s].key, s>> : s \in DOMAIN route_sessions'}
  <2>1. PICK s \in DOMAIN route_sessions' : c = <<route_sessions'[s].key, s>>
    BY <1>1
  <2> QED BY <2>1
<1>2. CASE c \in {<<k, hints'[k]>> : k \in DOMAIN hints'}
  <2>1. PICK k \in DOMAIN hints' : c = <<k, hints'[k]>>
    BY <1>2
  <2> QED BY <2>1
<1>3. CASE c \in {r \in asked' : r[2] # 0}
  BY <1>3
<1>4. CASE c \in {<<i.key, i.sid>> : i \in {j \in install' : j.sid # 0}}
  <2>1. PICK i \in install' : i.sid # 0 /\ c = <<i.key, i.sid>>
    BY <1>4
  <2> QED BY <2>1
<1> QED BY <1>1, <1>2, <1>3, <1>4 DEF Claims

\* _record_route_session uses a sid the key has, is called with, or has a hint for;
\* if there is none, the next one.
LEMMA RecordClaims ==
    ASSUME SidInv, NEW k, NEW p, NEW ms, NEW preferred, NEW d, Record(k, p, ms, preferred, d),
           preferred # 0 => Allowed(k, preferred),
           \A r \in asked' : r[2] # 0 => Allowed(r[1], r[2]),
           \A i \in install' : i.sid # 0 => Allowed(i.key, i.sid)
    PROVE  SidInv'
<1> DEFINE sid == SidFor(k, preferred)
           isNew == SidsOf(k) = {} /\ preferred = 0 /\ k \notin DOMAIN hints
<1>1. \A j \in DOMAIN hints' : Allowed(j, hints'[j])
  BY HintClaim DEF Record
<1>2. ASSUME NEW K, Allows(K, k, sid)
      PROVE  \A c \in Claims' : Allows(K, c[1], c[2])
  <2>1. \A s \in DOMAIN route_sessions' :
          \/ s \in DOMAIN route_sessions /\ route_sessions'[s] = route_sessions[s]
          \/ s = sid /\ route_sessions'[s].key = k
    BY RecordChangesOne DEF Session
  <2>2. \A s \in DOMAIN route_sessions' : Allows(K, route_sessions'[s].key, s)
    BY <1>2, <2>1, SessionClaim DEF Allows
  <2>3. \A j \in DOMAIN hints' : Allows(K, j, hints'[j])
    BY <1>1 DEF Allows
  <2>4. /\ \A r \in asked' : r[2] # 0 => Allows(K, r[1], r[2])
        /\ \A i \in install' : i.sid # 0 => Allows(K, i.key, i.sid)
    BY DEF Allows
  <2> QED BY <2>2, <2>3, <2>4, ClaimsNext
<1>3. CASE isNew /\ next_sid' = next_sid + 1
  <2>1. sid = next_sid
    BY <1>3 DEF SidFor
  <2>2. Allows({k}, k, sid)
    BY <2>1 DEF Allows
  <2> QED BY <1>2, <1>3, <2>2, OneNewClaim
<1>4. CASE ~ isNew /\ next_sid' = next_sid
  <2> SUFFICES Allowed(k, sid)
    <3> SUFFICES ASSUME Allowed(k, sid) PROVE SidInv'
      OBVIOUS
    <3>1. Allows({}, k, sid)
      BY DEF Allows
    <3> HIDE DEF sid
    <3>2. \A c \in Claims' : Allows({}, c[1], c[2])
      BY <1>2, <3>1
    <3> QED BY <1>4, <3>2, NoNewClaims
  <2>1. CASE SidsOf(k) # {}
    <3>1. sid \in SidsOf(k)
      BY <2>1 DEF SidFor
    <3>2. sid \in DOMAIN route_sessions /\ route_sessions[sid].key = k
      BY <3>1 DEF SidsOf
    <3>3. Allowed(k, sid)
      BY <3>2, SessionClaim
    <3> QED BY <3>3
  <2>2. CASE SidsOf(k) = {} /\ preferred # 0
    <3>1. Allowed(k, sid)
      BY <2>2 DEF SidFor
    <3> QED BY <3>1
  <2>3. CASE SidsOf(k) = {} /\ preferred = 0 /\ k \in DOMAIN hints
    <3>1. Allowed(k, sid)
      BY <2>3, HintClaim DEF SidFor
    <3> QED BY <3>1
  <2> QED BY <1>4, <2>1, <2>2, <2>3
<1>5. CASE UNCHANGED <<route_sessions, next_sid, hints>>
  <2>1. \A s \in DOMAIN route_sessions' : Allows({}, route_sessions'[s].key, s)
    BY <1>5, SessionClaim DEF Allows
  <2>2. /\ \A j \in DOMAIN hints' : Allows({}, j, hints'[j])
        /\ \A r \in asked' : r[2] # 0 => Allows({}, r[1], r[2])
        /\ \A i \in install' : i.sid # 0 => Allows({}, i.key, i.sid)
    BY <1>1 DEF Allows
  <2> QED BY <1>5, <2>1, <2>2, ClaimsNext, NoNewClaims
<1> QED BY <1>3, <1>4, <1>5 DEF Record

\* A link failure passes the sids of the sessions it touches on to hints and requests.
LEMMA LinkDeleteClaims ==
    ASSUME SidInv, NEW u \in Switches, NEW v \in Switches, LinkDelete(u, v)
    PROVE  SidInv'
<1> DEFINE hit == {s \in DOMAIN route_sessions : Uses(route_sessions[s].path, u, v)}
<1>1. PICK new : Reroute(hit, new)
  BY DEF LinkDelete
<1>2. next_sid' = next_sid /\ install' = install
  BY DEF LinkDelete
<1>3. \A s \in hit : s \in DOMAIN route_sessions /\ Allowed(route_sessions[s].key, s)
  BY SessionClaim
<1> HIDE DEF hit
<1>4. \A s \in DOMAIN route_sessions' : Allows({}, route_sessions'[s].key, s)
  <2>1. \A s \in DOMAIN route_sessions' :
          s \in DOMAIN route_sessions /\ route_sessions'[s].key = route_sessions[s].key
    BY LinkDeleteSessions
  <2> QED BY <2>1, SessionClaim DEF Allows
<1>5. \A k \in DOMAIN hints' : Allows({}, k, hints'[k])
  <2>1. hints' = [k \in DOMAIN hints \cup {route_sessions[s].key : s \in hit} |->
                    IF \E s \in hit : route_sessions[s].key = k
                    THEN CHOOSE s \in hit : route_sessions[s].key = k
                    ELSE hints[k]]
    BY <1>1 DEF Reroute
  <2> SUFFICES ASSUME NEW k \in DOMAIN hints' PROVE Allowed(k, hints'[k])
    BY DEF Allows
  <2>2. CASE \E s \in hit : route_sessions[s].key = k
    <3>1. hints'[k] = CHOOSE s \in hit : route_sessions[s].key = k
      BY <2>1, <2>2
    <3>2. hints'[k] \in hit /\ route_sessions[hints'[k]].key = k
      BY <2>2, <3>1
    <3> QED BY <1>3, <3>2
  <2>3. CASE ~ \E s \in hit : route_sessions[s].key = k
    <3>1. k \in DOMAIN hints /\ hints'[k] = hints[k]
      BY <2>1, <2>3
    <3> QED BY <3>1, HintClaim
  <2> QED BY <2>2, <2>3
<1>6. \A r \in asked' : r[2] # 0 => Allows({}, r[1], r[2])
  <2>1. asked' \subseteq asked \cup {<<route_sessions[s].key, s>> : s \in hit}
    BY <1>1 DEF Reroute
  <2>2. \A r \in {<<route_sessions[s].key, s>> : s \in hit} : Allowed(r[1], r[2])
    BY <1>3
  <2> QED BY <2>1, <2>2, AskedClaim DEF Allows
<1>7. \A i \in install' : i.sid # 0 => Allows({}, i.key, i.sid)
  BY <1>2, InstallClaim DEF Allows
<1> QED BY <1>2, <1>4, <1>5, <1>6, <1>7, ClaimsNext, NoNewClaims

\* Steps that leave the sessions' store alone, or forget sessions.
LEMMA OtherClaims ==
    ASSUME SidInv, UNCHANGED <<next_sid, hints>>,
           \A s \in DOMAIN route_sessions' :
              s \in DOMAIN route_sessions /\ route_sessions'[s].key = route_sessions[s].key,
           \A r \in asked' : r[2] # 0 => Allowed(r[1], r[2]),
           \A i \in install' : i.sid # 0 => Allowed(i.key, i.sid)
    PROVE  SidInv'
<1>1. \A s \in DOMAIN route_sessions' : Allows({}, route_sessions'[s].key, s)
  BY SessionClaim DEF Allows
<1>2. /\ \A j \in DOMAIN hints' : Allows({}, j, hints'[j])
      /\ \A r \in asked' : r[2] # 0 => Allows({}, r[1], r[2])
      /\ \A i \in install' : i.sid # 0 => Allows({}, i.key, i.sid)
  BY HintClaim DEF Allows
<1> QED BY <1>1, <1>2, ClaimsNext, NoNewClaims

LEMMA SidStep == SidInv /\ [Next]_vars => SidInv'
<1> SUFFICES ASSUME SidInv, [Next]_vars PROVE SidInv'
  OBVIOUS
<1>1. ASSUME NEW k \in Keys, LocalRoute(k) PROVE SidInv'
  <2>1. asked' = asked /\ install' = install
    BY <1>1 DEF LocalRoute
  <2>2. /\ \A r \in asked' : r[2] # 0 => Allowed(r[1], r[2])
        /\ \A i \in install' : i.sid # 0 => Allowed(i.key, i.sid)
    BY <2>1, AskedClaim, InstallClaim
  <2>3. CASE UNCHANGED <<route_sessions, next_sid, hints>>
    BY <2>2, <2>3, OtherClaims
  <2>4. CASE \E p : Record(k, p, Matches(EndFlows(k, p, graph)), 0, FALSE)
    BY <2>2, <2>4, RecordClaims
  <2> QED BY <1>1, <2>3, <2>4 DEF LocalRoute
<1>2. CASE ServerPathDone
  <2>1. PICK i \in install : Record(i.key, i.path, UNION tracking, i.sid, disturbed)
    BY <1>2 DEF ServerPathDone
  <2>2. i.sid # 0 => Allowed(i.key, i.sid)
    BY InstallClaim
  <2>3. /\ \A r \in asked' : r[2] # 0 => Allowed(r[1], r[2])
        /\ \A j \in install' : j.sid # 0 => Allowed(j.key, j.sid)
    BY <1>2, AskedClaim DEF ServerPathDone
  <2> QED BY <2>1, <2>2, <2>3, RecordClaims
<1>3. ASSUME NEW m \in AllMatches, FlowRemoved(m) PROVE SidInv'
  <2>1. /\ route_sessions' =
             [s \in {r \in DOMAIN route_sessions : ~HasFlow(r, m)} |-> route_sessions[s]]
        /\ UNCHANGED <<next_sid, hints, asked, install>>
    BY <1>3 DEF FlowRemoved
  <2>2. \A s \in DOMAIN route_sessions' :
          s \in DOMAIN route_sessions /\ route_sessions'[s].key = route_sessions[s].key
    BY <2>1
  <2>3. /\ \A r \in asked' : r[2] # 0 => Allowed(r[1], r[2])
        /\ \A i \in install' : i.sid # 0 => Allowed(i.key, i.sid)
    BY <2>1, AskedClaim, InstallClaim
  <2> QED BY <2>1, <2>2, <2>3, OtherClaims
<1>4. CASE \E u, v \in Switches : LinkDelete(u, v)
  BY <1>4, LinkDeleteClaims
<1>5. ASSUME NEW k \in Keys, RemoteRoute(k) PROVE SidInv'
  <2>1. asked' = asked \cup {<<k, 0>>} /\ UNCHANGED <<route_sessions, next_sid, hints, install>>
    BY <1>5 DEF RemoteRoute
  <2>2. \A r \in asked' : r[2] # 0 => r \in asked
    BY <2>1
  <2>3. /\ \A r \in asked' : r[2] # 0 => Allowed(r[1], r[2])
        /\ \A i \in install' : i.sid # 0 => Allowed(i.key, i.sid)
    BY <2>1, <2>2, AskedClaim, InstallClaim
  <2> QED BY <2>1, <2>3, OtherClaims
<1>6. CASE ServerPath
  <2>1. UNCHANGED <<route_sessions, next_sid, hints>>
    BY <1>6 DEF ServerPath
  <2>2. PICK r \in Incoming : /\ asked' = asked \ {r}
                              /\ \A i \in install' : i.key = r[1] /\ i.sid = r[2]
    BY <1>6 DEF ServerPath
  <2>3. r \in asked \/ r[2] \in ForeignSids \/ r[2] = 0
    BY DEF Incoming
  <2>4. r[2] # 0 => Allowed(r[1], r[2])
    BY <2>3, AskedClaim DEF Allowed
  <2>5. /\ \A q \in asked' : q[2] # 0 => Allowed(q[1], q[2])
        /\ \A i \in install' : i.sid # 0 => Allowed(i.key, i.sid)
    BY <2>2, <2>4, AskedClaim
  <2> QED BY <2>1, <2>5, OtherClaims
<1>7. CASE \/ \E w \in AccessSwitches : OtherRoute(w)
           \/ \E f \in table : Expire(f)
           \/ \E u, v \in Switches : LinkAdd(u, v)
           \/ UNCHANGED vars
  <2>1. UNCHANGED <<route_sessions, next_sid, hints, asked, install>>
    BY <1>7 DEF OtherRoute, Expire, LinkAdd, vars
  <2>2. /\ \A r \in asked' : r[2] # 0 => Allowed(r[1], r[2])
        /\ \A i \in install' : i.sid # 0 => Allowed(i.key, i.sid)
    BY <2>1, AskedClaim, InstallClaim
  <2> QED BY <2>1, <2>2, OtherClaims
<1> QED BY <1>1, <1>2, <1>3, <1>4, <1>5, <1>6, <1>7 DEF Next

\* A session id of this controller stays with its key wherever it goes: into a hint,
\* a request to the server, a path the server sends, and back into a session.
THEOREM SidKeepsKeyHolds == Spec => []SidKeepsKey
<1>1. Init => SidInv
  <2> SUFFICES ASSUME Init PROVE SidInv
    OBVIOUS
  <2>1. Claims = {}
    BY DEF Init, Claims
  <2> QED BY <2>1 DEF Init, SidInv, SidKeepsKey
<1>2. SidInv => SidKeepsKey
  BY DEF SidInv
<1> QED BY <1>1, <1>2, SidStep, PTL DEF Spec

-----------------------------------------------------------------------------
\* FailedLinkSwept rests on this: the path of a session is one its key may get.
PathsInv ==
    /\ \A s \in DOMAIN route_sessions : LET x == route_sessions[s] IN
         x.key \in Keys /\ x.path \in Routes[x.key]
    /\ \A a \in asked : a[1] \in Keys
    /\ \A i \in install : i.key \in Keys /\ i.path \in Routes[i.key]

LEMMA PathsStep == PathsInv /\ [Next]_vars => PathsInv'
<1> SUFFICES ASSUME PathsInv, [Next]_vars PROVE PathsInv'
  OBVIOUS
<1> USE DEF PathsInv
<1>1. ASSUME NEW k \in Keys, NEW p \in Routes[k], NEW ms, NEW preferred, NEW d,
             Record(k, p, ms, preferred, d)
      PROVE  \A s \in DOMAIN route_sessions' : LET x == route_sessions'[s] IN
               x.key \in Keys /\ x.path \in Routes[x.key]
  BY <1>1, RecordChangesOne DEF Session
<1>2. CASE \E k \in Keys : LocalRoute(k)
  <2>1. PICK k \in Keys : LocalRoute(k)
    BY <1>2
  <2>2. UNCHANGED <<asked, install>>
    BY <2>1 DEF LocalRoute
  <2>3. \/ UNCHANGED route_sessions
        \/ \E p \in Routes[k] : Record(k, p, Matches(EndFlows(k, p, graph)), 0, FALSE)
    BY <2>1 DEF LocalRoute, Shortest
  <2> QED BY <1>1, <2>2, <2>3
<1>3. CASE ServerPathDone
  <2>1. PICK i \in install : Record(i.key, i.path, UNION tracking, i.sid, disturbed)
    BY <1>3 DEF ServerPathDone
  <2> QED BY <1>1, <1>3, <2>1 DEF ServerPathDone
<1>4. CASE \E m \in AllMatches : FlowRemoved(m)
  BY <1>4 DEF FlowRemoved
<1>5. CASE \E u, v \in Switches : LinkDelete(u, v)
  <2>1. PICK u \in Switches, v \in Switches : LinkDelete(u, v)
    BY <1>5
  <2> DEFINE hit      == {s \in DOMAIN route_sessions : Uses(route_sessions[s].path, u, v)}
             local    == {s \in hit : route_sessions[s].key \in LocalKeys}
             routable == {s \in hit : /\ route_sessions[s].key \in LocalKeys
                                      /\ Shortest(route_sessions[s].key, graph') # {}}
  <2>2. PICK new \in [routable -> UNION {Routes[k] : k \in LocalKeys}] :
          /\ \A s \in routable : new[s] \in Shortest(route_sessions[s].key, graph')
          /\ Reroute(hit, new)
    BY <2>1 DEF LinkDelete
  <2>3. /\ asked' = asked \cup {<<route_sessions[s].key, s>> : s \in hit \ local}
        /\ route_sessions' =
             [s \in (DOMAIN route_sessions \ hit) \cup DOMAIN new |->
                IF s \in DOMAIN new
                THEN Session(route_sessions[s].key, new[s],
                             Matches(EndFlows(route_sessions[s].key, new[s], graph')), FALSE)
                ELSE route_sessions[s]]
        /\ UNCHANGED install
    BY <2>1, <2>2 DEF Reroute, LinkDelete
  <2>4. \A s \in routable : s \in DOMAIN route_sessions /\ new[s] \in Routes[route_sessions[s].key]
    BY <2>2 DEF Shortest
  <2>5. \A a \in asked' : a[1] \in Keys
    BY <2>3
  <2>6. DOMAIN new = routable
    OBVIOUS
  <2> HIDE DEF hit, routable
  <2>7. \A s \in DOMAIN route_sessions' : LET x == route_sessions'[s] IN
          x.key \in Keys /\ x.path \in Routes[x.key]
    BY <2>3, <2>4, <2>6 DEF Session
  <2> QED BY <2>3, <2>5, <2>7
<1>6. CASE ServerPath
  <2>1. PICK r \in Incoming : \E p \in Routes[r[1]] :
          asked' = asked \ {r} /\ install' = {[key |-> r[1], path |-> p, sid |-> r[2]]}
    BY <1>6 DEF ServerPath
  <2>2. r[1] \in Keys
    BY <2>1 DEF Incoming
  <2>3. /\ \A a \in asked' : a[1] \in Keys
        /\ \A i \in install' : i.key \in Keys /\ i.path \in Routes[i.key]
    BY <2>1, <2>2
  <2>4. UNCHANGED route_sessions
    BY <1>6 DEF ServerPath
  <2> QED BY <2>3, <2>4
<1>7. CASE \E k \in Keys : RemoteRoute(k)
  BY <1>7 DEF RemoteRoute
<1>8. CASE \/ \E w \in AccessSwitches : OtherRoute(w)
           \/ \E f \in table : Expire(f)
           \/ \E u, v \in Switches : LinkAdd(u, v)
           \/ UNCHANGED vars
  <2>1. UNCHANGED <<route_sessions, asked, install>>
    BY <1>8 DEF OtherRoute, Expire, LinkAdd, vars
  <2> QED BY <2>1
<1> QED BY <1>2, <1>3, <1>4, <1>5, <1>6, <1>7, <1>8 DEF Next

\* A flow of a path leaves its switch over a hop of the path, one way or the other,
\* or to a host.
LEMMA FlowOverHop ==
    ASSUME NEW k, NEW p, Len(p) \in Nat, NEW i \in 1..Len(p), NEW f \in FlowsAt(k, p, i),
           f.to \notin {"src", "dst"}
    PROVE  \/ f.dir = "fwd" /\ i # Len(p) /\ <<f.sw, f.to>> \in HopsOf(p)
           \/ f.dir = "rev" /\ i # 1 /\ f.sw = p[i] /\ f.to = p[i - 1] /\ <<f.to, f.sw>> \in HopsOf(p)
<1>1. CASE f = [sw |-> p[i], key |-> k, dir |-> "fwd", from |-> IF i = 1 THEN "src" ELSE p[i - 1],
                to |-> IF i = Len(p) THEN "dst" ELSE p[i + 1]]
  <2>1. f.sw = p[i] /\ f.dir = "fwd" /\ f.to = IF i = Len(p) THEN "dst" ELSE p[i + 1]
    BY <1>1
  <2>2. i # Len(p) /\ f.to = p[i + 1]
    BY <2>1
  <2>3. i \in 1..(Len(p) - 1)
    BY <2>2
  <2> QED BY <2>1, <2>2, <2>3 DEF HopsOf
<1>2. CASE f = [sw |-> p[i], key |-> k, dir |-> "rev",
                from |-> IF i = Len(p) THEN "dst" ELSE p[i + 1],
                to |-> IF i = 1 THEN "src" ELSE p[i - 1]]
  <2>1. f.sw = p[i] /\ f.dir = "rev" /\ f.to = IF i = 1 THEN "src" ELSE p[i - 1]
    BY <1>2
  <2>2. i # 1 /\ f.to = p[i - 1]
    BY <2>1
  <2>3. i - 1 \in 1..(Len(p) - 1) /\ (i - 1) + 1 = i
    BY <2>2
  <2>4. <<p[i - 1], p[(i - 1) + 1]>> \in HopsOf(p)
    BY <2>3 DEF HopsOf
  <2> QED BY <2>1, <2>2, <2>3, <2>4
<1> QED BY <1>1, <1>2 DEF FlowsAt

\* The flows of a new local path leave their switches over links that are up.
LEMMA EndFlowsUp ==
    ASSUME NEW k, NEW p, NEW g, Len(p) \in Nat \ {0}, HopsOf(p) \subseteq g,
           NEW f \in EndFlows(k, p, g), f.to \notin {"src", "dst"}
    PROVE  <<f.sw, f.to>> \in g
<1>0. 1 \in 1..Len(p) /\ Len(p) \in 1..Len(p) /\ Len(p) \in Nat
  OBVIOUS
<1>1. CASE f \in FlowsAt(k, p, 1)
  <2>1. <<f.sw, f.to>> \in HopsOf(p)
    BY <1>0, <1>1, FlowOverHop
  <2> QED BY <2>1
<1>2. CASE <<p[Len(p)], p[Len(p) - 1]>> \in g /\ f \in FlowsAt(k, p, Len(p))
  <2> DEFINE n == Len(p)
  <2>1. n \in 1..Len(p) /\ f \in FlowsAt(k, p, n)
    BY <1>0, <1>2
  <2>2. \/ <<f.sw, f.to>> \in HopsOf(p)
        \/ f.sw = p[n] /\ f.to = p[n - 1]
    <3> HIDE DEF n
    <3>1. Len(p) \in Nat
      BY <1>0
    <3>2. \/ f.dir = "fwd" /\ n # Len(p) /\ <<f.sw, f.to>> \in HopsOf(p)
          \/ f.dir = "rev" /\ n # 1 /\ f.sw = p[n] /\ f.to = p[n - 1] /\ <<f.to, f.sw>> \in HopsOf(p)
      BY <2>1, <3>1, FlowOverHop, Zenon
    <3> QED BY <3>2, Zenon
  <2> QED BY <1>2, <2>2
<1> QED BY <1>1, <1>2 DEF EndFlows

LEMMA SweptStep ==
    PathsInv /\ [Next]_vars =>
        \A l \in graph \ graph', s \in DOMAIN route_sessions, f \in table' :
            LET x == route_sessions[s] IN
            HasFlow(s, Match(f)) /\ f \in AllFlows(x.key, x.path) => <<f.sw, f.to>> # l
<1> SUFFICES ASSUME PathsInv, [Next]_vars,
                    NEW l \in graph \ graph', NEW s \in DOMAIN route_sessions, NEW f \in table',
                    HasFlow(s, Match(f)),
                    f \in AllFlows(route_sessions[s].key, route_sessions[s].path),
                    <<f.sw, f.to>> = l
             PROVE  FALSE
  OBVIOUS
<1>1. PICK u \in Switches, v \in Switches : LinkDelete(u, v)
  <2>1. CASE \E u, v \in Switches : LinkAdd(u, v)
    BY <2>1 DEF LinkAdd
  <2>2. CASE \/ \E k \in Keys : LocalRoute(k) \/ RemoteRoute(k)
             \/ \E w \in AccessSwitches : OtherRoute(w)
             \/ \E m \in AllMatches : FlowRemoved(m)
             \/ \E e \in table : Expire(e)
             \/ ServerPath \/ ServerPathDone \/ UNCHANGED vars
    BY <2>2 DEF LocalRoute, RemoteRoute, OtherRoute, FlowRemoved, Expire, ServerPath,
       ServerPathDone, vars
  <2> QED BY <2>1, <2>2 DEF Next
<1>2. graph' = graph \ {<<u, v>>} /\ l = <<u, v>> /\ f.sw = u /\ f.to = v
  BY <1>1 DEF LinkDelete
<1>3. f.to \notin {"src", "dst"} /\ <<f.sw, f.to>> \notin graph'
  BY <1>2, ConstantsAssumption
<1> DEFINE hit      == {r \in DOMAIN route_sessions : Uses(route_sessions[r].path, u, v)}
           routable == {r \in hit : /\ route_sessions[r].key \in LocalKeys
                                    /\ Shortest(route_sessions[r].key, graph') # {}}
           dead     == {e \in table : \E r \in hit : HasFlow(r, Match(e))}
<1>4. s \in hit
  <2> DEFINE p == route_sessions[s].path
  <2>1. Len(p) \in Nat
    BY ConstantsAssumption DEF PathsInv
  <2>2. PICK i \in 1..Len(p) : f \in FlowsAt(route_sessions[s].key, p, i)
    BY DEF AllFlows
  <2>3. <<u, v>> \in HopsOf(p) \/ <<v, u>> \in HopsOf(p)
    BY <1>2, <1>3, <2>1, <2>2, FlowOverHop
  <2> QED BY <2>3 DEF Uses
<1>5. PICK new \in [routable -> UNION {Routes[k] : k \in LocalKeys}] :
        /\ \A r \in routable : new[r] \in Shortest(route_sessions[r].key, graph')
        /\ Reroute(hit, new)
  BY <1>1 DEF LinkDelete
<1>6. table' = Installed(table \ dead, UNION {EndFlows(route_sessions[r].key, new[r], graph') : r \in DOMAIN new})
  BY <1>5 DEF Reroute
<1>7. CASE f \in table \ dead
  BY <1>4, <1>7
<1>8. CASE \E r \in routable : f \in EndFlows(route_sessions[r].key, new[r], graph')
  <2>1. PICK r \in routable : f \in EndFlows(route_sessions[r].key, new[r], graph')
    BY <1>8
  <2>2. /\ HopsOf(new[r]) \subseteq graph' /\ new[r] \in Routes[route_sessions[r].key]
        /\ route_sessions[r].key \in Keys
    BY <1>5 DEF Shortest, PathsInv
  <2>3. Len(new[r]) \in Nat \ {0}
    BY <2>2, ConstantsAssumption
  <2> QED BY <1>3, <2>1, <2>2, <2>3, EndFlowsUp
<1>9. DOMAIN new = routable
  OBVIOUS
<1> HIDE DEF routable, dead
<1> QED BY <1>6, <1>7, <1>8, <1>9 DEF Installed

\* When a link fails, the flows over it that sessions hold for their paths go, and the
\* new paths that local sessions get bring none of them back.
THEOREM FailedLinkSweptHolds == Spec => FailedLinkSwept
<1>1. Init => PathsInv
  BY DEF Init, PathsInv
<1> QED BY <1>1, PathsStep, SweptStep, PTL DEF Spec, FailedLinkSwept

-----------------------------------------------------------------------------
(* What a session tracks is real. *)

\* Every FlowRemoved event has its cause.
Counted == events \in 0..MaxEvents /\ \A m \in AllMatches : notices[m] <= events

\* While nothing disturbs the path that waits for its barriers, its flows are those
\* being tracked, and they are in their switches.
InstallReal ==
    ~disturbed => \A i \in install :
        /\ tracking = {Matches(AllFlows(i.key, i.path))}
        /\ Matches(AllFlows(i.key, i.path)) \subseteq Matches(table)

StoreInv == TypeOK /\ TrackedFlowsReal /\ Counted /\ InstallReal

\* New flows replace those of the same match and leave the others.
LEMMA InstalledMatches ==
    ASSUME NEW t, NEW fs, OnePerMatch(t), OnePerMatch(fs)
    PROVE  /\ OnePerMatch(Installed(t, fs))
           /\ Matches(Installed(t, fs)) = Matches(t) \cup Matches(fs)
<1>1. \A f \in Installed(t, fs) : f \in fs \/ (f \in t /\ Match(f) \notin Matches(fs))
  BY DEF Installed
<1>2. \A f \in fs : Match(f) \in Matches(fs)
  BY DEF Matches
<1>3. OnePerMatch(Installed(t, fs))
  BY <1>1, <1>2 DEF OnePerMatch
<1>4. \A f \in t : f \in Installed(t, fs) \/ Match(f) \in Matches(fs)
  BY DEF Installed
<1>5. fs \subseteq Installed(t, fs)
  BY DEF Installed
<1>6. \A m : m \in Matches(t) \/ m \in Matches(fs) => m \in Matches(Installed(t, fs))
  BY <1>4, <1>5 DEF Matches
<1>7. \A m \in Matches(Installed(t, fs)) : m \in Matches(t) \/ m \in Matches(fs)
  BY <1>1 DEF Matches
<1> QED BY <1>3, <1>6, <1>7

\* The flows of a path have different matches, as it visits no switch twice.
LEMMA PathFlows ==
    ASSUME NEW k \in Keys, NEW p \in Routes[k]
    PROVE  /\ OnePerMatch(AllFlows(k, p))
           /\ Matches(AllFlows(k, p)) \subseteq AllMatches
           /\ \A f \in AllFlows(k, p) : f.key = k
<1>1. SimplePath(p)
  BY ConstantsAssumption
<1>2. ASSUME NEW i \in 1..Len(p), NEW f \in FlowsAt(k, p, i)
      PROVE  f.sw = p[i] /\ f.key = k
  BY <1>2 DEF FlowsAt
<1>3. ASSUME NEW i \in 1..Len(p), NEW f \in FlowsAt(k, p, i), NEW g \in FlowsAt(k, p, i),
             f.dir = g.dir
      PROVE  f = g
  <2> DEFINE prev == IF i = 1 THEN "src" ELSE p[i - 1]
             next == IF i = Len(p) THEN "dst" ELSE p[i + 1]
             fwd  == [sw |-> p[i], key |-> k, dir |-> "fwd", from |-> prev, to |-> next]
             rev  == [sw |-> p[i], key |-> k, dir |-> "rev", from |-> next, to |-> prev]
  <2>1. f \in {fwd, rev} /\ g \in {fwd, rev}
    BY DEF FlowsAt
  <2>2. fwd.dir # rev.dir
    OBVIOUS
  <2> HIDE DEF fwd, rev
  <2> QED BY <1>3, <2>1, <2>2
<1>4. \A f \in AllFlows(k, p) : \E i \in 1..Len(p) : f \in FlowsAt(k, p, i)
  BY DEF AllFlows
<1>5. ASSUME NEW f \in AllFlows(k, p), NEW g \in AllFlows(k, p), Match(f) = Match(g)
      PROVE  f = g
  <2>1. PICK i \in 1..Len(p) : f \in FlowsAt(k, p, i)
    BY <1>4
  <2>2. PICK j \in 1..Len(p) : g \in FlowsAt(k, p, j)
    BY <1>4
  <2>3. f.sw = g.sw /\ f.dir = g.dir
    BY <1>5 DEF Match
  <2>4. i = j
    BY <1>1, <1>2, <2>1, <2>2, <2>3 DEF SimplePath
  <2> QED BY <1>3, <2>1, <2>2, <2>3, <2>4
<1>6. Matches(AllFlows(k, p)) \subseteq AllMatches
  <2> DEFINE all == (UNION {UNION {AllFlows(j, q) : q \in Routes[j]} : j \in Keys})
                      \cup {OtherFlow(w) : w \in AccessSwitches}
  <2>1. AllFlows(k, p) \subseteq all
    OBVIOUS
  <2>2. AllMatches = Matches(all)
    BY DEF AllMatches
  <2> HIDE DEF all
  <2> QED BY <2>1, <2>2 DEF Matches
<1> QED BY <1>2, <1>4, <1>5, <1>6 DEF OnePerMatch

\* A local path is over links, so its ends are local switches.
LEMMA EndFlowsLocal ==
    ASSUME NEW k \in LocalKeys, NEW p \in Routes[k], HopsOf(p) \subseteq Links, NEW g
    PROVE  EndFlows(k, p, g) \subseteq AllFlows(k, p)
<1>1. k \in Keys /\ Len(p) \in Nat /\ Len(p) >= 2
  BY ConstantsAssumption DEF SimplePath
<1>2. p[1] \in Switches
  <2>1. 1 \in 1..(Len(p) - 1)
    BY <1>1
  <2>2. <<p[1], p[1 + 1]>> \in HopsOf(p)
    BY <2>1 DEF HopsOf
  <2> QED BY <2>2, ConstantsAssumption
<1>3. p[Len(p)] \in Switches
  <2>1. Len(p) - 1 \in 1..(Len(p) - 1) /\ (Len(p) - 1) + 1 = Len(p)
    BY <1>1
  <2>2. <<p[Len(p) - 1], p[(Len(p) - 1) + 1]>> \in HopsOf(p)
    BY <2>1 DEF HopsOf
  <2> QED BY <2>1, <2>2, ConstantsAssumption
<1>4. FlowsAt(k, p, 1) \subseteq AllFlows(k, p) /\ FlowsAt(k, p, Len(p)) \subseteq AllFlows(k, p)
  BY <1>1, <1>2, <1>3 DEF AllFlows
<1> QED BY <1>4 DEF EndFlows

LEMMA LocalFlows ==
    ASSUME NEW k \in LocalKeys, NEW p \in Routes[k], HopsOf(p) \subseteq Links, NEW g
    PROVE  /\ OnePerMatch(EndFlows(k, p, g))
           /\ Matches(EndFlows(k, p, g)) \subseteq AllMatches
           /\ Matches(EndFlows(k, p, g)) \subseteq Matches(AllFlows(k, p))
           /\ \A f \in EndFlows(k, p, g) : f.key = k
<1>1. k \in Keys
  BY ConstantsAssumption
<1>2. EndFlows(k, p, g) \subseteq AllFlows(k, p)
  BY EndFlowsLocal
<1>3. Matches(EndFlows(k, p, g)) \subseteq Matches(AllFlows(k, p))
  BY <1>2 DEF Matches
<1> QED BY <1>1, <1>2, <1>3, PathFlows DEF OnePerMatch

\* Recording keeps the store's types, and gives out at most the next sid.
LEMMA RecordTyped ==
    ASSUME SessionsTyped, NEW k \in Keys, NEW p \in Routes[k], NEW ms \in SUBSET AllMatches,
           NEW preferred \in Sids \cup {0}, NEW d \in BOOLEAN, Record(k, p, ms, preferred, d)
    PROVE  SessionsTyped' /\ Sids \subseteq Sids'
<1>1. next_sid \in Nat \ {0} /\ DOMAIN route_sessions \subseteq Sids
  BY DEF SessionsTyped
<1>2. CASE UNCHANGED <<route_sessions, next_sid, hints>>
  BY <1>2 DEF SessionsTyped, Sids
<1>3. CASE ~UNCHANGED <<route_sessions, next_sid, hints>>
  <2>1. /\ next_sid' = IF SidsOf(k) = {} /\ preferred = 0 /\ k \notin DOMAIN hints
                       THEN next_sid + 1 ELSE next_sid
        /\ hints' = IF SidsOf(k) = {} /\ preferred = 0
                    THEN [j \in DOMAIN hints \ {k} |-> hints[j]]
                    ELSE hints
    BY <1>3 DEF Record
  <2>2. next_sid' \in Nat \ {0} /\ Sids \subseteq Sids'
    BY <1>1, <2>1 DEF Sids
  <2>3. SidFor(k, preferred) \in Sids'
    <3>1. CASE SidsOf(k) # {}
      <4>1. SidFor(k, preferred) \in DOMAIN route_sessions
        BY <3>1 DEF SidFor, SidsOf
      <4> QED BY <1>1, <2>2, <4>1
    <3>2. CASE SidsOf(k) = {} /\ preferred # 0
      BY <2>2, <3>2 DEF SidFor
    <3>3. CASE SidsOf(k) = {} /\ preferred = 0 /\ k \in DOMAIN hints
      BY <2>2, <3>3 DEF SidFor, SessionsTyped
    <3>4. CASE SidsOf(k) = {} /\ preferred = 0 /\ k \notin DOMAIN hints
      <4>1. SidFor(k, preferred) = next_sid /\ next_sid' = next_sid + 1
        BY <2>1, <3>4 DEF SidFor
      <4> QED BY <1>1, <4>1 DEF Sids
    <3> QED BY <3>1, <3>2, <3>3, <3>4
  <2>4. \A s \in DOMAIN route_sessions' :
          \/ s \in DOMAIN route_sessions /\ route_sessions'[s] = route_sessions[s]
          \/ s = SidFor(k, preferred) /\ route_sessions'[s] = Session(k, p, ms, d)
    BY RecordChangesOne
  <2>5. DOMAIN route_sessions' \subseteq Sids'
    BY <1>1, <2>2, <2>3, <2>4
  <2>6. \A s \in DOMAIN route_sessions' :
          /\ route_sessions'[s].key \in Keys
          /\ route_sessions'[s].path \in Routes[route_sessions'[s].key]
          /\ route_sessions'[s].flows \subseteq AllMatches
          /\ route_sessions'[s].disturbed \in BOOLEAN
    BY <2>4 DEF Session, SessionsTyped
  <2>7. DOMAIN hints' \subseteq Keys /\ \A j \in DOMAIN hints' : hints'[j] \in Sids'
    BY <2>1, <2>2 DEF SessionsTyped
  <2> QED BY <2>2, <2>5, <2>6, <2>7 DEF SessionsTyped
<1> QED BY <1>2, <1>3

\* The flows of a session are its path's, and in their switches or reported as gone.
Real(x, t, reported) ==
    ~x.disturbed => \A m \in x.flows :
        /\ m \in Matches(AllFlows(x.key, x.path))
        /\ m \in Matches(t) \/ reported[m] > 0

LEMMA TrackedReal ==
    TrackedFlowsReal <=> \A s \in DOMAIN route_sessions : Real(route_sessions[s], table, notices)
  BY DEF TrackedFlowsReal, Real

\* Sessions stay real in a step that takes no flow without a notice, nor a notice.
LEMMA StayReal ==
    ASSUME TypeOK, TrackedFlowsReal,
           \A m \in AllMatches : notices'[m] \in Nat /\ notices'[m] >= notices[m],
           \A m \in Matches(table) : m \in Matches(table') \/ notices'[m] > 0
    PROVE  \A s \in DOMAIN route_sessions : Real(route_sessions[s], table', notices')
<1> SUFFICES ASSUME NEW s \in DOMAIN route_sessions, ~route_sessions[s].disturbed,
                    NEW m \in route_sessions[s].flows
             PROVE  /\ m \in Matches(AllFlows(route_sessions[s].key, route_sessions[s].path))
                    /\ m \in Matches(table') \/ notices'[m] > 0
  BY DEF Real
<1>1. m \in AllMatches /\ notices[m] \in Nat
  BY ConstantsAssumption DEF TypeOK, SessionsTyped, FlowsTyped
<1>2. /\ m \in Matches(AllFlows(route_sessions[s].key, route_sessions[s].path))
      /\ m \in Matches(table) \/ notices[m] > 0
  BY DEF TrackedFlowsReal
<1> QED BY <1>1, <1>2

\* A step that changes flows only by installing some.
LEMMA InstallFlows ==
    ASSUME TypeOK, TrackedFlowsReal, NEW fs, OnePerMatch(fs), Matches(fs) \subseteq AllMatches,
           table' = Installed(table, fs), graph' \subseteq Links, notices' = notices
    PROVE  /\ FlowsTyped'
           /\ Matches(table') = Matches(table) \cup Matches(fs)
           /\ \A s \in DOMAIN route_sessions : Real(route_sessions[s], table', notices')
<1>1. OnePerMatch(table') /\ Matches(table') = Matches(table) \cup Matches(fs)
  BY InstalledMatches DEF TypeOK, FlowsTyped
<1>2. FlowsTyped'
  <2>1. /\ Matches(table)' = Matches(table')
        /\ (OnePerMatch(table))' = OnePerMatch(table')
        /\ AllMatches' = AllMatches
    BY DEF Matches, OnePerMatch
  <2> QED BY <1>1, <2>1 DEF TypeOK, FlowsTyped
<1>3. \A m \in AllMatches : notices'[m] \in Nat /\ notices'[m] >= notices[m]
  BY ConstantsAssumption DEF TypeOK, FlowsTyped
<1> QED BY <1>1, <1>2, <1>3, StayReal

LEMMA RealNext ==
    ASSUME \A s \in DOMAIN route_sessions' : Real(route_sessions'[s], table', notices')
    PROVE  TrackedFlowsReal'
  BY DEF TrackedFlowsReal, Real

LEMMA CountedKept == Counted /\ notices' = notices /\ events' = events => Counted'
  BY DEF Counted

\* A disturbed path, or none, claims nothing of its flows.
LEMMA Disturbed == Disturb /\ install' = install => InstallReal'
  BY DEF Disturb, InstallReal

LEMMA LocalRouteStore ==
    ASSUME StoreInv, NEW k \in Keys, LocalRoute(k)
    PROVE  StoreInv'
<1>1. TypeOK /\ TrackedFlowsReal /\ Counted
  BY DEF StoreInv
<1>2. /\ k \in LocalKeys /\ tracking' = {} /\ Disturb
      /\ UNCHANGED <<graph, notices, asked, install, events, serverPaths>>
  BY DEF LocalRoute
<1>3. Counted' /\ InstallReal'
  BY <1>1, <1>2, CountedKept, Disturbed
<1>4. ASSUME SessionsTyped', Sids \subseteq Sids'
      PROVE  SessionsTyped' /\ InstallTyped'
  <2>1. disturbed' \in BOOLEAN
    BY <1>1, <1>2 DEF Disturb, TypeOK, InstallTyped
  <2> QED BY <1>1, <1>2, <1>4, <2>1 DEF TypeOK, InstallTyped
<1>5. CASE UNCHANGED <<table, route_sessions, next_sid, hints>>
  <2>1. SessionsTyped' /\ Sids \subseteq Sids'
    BY <1>1, <1>5 DEF TypeOK, SessionsTyped, Sids
  <2>2. FlowsTyped' /\ TrackedFlowsReal'
    BY <1>1, <1>2, <1>5 DEF TypeOK, FlowsTyped, TrackedFlowsReal
  <2> QED BY <1>3, <1>4, <2>1, <2>2 DEF StoreInv, TypeOK
<1>6. CASE \E p \in Shortest(k, graph) :
             LET fs == EndFlows(k, p, graph) IN
             /\ table' = Installed(table, fs)
             /\ Record(k, p, Matches(fs), 0, FALSE)
  <2>1. PICK p \in Shortest(k, graph) :
          /\ table' = Installed(table, EndFlows(k, p, graph))
          /\ Record(k, p, Matches(EndFlows(k, p, graph)), 0, FALSE)
    BY <1>6
  <2> DEFINE fs == EndFlows(k, p, graph)
  <2>2. p \in Routes[k] /\ HopsOf(p) \subseteq Links
    BY <1>1 DEF Shortest, TypeOK, FlowsTyped
  <2>3. /\ OnePerMatch(fs) /\ Matches(fs) \subseteq AllMatches
        /\ Matches(fs) \subseteq Matches(AllFlows(k, p))
    BY <1>2, <2>2, LocalFlows
  <2> HIDE DEF fs
  <2>4. /\ FlowsTyped' /\ Matches(table') = Matches(table) \cup Matches(fs)
        /\ \A s \in DOMAIN route_sessions : Real(route_sessions[s], table', notices')
    <3>1. graph' \subseteq Links /\ table' = Installed(table, fs)
      BY <1>1, <1>2, <2>1 DEF TypeOK, FlowsTyped, fs
    <3> QED BY <1>1, <1>2, <2>3, <3>1, InstallFlows
  <2>5. SessionsTyped' /\ Sids \subseteq Sids'
    BY <1>1, <2>1, <2>2, <2>3, RecordTyped DEF fs, TypeOK
  <2>6. TrackedFlowsReal'
    <3>1. Real(Session(k, p, Matches(fs), FALSE), table', notices')
      BY <2>3, <2>4 DEF Real, Session
    <3>2. \A s \in DOMAIN route_sessions' :
            \/ s \in DOMAIN route_sessions /\ route_sessions'[s] = route_sessions[s]
            \/ route_sessions'[s] = Session(k, p, Matches(fs), FALSE)
      BY <2>1, RecordChangesOne DEF fs
    <3> QED BY <2>4, <3>1, <3>2, RealNext
  <2> QED BY <1>3, <1>4, <2>4, <2>5, <2>6 DEF StoreInv, TypeOK
<1> QED BY <1>5, <1>6 DEF LocalRoute

LEMMA OtherRouteStore ==
    ASSUME StoreInv, NEW w \in AccessSwitches, OtherRoute(w)
    PROVE  StoreInv'
<1> DEFINE f == OtherFlow(w)
<1>1. /\ TypeOK /\ TrackedFlowsReal /\ Counted
      /\ events < MaxEvents /\ events' = events + 1
      /\ table' = Installed(table, {f})
      /\ tracking' = {S \cup {Match(f)} : S \in tracking}
      /\ Disturb
      /\ UNCHANGED <<graph, notices, route_sessions, next_sid, hints, asked, install>>
  BY DEF StoreInv, OtherRoute
<1>2. Match(f) \in AllMatches
  <2> DEFINE all == (UNION {UNION {AllFlows(j, q) : q \in Routes[j]} : j \in Keys})
                      \cup {OtherFlow(x) : x \in AccessSwitches}
  <2>1. f \in all
    OBVIOUS
  <2>2. AllMatches = Matches(all)
    BY DEF AllMatches
  <2> HIDE DEF f, all
  <2> QED BY <2>1, <2>2 DEF Matches
<1>3. OnePerMatch({f}) /\ Matches({f}) \subseteq AllMatches
  BY <1>2 DEF OnePerMatch, Matches
<1> HIDE DEF f
<1>4. FlowsTyped' /\ \A s \in DOMAIN route_sessions : Real(route_sessions[s], table', notices')
  <2>1. graph' \subseteq Links /\ notices' = notices /\ table' = Installed(table, {f})
    BY <1>1 DEF TypeOK, FlowsTyped
  <2> QED BY <1>1, <1>3, <2>1, InstallFlows
<1>5. SessionsTyped' /\ Sids' = Sids
  BY <1>1 DEF TypeOK, SessionsTyped, Sids
<1>6. InstallTyped'
  <2>1. UNION tracking' \subseteq AllMatches /\ \A S, T \in tracking' : S = T
    BY <1>1, <1>2 DEF TypeOK, InstallTyped
  <2>2. disturbed' \in BOOLEAN
    BY <1>1 DEF Disturb, TypeOK, InstallTyped
  <2> QED BY <1>1, <1>5, <2>1, <2>2 DEF TypeOK, InstallTyped
<1>7. Counted'
  <2>1. \A m \in AllMatches : notices[m] \in Nat /\ notices[m] <= events
    BY <1>1, ConstantsAssumption DEF Counted, TypeOK, FlowsTyped
  <2> QED BY <1>1, <2>1, ConstantsAssumption DEF Counted
<1>8. TrackedFlowsReal'
  BY <1>1, <1>4, RealNext
<1> QED BY <1>1, <1>4, <1>5, <1>6, <1>7, <1>8, Disturbed DEF StoreInv, TypeOK

LEMMA RemoteRouteStore ==
    ASSUME StoreInv, NEW k \in Keys, RemoteRoute(k)
    PROVE  StoreInv'
<1>1. /\ k \in Keys \ LocalKeys /\ asked' = asked \cup {<<k, 0>>}
      /\ UNCHANGED <<graph, table, notices, route_sessions, next_sid, hints, tracking,
                     install, disturbed, events, serverPaths>>
  BY DEF RemoteRoute, histVars
<1>2. TypeOK' /\ Counted'
  BY <1>1, CountedKept DEF StoreInv, TypeOK, FlowsTyped, SessionsTyped, InstallTyped, Sids
<1>3. TrackedFlowsReal' /\ InstallReal'
  BY <1>1 DEF StoreInv, TrackedFlowsReal, InstallReal
<1> QED BY <1>2, <1>3 DEF StoreInv

LEMMA LinkAddStore ==
    ASSUME StoreInv, NEW u, NEW v, LinkAdd(u, v)
    PROVE  StoreInv'
<1>1. /\ <<u, v>> \in Links \ graph /\ graph' = graph \cup {<<u, v>>}
      /\ UNCHANGED <<table, notices, route_sessions, next_sid, hints, tracking, asked,
                     install, disturbed, events, serverPaths>>
  BY DEF LinkAdd, histVars
<1>2. TypeOK' /\ Counted'
  BY <1>1, CountedKept DEF StoreInv, TypeOK, FlowsTyped, SessionsTyped, InstallTyped, Sids
<1>3. TrackedFlowsReal' /\ InstallReal'
  BY <1>1 DEF StoreInv, TrackedFlowsReal, InstallReal
<1> QED BY <1>2, <1>3 DEF StoreInv

\* The notice that is handled takes with it every session that relies on it.
LEMMA FlowRemovedStore ==
    ASSUME StoreInv, NEW m \in AllMatches, FlowRemoved(m)
    PROVE  StoreInv'
<1> DEFINE kept == {r \in DOMAIN route_sessions : ~HasFlow(r, m)}
<1>1. /\ TypeOK /\ TrackedFlowsReal /\ Counted /\ InstallReal
      /\ notices[m] > 0
      /\ notices' = [notices EXCEPT ![m] = @ - 1]
      /\ route_sessions' = [s \in kept |-> route_sessions[s]]
      /\ UNCHANGED <<graph, table, next_sid, hints, tracking, asked, install, disturbed, events>>
  BY DEF FlowRemoved, StoreInv, histVars
<1>2. /\ \A n \in AllMatches : notices[n] \in 0..MaxEvents /\ notices[n] <= events
      /\ events \in 0..MaxEvents /\ MaxEvents \in Nat
  BY <1>1, ConstantsAssumption DEF TypeOK, FlowsTyped, Counted
<1>3. \A n \in AllMatches : /\ notices'[n] \in 0..MaxEvents /\ notices'[n] <= events'
                            /\ n # m => notices'[n] = notices[n]
  BY <1>1, <1>2 DEF TypeOK, FlowsTyped
<1>4. notices' \in [AllMatches -> 0..MaxEvents] /\ Counted'
  BY <1>1, <1>2, <1>3 DEF TypeOK, FlowsTyped, Counted
<1>5. FlowsTyped' /\ InstallTyped'
  BY <1>1, <1>4 DEF TypeOK, FlowsTyped, InstallTyped, Sids
<1>6. DOMAIN route_sessions' \subseteq DOMAIN route_sessions
      /\ \A s \in DOMAIN route_sessions' : route_sessions'[s] = route_sessions[s]
                                           /\ m \notin route_sessions[s].flows
  BY <1>1 DEF HasFlow
<1>7. SessionsTyped'
  BY <1>1, <1>6 DEF TypeOK, SessionsTyped, Sids
<1>8. TrackedFlowsReal'
  <2> SUFFICES ASSUME NEW s \in DOMAIN route_sessions', ~route_sessions'[s].disturbed,
                      NEW n \in route_sessions'[s].flows
               PROVE  /\ n \in Matches(AllFlows(route_sessions'[s].key, route_sessions'[s].path))
                      /\ n \in Matches(table') \/ notices'[n] > 0
    BY DEF TrackedFlowsReal
  <2>1. /\ n \in Matches(AllFlows(route_sessions[s].key, route_sessions[s].path))
        /\ n \in Matches(table) \/ notices[n] > 0
    BY <1>1, <1>6 DEF TrackedFlowsReal
  <2>2. n # m /\ n \in AllMatches
    BY <1>1, <1>6 DEF TypeOK, SessionsTyped
  <2> QED BY <1>1, <1>3, <1>6, <2>1, <2>2
<1>9. InstallReal'
  BY <1>1 DEF InstallReal
<1> QED BY <1>4, <1>5, <1>7, <1>8, <1>9 DEF StoreInv, TypeOK

LEMMA ServerPathStore ==
    ASSUME StoreInv, ServerPath
    PROVE  StoreInv'
<1>1. /\ TypeOK /\ TrackedFlowsReal /\ Counted
      /\ disturbed' = FALSE
      /\ UNCHANGED <<graph, notices, route_sessions, next_sid, hints, events>>
  BY DEF StoreInv, ServerPath
<1>2. PICK r \in Incoming : \E p \in Routes[r[1]] :
        /\ asked' = asked \ {r}
        /\ install' = {[key |-> r[1], path |-> p, sid |-> r[2]]}
        /\ table' = Installed(table, AllFlows(r[1], p))
        /\ tracking' = {Matches(AllFlows(r[1], p))}
  BY DEF ServerPath
<1>3. PICK p \in Routes[r[1]] :
        /\ asked' = asked \ {r}
        /\ install' = {[key |-> r[1], path |-> p, sid |-> r[2]]}
        /\ table' = Installed(table, AllFlows(r[1], p))
        /\ tracking' = {Matches(AllFlows(r[1], p))}
  BY <1>2
<1>4. r[1] \in Keys \ LocalKeys /\ r[2] \in Sids \cup {0}
  BY <1>1 DEF Incoming, TypeOK, InstallTyped, Sids
<1> DEFINE fs == AllFlows(r[1], p)
<1>5. OnePerMatch(fs) /\ Matches(fs) \subseteq AllMatches
  BY <1>4, PathFlows
<1> HIDE DEF fs
<1>6. /\ FlowsTyped' /\ Matches(table') = Matches(table) \cup Matches(fs)
      /\ \A s \in DOMAIN route_sessions : Real(route_sessions[s], table', notices')
  <2>1. graph' \subseteq Links /\ notices' = notices /\ table' = Installed(table, fs)
    BY <1>1, <1>3 DEF TypeOK, FlowsTyped, fs
  <2> QED BY <1>1, <1>5, <2>1, InstallFlows
<1>7. SessionsTyped' /\ Sids' = Sids
  BY <1>1 DEF TypeOK, SessionsTyped, Sids
<1>8. InstallTyped'
  <2>1. UNION tracking' \subseteq AllMatches /\ \A S, T \in tracking' : S = T
    BY <1>3, <1>5 DEF fs
  <2>2. \A i \in install' : /\ i.key \in Keys \ LocalKeys
                            /\ i.path \in Routes[i.key]
                            /\ i.sid \in Sids \cup {0}
    BY <1>3, <1>4
  <2> QED BY <1>1, <1>3, <1>7, <2>1, <2>2 DEF TypeOK, InstallTyped
<1>9. TrackedFlowsReal' /\ Counted'
  BY <1>1, <1>6, RealNext, CountedKept
<1>10. InstallReal'
  <2>1. \A i \in install' : i.key = r[1] /\ i.path = p
    BY <1>3
  <2>2. tracking' = {Matches(fs)} /\ Matches(fs) \subseteq Matches(table')
    BY <1>3, <1>6 DEF fs
  <2>3. \A i \in install' : /\ tracking' = {Matches(AllFlows(i.key, i.path))}
                            /\ Matches(AllFlows(i.key, i.path)) \subseteq Matches(table')
    BY <2>1, <2>2 DEF fs
  <2> QED BY <2>3 DEF InstallReal, Matches
<1> QED BY <1>6, <1>7, <1>8, <1>9, <1>10 DEF StoreInv, TypeOK

LEMMA ServerPathDoneStore ==
    ASSUME StoreInv, ServerPathDone
    PROVE  StoreInv'
<1>1. /\ TypeOK /\ TrackedFlowsReal /\ Counted /\ InstallReal
      /\ install' = {} /\ tracking' = {}
      /\ UNCHANGED <<graph, table, notices, asked, disturbed, events, serverPaths>>
  BY DEF StoreInv, ServerPathDone, histVars
<1>2. PICK i \in install : Record(i.key, i.path, UNION tracking, i.sid, disturbed)
  BY DEF ServerPathDone
<1>3. /\ i.key \in Keys /\ i.path \in Routes[i.key] /\ i.sid \in Sids \cup {0}
      /\ UNION tracking \in SUBSET AllMatches /\ disturbed \in BOOLEAN
  BY <1>1 DEF TypeOK, InstallTyped
<1>4. SessionsTyped' /\ Sids \subseteq Sids'
  BY <1>1, <1>2, <1>3, RecordTyped DEF TypeOK
<1>5. FlowsTyped' /\ InstallTyped'
  BY <1>1, <1>4 DEF TypeOK, FlowsTyped, InstallTyped
<1>6. \A s \in DOMAIN route_sessions : Real(route_sessions[s], table', notices')
  BY <1>1, TrackedReal
<1>7. Real(Session(i.key, i.path, UNION tracking, disturbed), table', notices')
  <2>1. CASE disturbed
    BY <2>1 DEF Real, Session
  <2>2. CASE ~disturbed
    <3>1. /\ UNION tracking = Matches(AllFlows(i.key, i.path))
          /\ Matches(AllFlows(i.key, i.path)) \subseteq Matches(table')
      BY <1>1, <2>2 DEF InstallReal
    <3> QED BY <3>1 DEF Real, Session
  <2> QED BY <2>1, <2>2
<1>8. \A s \in DOMAIN route_sessions' :
        \/ s \in DOMAIN route_sessions /\ route_sessions'[s] = route_sessions[s]
        \/ route_sessions'[s] = Session(i.key, i.path, UNION tracking, disturbed)
  BY <1>2, RecordChangesOne
<1>9. TrackedFlowsReal'
  BY <1>6, <1>7, <1>8, RealNext
<1>10. Counted' /\ InstallReal'
  BY <1>1, CountedKept DEF InstallReal
<1> QED BY <1>4, <1>5, <1>9, <1>10 DEF StoreInv, TypeOK

\* Flows being installed do not time out; any other goes with a notice.
LEMMA ExpireStore ==
    ASSUME StoreInv, NEW f \in table, Expire(f)
    PROVE  StoreInv'
<1>1. /\ TypeOK /\ TrackedFlowsReal /\ Counted /\ InstallReal
      /\ events < MaxEvents /\ events' = events + 1
      /\ \A i \in install : f.key # i.key
      /\ table' = table \ {f}
      /\ notices' = [notices EXCEPT ![Match(f)] = @ + 1]
      /\ UNCHANGED <<graph, route_sessions, next_sid, hints, tracking, asked, install, disturbed>>
  BY DEF Expire, StoreInv
<1>2. Match(f) \in AllMatches
  BY <1>1 DEF TypeOK, FlowsTyped, Matches
<1>3. /\ \A m \in AllMatches : notices[m] \in 0..MaxEvents /\ notices[m] <= events
      /\ events \in 0..MaxEvents /\ MaxEvents \in Nat
  BY <1>1, ConstantsAssumption DEF TypeOK, FlowsTyped, Counted
<1>4. \A m \in AllMatches : /\ notices'[m] \in 0..MaxEvents /\ notices'[m] <= events'
                            /\ notices'[m] >= notices[m]
                            /\ m = Match(f) => notices'[m] > 0
  BY <1>1, <1>2, <1>3 DEF TypeOK, FlowsTyped
<1>5. notices' \in [AllMatches -> 0..MaxEvents] /\ Counted'
  <2>1. events' \in 0..MaxEvents
    BY <1>1, <1>3
  <2>2. notices' \in [AllMatches -> 0..MaxEvents]
    BY <1>1, <1>4 DEF TypeOK, FlowsTyped
  <2> QED BY <1>4, <2>1, <2>2 DEF Counted
<1>6. \A m \in Matches(table) : m = Match(f) \/ m \in Matches(table')
  BY <1>1 DEF Matches
<1>7. FlowsTyped'
  <2>1. Matches(table') \subseteq Matches(table) /\ OnePerMatch(table')
    BY <1>1 DEF TypeOK, FlowsTyped, Matches, OnePerMatch
  <2> QED BY <1>1, <1>5, <2>1 DEF TypeOK, FlowsTyped, Matches, OnePerMatch
<1>8. SessionsTyped' /\ InstallTyped'
  BY <1>1 DEF TypeOK, SessionsTyped, InstallTyped, Sids
<1>9. TrackedFlowsReal'
  <2>1. \A s \in DOMAIN route_sessions : Real(route_sessions[s], table', notices')
    <3>1. \A m \in AllMatches : notices'[m] \in Nat /\ notices'[m] >= notices[m]
      BY <1>3, <1>4
    <3>2. \A m \in Matches(table) : m \in Matches(table') \/ notices'[m] > 0
      BY <1>2, <1>4, <1>6
    <3> QED BY <1>1, <3>1, <3>2, StayReal
  <2> QED BY <1>1, <2>1, RealNext
<1>10. InstallReal'
  <2> SUFFICES ASSUME ~disturbed, NEW i \in install
               PROVE  /\ tracking = {Matches(AllFlows(i.key, i.path))}
                      /\ Matches(AllFlows(i.key, i.path)) \subseteq Matches(table')
    BY <1>1 DEF InstallReal, Matches
  <2>1. /\ tracking = {Matches(AllFlows(i.key, i.path))}
        /\ Matches(AllFlows(i.key, i.path)) \subseteq Matches(table)
    BY <1>1 DEF InstallReal
  <2>2. \A m \in Matches(AllFlows(i.key, i.path)) : m.key = i.key
    <3>1. i.key \in Keys /\ i.path \in Routes[i.key]
      BY <1>1 DEF TypeOK, InstallTyped
    <3>2. \A g \in AllFlows(i.key, i.path) : g.key = i.key
      BY <3>1, PathFlows
    <3> QED BY <3>2 DEF Matches, Match
  <2>3. Match(f) \notin Matches(AllFlows(i.key, i.path))
    <3>1. Match(f).key = f.key
      BY DEF Match
    <3> QED BY <1>1, <2>2, <3>1
  <2> QED BY <1>6, <2>1, <2>3
<1> QED BY <1>5, <1>7, <1>8, <1>9, <1>10 DEF StoreInv, TypeOK

\* A link failure deletes the flows of the sessions it hits and reports each; the
\* re-routed ones get flows of their own, as no two have the same key.
LEMMA LinkDeleteStore ==
    ASSUME StoreInv, OneSessionPerKey, NEW u \in Switches, NEW v \in Switches, LinkDelete(u, v)
    PROVE  StoreInv'
<1> DEFINE hit      == {s \in DOMAIN route_sessions : Uses(route_sessions[s].path, u, v)}
           key(s)   == route_sessions[s].key
           routable == {s \in hit : /\ key(s) \in LocalKeys
                                    /\ Shortest(key(s), graph') # {}}
           local    == {s \in hit : key(s) \in LocalKeys}
           dead     == {f \in table : \E s \in hit : HasFlow(s, Match(f))}
<1>1. /\ TypeOK /\ TrackedFlowsReal /\ Counted /\ InstallReal
      /\ events < MaxEvents /\ events' = events + 1
      /\ graph' = graph \ {<<u, v>>}
      /\ UNCHANGED <<next_sid, install>>
  BY DEF LinkDelete, StoreInv
<1>2. PICK new \in [routable -> UNION {Routes[k] : k \in LocalKeys}] :
        /\ \A s \in routable : new[s] \in Shortest(key(s), graph')
        /\ Reroute(hit, new)
  BY DEF LinkDelete
<1> DEFINE flows(s) == EndFlows(key(s), new[s], graph')
           fs       == UNION {flows(s) : s \in routable}
<1>3. /\ table' = Installed(table \ dead, fs)
      /\ notices' = [m \in AllMatches |-> notices[m] + IF m \in Matches(dead) THEN 1 ELSE 0]
      /\ route_sessions' =
           [s \in (DOMAIN route_sessions \ hit) \cup routable |->
              IF s \in routable THEN Session(key(s), new[s], Matches(flows(s)), FALSE)
              ELSE route_sessions[s]]
      /\ hints' = [k \in DOMAIN hints \cup {key(s) : s \in hit} |->
                     IF \E s \in hit : key(s) = k
                     THEN CHOOSE s \in hit : key(s) = k
                     ELSE hints[k]]
      /\ asked' = asked \cup {<<key(s), s>> : s \in hit \ local}
      /\ tracking' = IF local = {} THEN tracking ELSE {}
      /\ IF hit = {} THEN UNCHANGED disturbed ELSE Disturb
  BY <1>2 DEF Reroute
<1>4. \A s \in hit : /\ s \in DOMAIN route_sessions /\ s \in Sids /\ key(s) \in Keys
                     /\ \A r \in hit : key(r) = key(s) => r = s
  BY <1>1 DEF TypeOK, SessionsTyped, OneSessionPerKey
<1>5. \A s \in routable : /\ s \in hit /\ key(s) \in LocalKeys /\ key(s) \in Keys
                          /\ new[s] \in Routes[key(s)] /\ HopsOf(new[s]) \subseteq Links
  BY <1>1, <1>2, <1>4 DEF Shortest, TypeOK, FlowsTyped
<1>6. \A s \in routable : /\ OnePerMatch(flows(s)) /\ Matches(flows(s)) \subseteq AllMatches
                          /\ Matches(flows(s)) \subseteq Matches(AllFlows(key(s), new[s]))
                          /\ \A f \in flows(s) : f.key = key(s)
  BY <1>5, LocalFlows
<1> HIDE DEF hit, key, routable, local, dead, flows
<1>7. OnePerMatch(fs) /\ Matches(fs) \subseteq AllMatches
      /\ \A s \in routable : Matches(flows(s)) \subseteq Matches(fs)
  <2>1. ASSUME NEW f \in fs, NEW g \in fs, Match(f) = Match(g)
        PROVE  f = g
    <3>1. PICK r \in routable : f \in flows(r)
      OBVIOUS
    <3>2. PICK s \in routable : g \in flows(s)
      OBVIOUS
    <3>3. f.key = g.key
      BY <2>1 DEF Match
    <3>4. r = s
      BY <1>4, <1>5, <1>6, <3>1, <3>2, <3>3
    <3> QED BY <1>6, <2>1, <3>1, <3>2, <3>4 DEF OnePerMatch
  <2>2. \A m \in Matches(fs) : \E s \in routable : m \in Matches(flows(s))
    BY DEF Matches
  <2>3. \A s \in routable : Matches(flows(s)) \subseteq Matches(fs)
    BY DEF Matches
  <2> QED BY <1>6, <2>1, <2>2, <2>3 DEF OnePerMatch
<1> HIDE DEF fs
<1>8. OnePerMatch(table \ dead) /\ Matches(table \ dead) \subseteq AllMatches
  BY <1>1 DEF TypeOK, FlowsTyped, OnePerMatch, Matches
<1>9. OnePerMatch(table') /\ Matches(table') = Matches(table \ dead) \cup Matches(fs)
  BY <1>3, <1>7, <1>8, InstalledMatches
<1>10. \A m \in Matches(table) : m \in Matches(dead) \/ m \in Matches(table \ dead)
  BY DEF Matches
<1>11. /\ \A m \in AllMatches : notices[m] \in 0..MaxEvents /\ notices[m] <= events
       /\ events \in 0..MaxEvents /\ MaxEvents \in Nat
  BY <1>1, ConstantsAssumption DEF TypeOK, FlowsTyped, Counted
<1>12. \A m \in AllMatches : /\ notices'[m] \in 0..MaxEvents /\ notices'[m] <= events'
                             /\ notices'[m] >= notices[m]
                             /\ m \in Matches(dead) => notices'[m] > 0
  BY <1>1, <1>3, <1>11
<1>13. notices' \in [AllMatches -> 0..MaxEvents] /\ Counted'
  BY <1>1, <1>3, <1>11, <1>12 DEF Counted
<1>14. FlowsTyped'
  <2>1. graph' \subseteq Links
    BY <1>1 DEF TypeOK, FlowsTyped
  <2>2. Matches(table') \subseteq AllMatches
    BY <1>7, <1>8, <1>9
  <2> QED BY <1>9, <1>13, <2>1, <2>2 DEF FlowsTyped, Matches, OnePerMatch
<1>15. SessionsTyped' /\ Sids' = Sids
  <2>1. Sids' = Sids
    BY <1>1 DEF Sids
  <2>2. \A s \in DOMAIN route_sessions' :
          /\ s \in DOMAIN route_sessions
          /\ \/ route_sessions'[s] = route_sessions[s]
             \/ /\ s \in routable
                /\ route_sessions'[s] = Session(key(s), new[s], Matches(flows(s)), FALSE)
    BY <1>3, <1>4, <1>5
  <2>3. \A s \in DOMAIN route_sessions' :
          /\ route_sessions'[s].key \in Keys
          /\ route_sessions'[s].path \in Routes[route_sessions'[s].key]
          /\ route_sessions'[s].flows \subseteq AllMatches
          /\ route_sessions'[s].disturbed \in BOOLEAN
    <3> TAKE s \in DOMAIN route_sessions'
    <3>1. CASE route_sessions'[s] = route_sessions[s]
      BY <1>1, <2>2, <3>1 DEF TypeOK, SessionsTyped
    <3>2. CASE s \in routable /\ route_sessions'[s] = Session(key(s), new[s], Matches(flows(s)), FALSE)
      BY <1>5, <1>6, <3>2 DEF Session
    <3> QED BY <2>2, <3>1, <3>2
  <2>4. DOMAIN hints' \subseteq Keys
    BY <1>1, <1>3, <1>4 DEF TypeOK, SessionsTyped
  <2>5. ASSUME NEW k \in DOMAIN hints' PROVE hints'[k] \in Sids'
    <3>1. CASE \E s \in hit : key(s) = k
      <4>1. hints'[k] \in hit
        BY <1>3, <2>5, <3>1
      <4> QED BY <1>4, <2>1, <4>1
    <3>2. CASE ~\E s \in hit : key(s) = k
      BY <1>1, <1>3, <2>1, <2>5, <3>2 DEF TypeOK, SessionsTyped
    <3> QED BY <3>1, <3>2
  <2>6. DOMAIN route_sessions' \subseteq Sids'
    BY <1>1, <2>1, <2>2 DEF TypeOK, SessionsTyped
  <2> QED BY <1>1, <2>1, <2>3, <2>4, <2>5, <2>6 DEF TypeOK, SessionsTyped
<1>16. InstallTyped'
  <2>1. UNION tracking' \subseteq AllMatches /\ \A S, T \in tracking' : S = T
    BY <1>1, <1>3 DEF TypeOK, InstallTyped
  <2>2. disturbed' \in BOOLEAN
    BY <1>1, <1>3 DEF Disturb, TypeOK, InstallTyped
  <2>3. asked' \subseteq (Keys \ LocalKeys) \X (Sids \cup {0})
    <3>1. \A s \in hit \ local : key(s) \in Keys \ LocalKeys /\ s \in Sids
      BY <1>4 DEF local
    <3> QED BY <1>1, <1>3, <3>1 DEF TypeOK, InstallTyped
  <2> QED BY <1>1, <1>15, <2>1, <2>2, <2>3 DEF TypeOK, InstallTyped
<1>17. TrackedFlowsReal'
  <2>1. \A s \in DOMAIN route_sessions : Real(route_sessions[s], table', notices')
    <3>1. \A m \in AllMatches : notices'[m] \in Nat /\ notices'[m] >= notices[m]
      BY <1>11, <1>12
    <3>2. \A m \in Matches(table) : m \in AllMatches
      BY <1>1 DEF TypeOK, FlowsTyped
    <3>3. \A m \in Matches(table) : m \in Matches(table') \/ notices'[m] > 0
      BY <1>9, <1>10, <1>12, <3>2
    <3> QED BY <1>1, <3>1, <3>3, StayReal
  <2>2. \A s \in routable : Real(Session(key(s), new[s], Matches(flows(s)), FALSE), table', notices')
    BY <1>6, <1>7, <1>9 DEF Real, Session
  <2>3. \A s \in DOMAIN route_sessions' : Real(route_sessions'[s], table', notices')
    BY <1>3, <2>1, <2>2
  <2> QED BY <2>3, RealNext
<1>18. InstallReal'
  <2>1. CASE hit # {}
    BY <1>1, <1>3, <2>1, Disturbed
  <2>2. CASE hit = {}
    <3>1. dead = {} /\ local = {} /\ fs = {}
      BY <2>2 DEF dead, local, fs, routable
    <3>2. tracking' = tracking /\ disturbed' = disturbed
      BY <1>3, <2>2, <3>1
    <3>3. Matches(table') = Matches(table)
      <4>1. table \ dead = table /\ Matches({}) = {}
        BY <3>1 DEF Matches
      <4> QED BY <1>9, <3>1, <4>1
    <3> QED BY <1>1, <3>2, <3>3 DEF InstallReal, Matches
  <2> QED BY <2>1, <2>2
<1> QED BY <1>13, <1>14, <1>15, <1>16, <1>17, <1>18 DEF StoreInv, TypeOK

LEMMA StoreStep == StoreInv /\ OneSessionPerKey /\ [Next]_vars => StoreInv'
<1> SUFFICES ASSUME StoreInv, OneSessionPerKey, [Next]_vars
             PROVE  StoreInv'
  OBVIOUS
<1>1. CASE \E k \in Keys : LocalRoute(k)
  BY <1>1, LocalRouteStore
<1>2. CASE \E k \in Keys : RemoteRoute(k)
  BY <1>2, RemoteRouteStore
<1>3. CASE \E w \in AccessSwitches : OtherRoute(w)
  BY <1>3, OtherRouteStore
<1>4. CASE \E m \in AllMatches : FlowRemoved(m)
  BY <1>4, FlowRemovedStore
<1>5. CASE \E f \in table : Expire(f)
  BY <1>5, ExpireStore
<1>6. CASE \E u, v \in Switches : LinkAdd(u, v)
  BY <1>6, LinkAddStore
<1>7. CASE \E u, v \in Switches : LinkDelete(u, v)
  BY <1>7, LinkDeleteStore
<1>8. CASE ServerPath
  BY <1>8, ServerPathStore
<1>9. CASE ServerPathDone
  BY <1>9, ServerPathDoneStore
<1>10. CASE UNCHANGED vars
  <2>1. UNCHANGED <<graph, table, notices, route_sessions, next_sid, hints, tracking,
                    asked, install, disturbed, events, serverPaths>>
    BY <1>10 DEF vars, histVars
  <2>2. TypeOK' /\ Counted'
    BY <2>1, CountedKept DEF StoreInv, TypeOK, FlowsTyped, SessionsTyped, InstallTyped, Sids
  <2>3. TrackedFlowsReal' /\ InstallReal'
    BY <2>1 DEF StoreInv, TrackedFlowsReal, InstallReal
  <2> QED BY <2>2, <2>3 DEF StoreInv
<1> QED BY <1>1, <1>2, <1>3, <1>4, <1>5, <1>6, <1>7, <1>8, <1>9, <1>10 DEF Next

LEMMA StoreInit == Init => StoreInv
<1> SUFFICES ASSUME Init PROVE StoreInv
  OBVIOUS
<1>1. TypeOK
  <2>1. Matches({}) = {} /\ OnePerMatch({})
    BY DEF Matches, OnePerMatch
  <2>2. FlowsTyped
    BY <2>1, ConstantsAssumption DEF Init, FlowsTyped
  <2>3. SessionsTyped
    BY DEF Init, SessionsTyped
  <2>4. InstallTyped
    BY DEF Init, InstallTyped
  <2> QED BY <2>2, <2>3, <2>4 DEF TypeOK
<1>2. TrackedFlowsReal /\ InstallReal
  BY DEF Init, TrackedFlowsReal, InstallReal
<1>3. Counted
  BY ConstantsAssumption DEF Init, Counted
<1> QED BY <1>1, <1>2, <1>3 DEF StoreInv

\* Sessions, flows and requests have their types, and a session that nothing
\* disturbed while it was made holds flows of its own path only, each in its
\* switch or on its way out with a FlowRemoved event.
THEOREM SessionInvHolds == Spec => []SessionInv
<1>1. Init => StoreInv
  BY StoreInit
<1>2. StoreInv /\ OneSessionPerKey /\ [Next]_vars => StoreInv'
  BY StoreStep
<1>3. StoreInv => SessionInv
  BY DEF StoreInv, SessionInv
<1> QED BY <1>1, <1>2, <1>3, OneSessionPerKeyHolds, PTL DEF Spec
=============================================================================
