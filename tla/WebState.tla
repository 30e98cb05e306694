------------------------------ MODULE WebState ------------------------------
(***************************************************************************)
(* The graph as the web interface shows it: client threads that rebuild    *)
(* the shared graph when a controller has reported, and web threads that   *)
(* answer /api/graph from a cached payload or build a new one.             *)
(*                                                                         *)
(*   web_state_store.py  WebStateStore                                     *)
(*   web_api.py          /api/graph                                        *)
(*   server_agent.py     handle_topo_message, update_graph                 *)
(*                                                                         *)
(* Only the store has a lock.  A graph is the number of times it has been  *)
(* written, and a payload the graph it began with.  The three kinds of     *)
(* version the store counts only grow and are compared together: one       *)
(* number stands for them.  The cache has one key, include_flows fixed.    *)
(***************************************************************************)
EXTENDS Integers, FiniteSets

CONSTANTS
    Writers,     \* threads that rebuild the graph
    Readers,     \* threads of the web server
    MaxStores,   \* bound: reports stored
    MaxDraws,    \* bound: writes to the graph after it is cleared, in all
    MaxMarks     \* bound: marks for flows and sessions

ASSUME WebConstants ==
    /\ Writers \cap Readers = {}
    /\ MaxStores \in Nat /\ MaxDraws \in Nat /\ MaxMarks \in Nat

VARIABLES
    graph_writes, \* G: how often it has been written
    raised,       \* writers whose iteration will raise a RuntimeError
    version,      \* of topology, flows and sessions
    _graph_cache, \* the entry, with a version and a payload, as a set
    doing,        \* where every thread is
    cache_version, payload,  \* of each reader
    answer,       \* reader |-> the payload of its last answer, as a set
    \* bounds and history
    stores, draws, marks,
    settled,      \* the graph at the last mark_topology_dirty
    asked,        \* reader |-> settled when it asked
    unmarked      \* a rebuild has raised since

counts  == <<stores, draws, marks>>
web     == <<cache_version, payload, answer, asked>>
webVars == <<graph_writes, raised, version, _graph_cache, doing, web, counts, settled, unmarked>>

Threads == Writers \cup Readers
Payloads == [graph : 0..graph_writes, torn : BOOLEAN]

WebTypeOK ==
    /\ graph_writes \in Nat
    /\ raised \subseteq {w \in Writers : doing[w] = "rebuild"}
    /\ version \in Nat
    /\ _graph_cache \subseteq [version : 0..version, payload : Payloads]
    /\ Cardinality(_graph_cache) <= 1
    /\ doing \in [Threads -> {"idle", "stored", "rebuild", "mark", "build", "cache"}]
    /\ cache_version \in [Readers -> 0..version]
    /\ payload \in [Readers -> Payloads]
    /\ answer \in [Readers -> SUBSET Payloads]
    /\ \A r \in Readers : Cardinality(answer[r]) <= 1
    /\ stores \in 0..MaxStores /\ draws \in 0..MaxDraws /\ marks \in 0..MaxMarks
    /\ settled \in 0..graph_writes
    /\ asked \in [Readers -> 0..settled]
    /\ unmarked \in BOOLEAN

WebInit ==
    /\ graph_writes = 0 /\ raised = {} /\ version = 0 /\ _graph_cache = {}
    /\ doing = [t \in Threads |-> "idle"]
    /\ cache_version = [r \in Readers |-> 0]
    /\ payload = [r \in Readers |-> [graph |-> 0, torn |-> FALSE]]
    /\ answer = [r \in Readers |-> {}]
    /\ stores = 0 /\ draws = 0 /\ marks = 0
    /\ settled = 0 /\ asked = [r \in Readers |-> 0] /\ unmarked = FALSE

Enter(t, label) == doing' = [doing EXCEPT ![t] = label]

-----------------------------------------------------------------------------
(* Threads that rebuild the graph *)

\* A report is stored in the server's tables.  If a key comes or goes, rebuilds that
\* are iterating over them will raise.
Store(w) ==
    /\ doing[w] = "idle"
    /\ stores < MaxStores /\ stores' = stores + 1
    /\ \E resized \in BOOLEAN :
         raised' = IF resized THEN {u \in Writers : doing[u] = "rebuild"} ELSE raised
    /\ Enter(w, "stored")
    /\ UNCHANGED <<graph_writes, version, _graph_cache, web, draws, marks, settled, unmarked>>

\* Payloads that are being built no longer show one graph.
WriteGraph ==
    /\ graph_writes' = graph_writes + 1
    /\ payload' = [r \in Readers |->
                     IF doing[r] = "build" THEN [payload[r] EXCEPT !.torn = TRUE]
                     ELSE payload[r]]
    /\ UNCHANGED <<cache_version, answer, asked>>

\* update_graph: clear the graph ...
ClearGraph(w) ==
    /\ doing[w] = "stored"
    /\ WriteGraph
    /\ Enter(w, "rebuild")
    /\ UNCHANGED <<raised, version, _graph_cache, counts, settled, unmarked>>

\* ... draw what the tables hold, into whatever graph another rebuild has made of it ...
Draw(w) ==
    /\ doing[w] = "rebuild"
    /\ draws < MaxDraws /\ draws' = draws + 1
    /\ WriteGraph
    /\ UNCHANGED <<raised, version, _graph_cache, doing, stores, marks, settled, unmarked>>

Drawn(w) ==
    /\ doing[w] = "rebuild" /\ w \notin raised
    /\ Enter(w, "mark")
    /\ UNCHANGED <<graph_writes, raised, version, _graph_cache, web, counts, settled, unmarked>>

\* ... or stop half-way, with a RuntimeError that the client's thread logs.
Raise(w) ==
    /\ w \in raised
    /\ raised' = raised \ {w}
    /\ unmarked' = TRUE
    /\ Enter(w, "idle")
    /\ UNCHANGED <<graph_writes, version, _graph_cache, web, counts, settled>>

MarkedNot == UNCHANGED <<version, _graph_cache>>     \* mutant of Marked
Marked == version' = version + 1 /\ _graph_cache' = {}

\* mark_topology_dirty
MarkTopology(w) ==
    /\ doing[w] = "mark"
    /\ Marked
    /\ settled' = graph_writes /\ unmarked' = FALSE
    /\ Enter(w, "idle")
    /\ UNCHANGED <<graph_writes, raised, web, counts>>

\* mark_switch_flows_dirty, and mark_route_sessions_dirty, which leaves the
\* cached entry alone: its version is no longer the current one.
MarkOther ==
    /\ marks < MaxMarks /\ marks' = marks + 1
    /\ version' = version + 1
    /\ _graph_cache' \in {{}, _graph_cache}
    /\ UNCHANGED <<graph_writes, raised, doing, web, stores, draws, settled, unmarked>>

-----------------------------------------------------------------------------
(* Threads of the web server: get_graph_snapshot *)

Current == {e \in _graph_cache : e.version = version}

Ask(r) == asked' = [asked EXCEPT ![r] = settled]

\* The cached payload, if it has the current version.
Hit(r) ==
    /\ doing[r] = "idle"
    /\ Current # {}
    /\ answer' = [answer EXCEPT ![r] = {e.payload : e \in Current}]
    /\ Ask(r)
    /\ UNCHANGED <<graph_writes, raised, version, _graph_cache, doing, cache_version, payload,
                   counts, settled, unmarked>>

\* The lock is released before _build_graph_payload reads the graph.
Miss(r) ==
    /\ doing[r] = "idle"
    /\ Current = {}
    /\ cache_version' = [cache_version EXCEPT ![r] = version]
    /\ payload' = [payload EXCEPT ![r] = [graph |-> graph_writes, torn |-> FALSE]]
    /\ answer' = [answer EXCEPT ![r] = {}]
    /\ Ask(r)
    /\ Enter(r, "build")
    /\ UNCHANGED <<graph_writes, raised, version, _graph_cache, counts, settled, unmarked>>

\* The graph has been read, or has changed under the iteration: then the answer
\* may be an error.
Built(r) ==
    /\ doing[r] = "build"
    /\ Enter(r, "cache") \/ (payload[r].torn /\ Enter(r, "idle"))
    /\ UNCHANGED <<graph_writes, raised, version, _graph_cache, web, counts, settled, unmarked>>

EntryNow(r) == [version |-> version, payload |-> payload[r]]  \* mutant of Entry
\* The version is the one read before the payload was built.
Entry(r) == [version |-> cache_version[r], payload |-> payload[r]]

Cache(r) ==
    /\ doing[r] = "cache"
    /\ _graph_cache' = {Entry(r)}
    /\ answer' = [answer EXCEPT ![r] = {payload[r]}]
    /\ Enter(r, "idle")
    /\ UNCHANGED <<graph_writes, raised, version, cache_version, payload, asked, counts,
                   settled, unmarked>>

-----------------------------------------------------------------------------
WebNext ==
    \/ \E w \in Writers :
         \/ Store(w) \/ ClearGraph(w) \/ Draw(w) \/ Drawn(w) \/ Raise(w)
         \/ MarkTopology(w)
    \/ MarkOther
    \/ \E r \in Readers : Hit(r) \/ Miss(r) \/ Built(r) \/ Cache(r)

WebSpec == WebInit /\ [][WebNext]_webVars
-----------------------------------------------------------------------------
(* Properties *)

\* With all rebuilds at rest, a cached payload that would be used is the graph as
\* it is: none that was built in the middle of a rebuild, or before it and put
\* into the cache after its mark, is used, unless a rebuild has raised and
\* marked nothing since the last mark.
CacheFresh ==
    (\A w \in Writers : doing[w] = "idle") /\ ~unmarked =>
        \A e \in Current : e.payload = [graph |-> graph_writes, torn |-> FALSE]

WebInv == WebTypeOK /\ CacheFresh

\* A request is never answered with a graph older than the last rebuild that had
\* ended when it was made, whoever built the payload and however late it came.
AnswerCurrent == \A r \in Readers : \A p \in answer[r] : p.graph >= asked[r]
=============================================================================
