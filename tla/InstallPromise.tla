--------------------------- MODULE InstallPromise ---------------------------
(***************************************************************************)
(* What cross-domain path installation promises, without messages, threads *)
(* or queues: a packet is moved over a path at most once, by a controller  *)
(* that has installed the path.  If it asked for the path itself, every     *)
(* other controller the path needs has installed it too, or the server has  *)
(* excused those that did not answer.                                       *)
(* PathInstall implements this (its PromiseKept).                          *)
(***************************************************************************)
EXTENDS Integers

CONSTANTS
    Controllers,
    Packets,
    At          \* At[x]: the controller that packet x waits at

VARIABLES
    need,       \* decided path, <<requester, number>> |-> the controllers it needs
    done,       \* decided path |-> the controllers that installed it
    excused,    \* decided path |-> those the server stopped waiting for
    moved       \* packets that were forwarded

vars == <<need, done, excused, moved>>

Init ==
    /\ need = [p \in {} |-> {}]
    /\ done = [p \in {} |-> {}]
    /\ excused = [p \in {} |-> {}]
    /\ moved = {}

Decide(p, owners) ==
    /\ p \notin DOMAIN need
    /\ need' = [q \in DOMAIN need \cup {p} |-> IF q = p THEN owners ELSE need[q]]
    /\ done' = [q \in DOMAIN done \cup {p} |-> IF q = p THEN {} ELSE done[q]]
    /\ excused' = [q \in DOMAIN excused \cup {p} |-> IF q = p THEN {} ELSE excused[q]]
    /\ UNCHANGED moved

Install(p, c) ==
    /\ p \in DOMAIN need
    /\ c \in need[p]
    /\ done' = [done EXCEPT ![p] = @ \cup {c}]
    /\ UNCHANGED <<need, excused, moved>>

Excuse(p, late) ==
    /\ p \in DOMAIN need
    /\ late \subseteq need[p] \ {p[1]}
    /\ excused' = [excused EXCEPT ![p] = late]
    /\ UNCHANGED <<need, done, moved>>

Move(p, c, packets) ==
    /\ p \in DOMAIN need
    /\ c \in done[p]
    /\ p[1] = c => need[p] \subseteq done[p] \cup excused[p]
    /\ packets \subseteq {x \in Packets : At[x] = c} \ moved
    /\ moved' = moved \cup packets
    /\ UNCHANGED <<need, done, excused>>

\* The paths of a requester are numbered from 1 on.
NextNumbers(c) == {1} \cup {q[2] + 1 : q \in {r \in DOMAIN need : r[1] = c}}

Next ==
    \/ \E c \in Controllers, owners \in SUBSET Controllers :
         \E n \in NextNumbers(c) : Decide(<<c, n>>, owners)
    \/ \E p \in DOMAIN need, c \in Controllers : Install(p, c)
    \/ \E p \in DOMAIN need, late \in SUBSET Controllers : Excuse(p, late)
    \/ \E p \in DOMAIN need, c \in Controllers, packets \in SUBSET Packets :
         Move(p, c, packets)

Spec == Init /\ [][Next]_vars
=============================================================================
