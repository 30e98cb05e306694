----------------------------- MODULE MCHostTable -----------------------------
(* Two switches with two ports each; of two hosts with one MAC address; one    *)
(* port of one switch is external.                                             *)
EXTENDS HostTable, TLC

CONSTANTS s1, s2, h1, h2, m

MCExternal == {<<s1, 2>>}
MCMac      == [h \in Hosts |-> m]
Symmetric  == Permutations({h1, h2})
=============================================================================
