------------------------------ MODULE MCProxy ------------------------------
(* Instances of Proxy for TLC: connections and requests are alike.         *)
EXTENDS Proxy, TLC

Alike == Permutations(Conns) \cup Permutations(Gets)
=============================================================================
