-------------------------- MODULE MCServerSockets --------------------------
(* Instances of ServerSockets for TLC. *)
EXTENDS ServerSockets, TLC

CONSTANTS c1, c2, o1, o2

MCConns == {c1, c2}
MCOthers == {o1, o2}
Interchangeable == Permutations(MCConns) \cup Permutations(MCOthers)
=============================================================================
