---------------------------- MODULE MCSnapshot ----------------------------
(* Instances of Snapshot for TLC. *)
EXTENDS Snapshot

OneDay == {<<"discharge", "charge">>}
InverterBlock == {Inverter}
=============================================================================
