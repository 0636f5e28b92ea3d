---------------------------- MODULE MCModbusPoll ----------------------------
(* Instances of ModbusPoll for TLC. *)
EXTENDS ModbusPoll

TwoVersions == {1, 2}
OneVersion == {1}
=============================================================================
