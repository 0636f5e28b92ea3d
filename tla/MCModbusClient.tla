--------------------------- MODULE MCModbusClient ---------------------------
(* Instances of ModbusClient: the register tables of modbus_tcp_poll.c.     *)
EXTENDS ModbusClient

HuaweiTable == <<25, 4, 100, 62, 38, 88, 1, 4>>
NrgkickTable == <<69, 1>>
CanEz3Table == <<4>>

(* Cuts that leave the size of one answer of the table of another. *)
SomeCuts == {42}

(* What the theorems about a table suppose. *)
ASSUME TablesAssumption ==
  /\ Fits(HuaweiTable)
  /\ \A t \in {NrgkickTable, CanEz3Table} : Fits(t) /\ Apart(t) /\ Len(t) <= 2
=============================================================================
