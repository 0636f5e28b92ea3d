--------------------------- MODULE MCSolarLogger ---------------------------
(* Instances of SolarLogger for TLC. *)
EXTENDS SolarLogger

AnyForce == BOOLEAN     \* the only call (modbus_tcp_poll.c:267) passes TRUE
=============================================================================
