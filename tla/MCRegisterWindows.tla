------------------------- MODULE MCRegisterWindows -------------------------
(* The Huawei table of modbus_tcp_poll.c:52-61, and requests at the edges  *)
(* of its blocks and of their windows.                                     *)
EXTENDS RegisterWindows

HuaweiAddress == <<30000, 30073, 32016, 37000, 37100, 37700, 47000, 47086>>
HuaweiQuantity == <<25, 4, 100, 62, 38, 88, 1, 4>>

Edges(i) ==
  LET first == HuaweiAddress[i]
      size == HuaweiQuantity[i]
  IN  {first - 1, first, first + 1, first + size - 1, first + size, first + 2 * size - 1}
EdgeRequests ==
  (UNION {Edges(i) : i \in {2, 4, 5, 8}}) \X {1, 2, 4, 5, 20, 38, 62, 63}
=============================================================================
