\* The life of the process, with the three slots of the code for three devices,
\* one connection, one request.  The process may end: no deadlock check.
CONSTANTS
  MaxClients = 3
  Conns = {c1}
  Gets = {g1}
  Null = Null
SPECIFICATION FairSpec
INVARIANTS TypeOK PollersSafe RegistryComplete
PROPERTIES NoLateClients Terminates
CHECK_DEADLOCK FALSE
