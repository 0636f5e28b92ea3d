----------------------------- MODULE ProxyProofs -----------------------------
(***************************************************************************)
(* The life of the process for every number of slots, connections and      *)
(* requests: the registry without a lock is safe for the polling threads   *)
(* because of the order in which main starts and stops them.               *)
(***************************************************************************)
EXTENDS Proxy, TLAPS

(* How far main has come when it starts the polling clients, ... *)
StartOrder ==
  /\ main \in {"init", "server"} => i = 1 /\ num_clients = 0
  /\ main \in {"init", "server"} \/ (main = "create" /\ i = 1) =>
       \A k \in Kinds : client[k] = "none"
  /\ main \in {"create", "register"} => i \in 1..Len(Started) /\ num_clients < i
  /\ main = "register" => num_clients < MaxClients /\ client[Started[i]] = "live"

(* ... and when it stops them: the slots up to i are empty again. *)
StopOrder ==
  /\ main \in {"stop_poll", "join_poll"} =>
       i <= num_clients /\ \A s \in Slots : s < i => slot[s] = Null
  /\ main = "join_poll" => i < num_clients /\ slot[i] # Null

(* Who is registered lives, and the inverter's client is the first one. *)
RegistryLive ==
  \A s \in Slots : s < num_clients /\ slot[s] # Null =>
    client[slot[s]] = "live" /\ (slot[s] = "HUAWEI" => s = 0)

(* The inverter's thread holds a client only while it reads the values. *)
HuaweiReads ==
  /\ at["HUAWEI"] # "none" => poller["HUAWEI"] = "values"
  /\ ptr["HUAWEI"] # Null => at["HUAWEI"] = "use"

(* The ring of the logger is there as long as anyone polls. *)
LoggerLife ==
  cached_values # "live" =>
    main \in {"init", "done", "crashed"} /\ \A k \in Kinds : poller[k] \in {"none", "ended"}

(* Past the join of modbus_tcp_server_stop the accept thread has ended. *)
ServerDown == ServerStopped => server = "ended"

Order == StartOrder /\ StopOrder /\ RegistryLive /\ HuaweiReads /\ LoggerLife /\ ServerDown
IInv == TypeOK /\ Order /\ PollersSafe /\ RegistryComplete

-----------------------------------------------------------------------------
(* Devices, connections and requests are told apart; three are started. *)
LEMMA Names ==
  /\ Len(Started) = 3 /\ Kinds = {"HUAWEI", "NRGKICK", "CAN_EZ3"}
  /\ \A j \in 1..3 : Started[j] \in Kinds /\ (Started[j] = "HUAWEI" <=> j = 1)
  /\ Null \notin Kinds /\ "HUAWEI" \in Lookers
  /\ \A t \in Conns \cup Gets : t \notin Kinds /\ t \in Lookers
  /\ Conns \cap Gets = {}
  <1>1. Len(Started) = 3 /\ DOMAIN Started = 1..3
    BY DEF Started
  <1>2. Started[1] = "HUAWEI" /\ Started[2] = "NRGKICK" /\ Started[3] = "CAN_EZ3"
    BY DEF Started
  <1>3. Kinds = {Started[j] : j \in 1..3}
    BY <1>1 DEF Kinds, ToSet
  <1>4. 1..3 = {1, 2, 3}
    OBVIOUS
  <1>5. Kinds = {"HUAWEI", "NRGKICK", "CAN_EZ3"}
    BY <1>2, <1>3, <1>4
  <1>6. \A j \in 1..3 : Started[j] \in Kinds /\ (Started[j] = "HUAWEI" <=> j = 1)
    BY <1>2, <1>4, <1>5
  <1> QED
    BY <1>1, <1>5, <1>6, LookersAssumption DEF Lookers

(* Before main has called anything. *)
LEMMA InitIInv == Init => IInv
  <1> SUFFICES ASSUME Init PROVE IInv
    OBVIOUS
  <1>1. TypeOK
    <2>1. 1 \in 1..Len(Started) /\ 1 \in 0..(MaxClients + Len(Started)) /\ 0 \in 0..MaxClients
      BY Names, SlotsAssumption
    <2> QED
      BY <2>1 DEF Init, TypeOK
  <1>2. Order
    BY Names DEF Init, Order, StartOrder, StopOrder, RegistryLive, HuaweiReads, LoggerLife,
                 ServerDown, ServerStopped
  <1>3. PollersSafe /\ RegistryComplete
    BY Names DEF Init, PollersSafe, RegistryComplete
  <1> QED
    BY <1>1, <1>2, <1>3 DEF IInv

-----------------------------------------------------------------------------
(* main starts the parts. *)
LEMMA StartTyped ==
  ASSUME IInv, LoggerInit \/ ServerStart \/ PollCreate \/ PollRegister \/ PollStartFails
               \/ HttpStart \/ EventLoop
  PROVE  TypeOK'
  <1>0. TypeOK
    BY DEF IInv
  <1> USE DEF regVars, pollVars, srvVars, httpVars, lookVars
  <1>1. CASE LoggerInit
    BY <1>0, <1>1 DEF TypeOK, LoggerInit
  <1>2. CASE ServerStart
    <2>1. CASE main' = "crashed"
      BY <1>0, <1>2, <2>1 DEF TypeOK, ServerStart
    <2>2. CASE main' # "crashed"
      BY <1>0, <1>2, <2>2 DEF TypeOK, ServerStart
    <2> QED
      BY <2>1, <2>2
  <1>3. CASE PollCreate
    BY <1>3, Names DEF IInv, TypeOK, PollCreate, Order, StartOrder
  <1>4. CASE PollRegister
    BY <1>4, Names, SlotsAssumption DEF IInv, TypeOK, PollRegister, NextStart, Order,
           StartOrder, Slots
  <1>5. CASE PollStartFails
    BY <1>0, <1>5, Names, SlotsAssumption DEF TypeOK, PollStartFails, NextStart
  <1>6. CASE HttpStart
    <2>1. UNCHANGED <<i, running, slot, num_clients, client, polling, poller, server_running,
                      listening, server, at, want, ptr, cached_values>>
      BY <1>6 DEF HttpStart
    <2>2. main' = "loop"
      BY <1>6 DEF HttpStart
    <2>3. http_running' \in BOOLEAN /\ http_open' \in BOOLEAN
      BY <1>0, <1>6 DEF HttpStart, TypeOK
    <2>4. http' \in {"none", "failed", "check"}
      BY <1>6 DEF HttpStart
    <2> QED
      BY <1>0, <2>1, <2>2, <2>3, <2>4 DEF TypeOK
  <1>7. CASE EventLoop
    BY <1>0, <1>7 DEF TypeOK, EventLoop
  <1> QED
    BY <1>1, <1>2, <1>3, <1>4, <1>5, <1>6, <1>7

(* main stops them. *)
LEMMA StopTyped ==
  ASSUME IInv, ServerStop \/ ServerShut \/ ServerJoin \/ PollStop \/ PollJoin \/ PollStopped
               \/ HttpStop \/ HttpClose \/ HttpJoin \/ LoggerDeinit
  PROVE  TypeOK'
  <1>0. TypeOK
    BY DEF IInv
  <1> USE DEF regVars, pollVars, srvVars, httpVars, lookVars
  <1>1. CASE ServerStop
    <2>1. UNCHANGED <<i, running, slot, num_clients, client, polling, poller, listening, server,
                      http_running, http_open, http, at, want, ptr, cached_values>>
      BY <1>1 DEF ServerStop
    <2>2. main' = "shut_server" /\ server_running' \in BOOLEAN
      BY <1>1 DEF ServerStop
    <2> QED
      BY <1>0, <2>1, <2>2 DEF TypeOK
  <1>2. CASE ServerShut
    <2>1. UNCHANGED <<i, running, slot, num_clients, client, polling, poller, server_running, server,
                      http_running, http_open, http, at, want, ptr, cached_values>>
      BY <1>2 DEF ServerShut
    <2>2. main' = "join_server" /\ listening' \in BOOLEAN
      BY <1>2 DEF ServerShut, Shut
    <2> QED
      BY <1>0, <2>1, <2>2 DEF TypeOK
  <1>3. CASE ServerJoin
    BY <1>0, <1>3, Names, SlotsAssumption DEF TypeOK, ServerJoin
  <1>4. CASE PollStop
    <2>1. i \in Slots /\ i + 1 \in 0..(MaxClients + Len(Started)) /\ slot[i] \in Kinds \cup {Null}
      BY <1>4, Names, SlotsAssumption DEF IInv, TypeOK, PollStop, Order, StopOrder, Slots
    <2>2. CASE Victim = Null
      BY <1>0, <1>4, <2>1, <2>2 DEF TypeOK, PollStop
    <2>3. CASE Victim # Null
      <3>1. UNCHANGED <<i, running, slot, num_clients, client, poller, server_running, listening,
                        server, http_running, http_open, http, at, want, ptr, cached_values>>
        BY <1>4, <2>3 DEF PollStop
      <3>2. main' = "join_poll" /\ polling' = [polling EXCEPT ![Victim] = FALSE]
        BY <1>4, <2>3 DEF PollStop
      <3>3. polling' \in [Kinds -> BOOLEAN]
        BY <1>0, <3>2 DEF TypeOK
      <3> QED
        BY <1>0, <3>1, <3>2, <3>3 DEF TypeOK
    <2> QED
      BY <2>2, <2>3
  <1>5. CASE PollJoin
    BY <1>5, Names, SlotsAssumption DEF IInv, TypeOK, PollJoin, Left, Victim, Order,
           StopOrder, Slots
  <1>6. CASE PollStopped
    BY <1>0, <1>6, SlotsAssumption DEF TypeOK, PollStopped
  <1>7. CASE HttpStop
    <2>1. UNCHANGED <<i, running, slot, num_clients, client, polling, poller, server_running,
                      listening, server, http_open, http, at, want, ptr, cached_values>>
      BY <1>7 DEF HttpStop
    <2>2. main' = "close_http" /\ http_running' \in BOOLEAN
      BY <1>7 DEF HttpStop
    <2> QED
      BY <1>0, <2>1, <2>2 DEF TypeOK
  <1>8. CASE HttpClose
    <2>1. UNCHANGED <<i, running, slot, num_clients, client, polling, poller, server_running,
                      listening, server, http_running, http, at, want, ptr, cached_values>>
      BY <1>8 DEF HttpClose
    <2>2. main' = "join_http" /\ http_open' \in BOOLEAN
      BY <1>8 DEF HttpClose
    <2> QED
      BY <1>0, <2>1, <2>2 DEF TypeOK
  <1>9. CASE HttpJoin
    BY <1>0, <1>9 DEF TypeOK, HttpJoin
  <1>10. CASE LoggerDeinit
    BY <1>0, <1>10 DEF TypeOK, LoggerDeinit
  <1> QED
    BY <1>1, <1>2, <1>3, <1>4, <1>5, <1>6, <1>7, <1>8, <1>9, <1>10

(* main keeps the order in which it starts and stops the clients. *)
LEMMA MainOrder == ASSUME IInv, Main PROVE Order' /\ PollersSafe' /\ RegistryComplete'
  <1> USE Names, SlotsAssumption DEF IInv, TypeOK, regVars, pollVars, srvVars, httpVars, lookVars, Registered
  <1>1. CASE LoggerInit
    <2>1. StartOrder' /\ StopOrder'
      BY <1>1 DEF LoggerInit, Order, StartOrder, StopOrder
    <2>2. RegistryLive' /\ HuaweiReads'
      BY <1>1 DEF LoggerInit, Order, StartOrder, StopOrder, RegistryLive, HuaweiReads
    <2>3. LoggerLife' /\ ServerDown'
      BY <1>1 DEF LoggerInit, Order, StartOrder, LoggerLife, ServerDown, ServerStopped,
             RegistryComplete
    <2>4. PollersSafe'
      BY <1>1 DEF LoggerInit, PollersSafe, Order, StartOrder, LoggerLife
    <2>5. RegistryComplete'
      BY <1>1 DEF LoggerInit, PollersSafe, RegistryComplete, Order, StartOrder, StopOrder
    <2> QED
      BY <2>1, <2>2, <2>3, <2>4, <2>5 DEF Order
  <1>2. CASE ServerStart
    <2>1. StartOrder' /\ StopOrder'
      BY <1>2 DEF ServerStart, Order, StartOrder, StopOrder
    <2>2. RegistryLive' /\ HuaweiReads'
      BY <1>2 DEF ServerStart, Order, StartOrder, StopOrder, RegistryLive, HuaweiReads
    <2>3. LoggerLife' /\ ServerDown'
      BY <1>2 DEF ServerStart, Order, StartOrder, LoggerLife, ServerDown, ServerStopped,
             RegistryComplete
    <2>4. PollersSafe'
      BY <1>2 DEF ServerStart, PollersSafe, Order, StartOrder, LoggerLife
    <2>5. RegistryComplete'
      BY <1>2 DEF ServerStart, PollersSafe, RegistryComplete, Order, StartOrder, StopOrder
    <2> QED
      BY <2>1, <2>2, <2>3, <2>4, <2>5 DEF Order
  <1>3. CASE PollCreate
    <2>1. StartOrder' /\ StopOrder'
      <3>1. Started[i] \in Kinds /\ client' = [client EXCEPT ![Started[i]] = "live"]
            /\ main' = "register" /\ i' = i /\ num_clients' = num_clients
            /\ i \in 1..Len(Started) /\ num_clients < i /\ num_clients < MaxClients
        BY <1>3 DEF PollCreate, Room, Order, StartOrder
      <3>2. client'[Started[i]] = "live"
        BY <3>1
      <3> QED
        BY <3>1, <3>2 DEF StartOrder, StopOrder
    <2>2. RegistryLive' /\ HuaweiReads'
      <3>1. \A k \in Kinds : client[k] = "live" => client'[k] = "live"
        BY <1>3 DEF PollCreate
      <3>2. RegistryLive'
        BY <1>3, <3>1 DEF PollCreate, Order, RegistryLive
      <3>3. Started[i] = "HUAWEI" => i = 1 /\ client["HUAWEI"] = "none"
        BY <1>3 DEF PollCreate, Order, StartOrder
      <3>4. at["HUAWEI"] # "none" => Started[i] # "HUAWEI"
        BY <3>3 DEF PollersSafe, Order, HuaweiReads
      <3>5. Started[i] # "HUAWEI" => poller'["HUAWEI"] = poller["HUAWEI"]
        BY <1>3 DEF PollCreate
      <3>6. UNCHANGED <<at, ptr>>
        BY <1>3 DEF PollCreate
      <3>7. HuaweiReads'
        BY <3>4, <3>5, <3>6 DEF Order, HuaweiReads
      <3> QED
        BY <3>2, <3>7
    <2>3. LoggerLife' /\ ServerDown'
      BY <1>3 DEF PollCreate, Order, StartOrder, LoggerLife, ServerDown, ServerStopped,
             RegistryComplete
    <2>4. PollersSafe'
      BY <1>3 DEF PollCreate, PollersSafe, Order, StartOrder, LoggerLife
    <2>5. RegistryComplete'
      BY <1>3 DEF PollCreate, PollersSafe, RegistryComplete, Order, StartOrder, StopOrder
    <2> QED
      BY <2>1, <2>2, <2>3, <2>4, <2>5 DEF Order
  <1>4. CASE PollRegister
    <2>1. StartOrder' /\ StopOrder'
      BY <1>4 DEF PollRegister, NextStart, Slots, Order, StartOrder, StopOrder
    <2>2. RegistryLive' /\ HuaweiReads'
      BY <1>4 DEF PollRegister, NextStart, Slots, Order, StartOrder, StopOrder,
             RegistryLive, HuaweiReads
    <2>3. LoggerLife' /\ ServerDown'
      BY <1>4 DEF PollRegister, NextStart, Slots, Order, StartOrder, LoggerLife,
             ServerDown, ServerStopped, RegistryComplete
    <2>4. PollersSafe'
      BY <1>4 DEF PollRegister, NextStart, Slots, PollersSafe, Order, StartOrder, LoggerLife
    <2>5. RegistryComplete'
      BY <1>4 DEF PollRegister, NextStart, Slots, PollersSafe, RegistryComplete, Order,
             StartOrder, StopOrder
    <2> QED
      BY <2>1, <2>2, <2>3, <2>4, <2>5 DEF Order
  <1>5. CASE PollStartFails
    <2>1. StartOrder' /\ StopOrder'
      BY <1>5 DEF PollStartFails, NextStart, Order, StartOrder, StopOrder
    <2>2. RegistryLive' /\ HuaweiReads'
      BY <1>5 DEF PollStartFails, NextStart, Order, StartOrder, StopOrder, RegistryLive,
             HuaweiReads
    <2>3. LoggerLife' /\ ServerDown'
      BY <1>5 DEF PollStartFails, NextStart, Order, StartOrder, LoggerLife, ServerDown,
             ServerStopped, RegistryComplete
    <2>4. PollersSafe'
      BY <1>5 DEF PollStartFails, NextStart, PollersSafe, Order, StartOrder, LoggerLife
    <2>5. RegistryComplete'
      BY <1>5 DEF PollStartFails, NextStart, PollersSafe, RegistryComplete, Order,
             StartOrder, StopOrder
    <2> QED
      BY <2>1, <2>2, <2>3, <2>4, <2>5 DEF Order
  <1>6. CASE HttpStart
    <2>1. StartOrder' /\ StopOrder'
      BY <1>6 DEF HttpStart, Order, StartOrder, StopOrder
    <2>2. RegistryLive' /\ HuaweiReads'
      BY <1>6 DEF HttpStart, Order, StartOrder, StopOrder, RegistryLive, HuaweiReads
    <2>3. LoggerLife' /\ ServerDown'
      BY <1>6 DEF HttpStart, Order, StartOrder, LoggerLife, ServerDown, ServerStopped,
             RegistryComplete
    <2>4. PollersSafe'
      BY <1>6 DEF HttpStart, PollersSafe, Order, StartOrder, LoggerLife
    <2>5. RegistryComplete'
      BY <1>6 DEF HttpStart, PollersSafe, RegistryComplete, Order, StartOrder, StopOrder
    <2> QED
      BY <2>1, <2>2, <2>3, <2>4, <2>5 DEF Order
  <1>7. CASE EventLoop
    <2>1. StartOrder' /\ StopOrder'
      BY <1>7 DEF EventLoop, Order, StartOrder, StopOrder
    <2>2. RegistryLive' /\ HuaweiReads'
      BY <1>7 DEF EventLoop, Order, StartOrder, StopOrder, RegistryLive, HuaweiReads
    <2>3. LoggerLife' /\ ServerDown'
      BY <1>7 DEF EventLoop, Order, StartOrder, LoggerLife, ServerDown, ServerStopped,
             RegistryComplete
    <2>4. PollersSafe'
      BY <1>7 DEF EventLoop, PollersSafe, Order, StartOrder, LoggerLife
    <2>5. RegistryComplete'
      BY <1>7 DEF EventLoop, PollersSafe, RegistryComplete, Order, StartOrder, StopOrder
    <2> QED
      BY <2>1, <2>2, <2>3, <2>4, <2>5 DEF Order
  <1>8. CASE ServerStop
    <2>1. StartOrder' /\ StopOrder'
      BY <1>8 DEF ServerStop, Order, StartOrder, StopOrder
    <2>2. RegistryLive' /\ HuaweiReads'
      BY <1>8 DEF ServerStop, Order, StartOrder, StopOrder, RegistryLive, HuaweiReads
    <2>3. LoggerLife' /\ ServerDown'
      BY <1>8 DEF ServerStop, Order, StartOrder, LoggerLife, ServerDown, ServerStopped,
             RegistryComplete
    <2>4. PollersSafe'
      BY <1>8 DEF ServerStop, PollersSafe, Order, StartOrder, LoggerLife
    <2>5. RegistryComplete'
      BY <1>8 DEF ServerStop, PollersSafe, RegistryComplete, Order, StartOrder, StopOrder
    <2> QED
      BY <2>1, <2>2, <2>3, <2>4, <2>5 DEF Order
  <1>9. CASE ServerShut
    <2>1. StartOrder' /\ StopOrder'
      BY <1>9 DEF ServerShut, Order, StartOrder, StopOrder
    <2>2. RegistryLive' /\ HuaweiReads'
      BY <1>9 DEF ServerShut, Order, StartOrder, StopOrder, RegistryLive, HuaweiReads
    <2>3. LoggerLife' /\ ServerDown'
      BY <1>9 DEF ServerShut, Order, StartOrder, LoggerLife, ServerDown, ServerStopped,
             RegistryComplete
    <2>4. PollersSafe'
      BY <1>9 DEF ServerShut, PollersSafe, Order, StartOrder, LoggerLife
    <2>5. RegistryComplete'
      BY <1>9 DEF ServerShut, PollersSafe, RegistryComplete, Order, StartOrder, StopOrder
    <2> QED
      BY <2>1, <2>2, <2>3, <2>4, <2>5 DEF Order
  <1>10. CASE ServerJoin
    <2>1. StartOrder' /\ StopOrder'
      BY <1>10 DEF ServerJoin, ServerJoined, Slots, Order, StartOrder, StopOrder
    <2>2. RegistryLive' /\ HuaweiReads'
      BY <1>10 DEF ServerJoin, ServerJoined, Order, StartOrder, StopOrder, RegistryLive,
             HuaweiReads
    <2>3. LoggerLife' /\ ServerDown'
      BY <1>10 DEF ServerJoin, ServerJoined, Order, StartOrder, LoggerLife, ServerDown,
             ServerStopped, RegistryComplete
    <2>4. PollersSafe'
      BY <1>10 DEF ServerJoin, ServerJoined, PollersSafe, Order, StartOrder, LoggerLife
    <2>5. RegistryComplete'
      BY <1>10 DEF ServerJoin, ServerJoined, PollersSafe, RegistryComplete, Order,
             StartOrder, StopOrder
    <2> QED
      BY <2>1, <2>2, <2>3, <2>4, <2>5 DEF Order
  <1>11. CASE PollStop
    <2>1. StartOrder' /\ StopOrder'
      BY <1>11 DEF PollStop, Victim, Slots, Order, StartOrder, StopOrder
    <2>2. RegistryLive' /\ HuaweiReads'
      BY <1>11 DEF PollStop, Victim, Order, StartOrder, StopOrder, RegistryLive, HuaweiReads
    <2>3. LoggerLife' /\ ServerDown'
      BY <1>11 DEF PollStop, Victim, Order, StartOrder, LoggerLife, ServerDown,
             ServerStopped, RegistryComplete
    <2>4. PollersSafe'
      BY <1>11 DEF PollStop, Victim, PollersSafe, Order, StartOrder, LoggerLife
    <2>5. RegistryComplete'
      BY <1>11 DEF PollStop, Victim, PollersSafe, RegistryComplete, Order, StartOrder,
             StopOrder
    <2> QED
      BY <2>1, <2>2, <2>3, <2>4, <2>5 DEF Order
  <1>12. CASE PollJoin
    <2>1. StartOrder' /\ StopOrder'
      <3>1. \A s \in Slots : slot[s] = Null => slot'[s] = Null
        BY <1>12 DEF PollJoin
      <3>2. i \in Slots => slot'[i] = Null
        BY <1>12 DEF PollJoin, Victim
      <3> QED
        BY <1>12, <3>1, <3>2 DEF PollJoin, Left, Slots, Order, StartOrder, StopOrder
    <2>2. RegistryLive' /\ HuaweiReads'
      BY <1>12 DEF PollJoin, Victim, Left, Order, StartOrder, StopOrder, RegistryLive,
             HuaweiReads
    <2>3. LoggerLife' /\ ServerDown'
      BY <1>12 DEF PollJoin, Victim, Left, Order, StartOrder, LoggerLife, ServerDown,
             ServerStopped, RegistryComplete
    <2>4. PollersSafe'
      <3>1. /\ i \in Slots /\ i < num_clients /\ Victim \in Kinds /\ poller[Victim] = "ended"
            /\ client' = [client EXCEPT ![Victim] = "freed"]
            /\ UNCHANGED <<poller, ptr, cached_values>>
        BY <1>12 DEF PollJoin, Victim, Order, StopOrder, Slots
      <3>2. poller["HUAWEI"] \in {"none", "ended"}
        <4>1. CASE Victim = "HUAWEI"
          BY <3>1, <4>1
        <4>2. CASE Victim # "HUAWEI"
          <5>1. \A s \in Slots : s < num_clients => slot[s] # "HUAWEI"
            BY <1>12, <3>1, <4>2 DEF PollJoin, Victim, Order, StopOrder, RegistryLive, Slots
          <5>2. client["HUAWEI"] # "live"
            BY <1>12, <5>1 DEF PollJoin, RegistryComplete
          <5> QED
            BY <5>2 DEF PollersSafe
        <4> QED
          BY <4>1, <4>2
      <3>3. ptr["HUAWEI"] = Null
        BY <3>2 DEF Order, HuaweiReads
      <3> QED
        BY <3>1, <3>2, <3>3 DEF PollersSafe
    <2>5. RegistryComplete'
      BY <1>12 DEF PollJoin, Victim, Left, PollersSafe, RegistryComplete, Order,
             StartOrder, StopOrder
    <2> QED
      BY <2>1, <2>2, <2>3, <2>4, <2>5 DEF Order
  <1>13. CASE PollStopped
    <2>1. StartOrder' /\ StopOrder'
      BY <1>13 DEF PollStopped, Order, StartOrder, StopOrder
    <2>2. RegistryLive' /\ HuaweiReads'
      BY <1>13 DEF PollStopped, Slots, Order, StartOrder, StopOrder, RegistryLive,
             HuaweiReads
    <2>3. LoggerLife' /\ ServerDown'
      BY <1>13 DEF PollStopped, Order, StartOrder, LoggerLife, ServerDown, ServerStopped,
             RegistryComplete
    <2>4. PollersSafe'
      BY <1>13 DEF PollStopped, PollersSafe, Order, StartOrder, LoggerLife
    <2>5. RegistryComplete'
      BY <1>13 DEF PollStopped, PollersSafe, RegistryComplete, Order, StartOrder, StopOrder
    <2> QED
      BY <2>1, <2>2, <2>3, <2>4, <2>5 DEF Order
  <1>14. CASE HttpStop
    <2>1. StartOrder' /\ StopOrder'
      BY <1>14 DEF HttpStop, Order, StartOrder, StopOrder
    <2>2. RegistryLive' /\ HuaweiReads'
      BY <1>14 DEF HttpStop, Order, StartOrder, StopOrder, RegistryLive, HuaweiReads
    <2>3. LoggerLife' /\ ServerDown'
      BY <1>14 DEF HttpStop, Order, StartOrder, LoggerLife, ServerDown, ServerStopped,
             RegistryComplete
    <2>4. PollersSafe'
      BY <1>14 DEF HttpStop, PollersSafe, Order, StartOrder, LoggerLife
    <2>5. RegistryComplete'
      BY <1>14 DEF HttpStop, PollersSafe, RegistryComplete, Order, StartOrder, StopOrder
    <2> QED
      BY <2>1, <2>2, <2>3, <2>4, <2>5 DEF Order
  <1>15. CASE HttpClose
    <2>1. StartOrder' /\ StopOrder'
      BY <1>15 DEF HttpClose, Order, StartOrder, StopOrder
    <2>2. RegistryLive' /\ HuaweiReads'
      BY <1>15 DEF HttpClose, Order, StartOrder, StopOrder, RegistryLive, HuaweiReads
    <2>3. LoggerLife' /\ ServerDown'
      BY <1>15 DEF HttpClose, Order, StartOrder, LoggerLife, ServerDown, ServerStopped,
             RegistryComplete
    <2>4. PollersSafe'
      BY <1>15 DEF HttpClose, PollersSafe, Order, StartOrder, LoggerLife
    <2>5. RegistryComplete'
      BY <1>15 DEF HttpClose, PollersSafe, RegistryComplete, Order, StartOrder, StopOrder
    <2> QED
      BY <2>1, <2>2, <2>3, <2>4, <2>5 DEF Order
  <1>16. CASE HttpJoin
    <2>1. StartOrder' /\ StopOrder'
      BY <1>16 DEF HttpJoin, Order, StartOrder, StopOrder
    <2>2. RegistryLive' /\ HuaweiReads'
      BY <1>16 DEF HttpJoin, Order, StartOrder, StopOrder, RegistryLive, HuaweiReads
    <2>3. LoggerLife' /\ ServerDown'
      BY <1>16 DEF HttpJoin, Order, StartOrder, LoggerLife, ServerDown, ServerStopped,
             RegistryComplete
    <2>4. PollersSafe'
      BY <1>16 DEF HttpJoin, PollersSafe, Order, StartOrder, LoggerLife
    <2>5. RegistryComplete'
      BY <1>16 DEF HttpJoin, PollersSafe, RegistryComplete, Order, StartOrder, StopOrder
    <2> QED
      BY <2>1, <2>2, <2>3, <2>4, <2>5 DEF Order
  <1>17. CASE LoggerDeinit
    <2>1. StartOrder' /\ StopOrder'
      BY <1>17 DEF LoggerDeinit, Order, StartOrder, StopOrder
    <2>2. RegistryLive' /\ HuaweiReads'
      BY <1>17 DEF LoggerDeinit, Order, StartOrder, StopOrder, RegistryLive, HuaweiReads
    <2>3. LoggerLife' /\ ServerDown'
      BY <1>17 DEF LoggerDeinit, Order, StartOrder, LoggerLife, ServerDown,
             ServerStopped, RegistryComplete
    <2>4. PollersSafe'
      BY <1>17 DEF LoggerDeinit, RegistryComplete, PollersSafe, Order, StartOrder,
             LoggerLife
    <2>5. RegistryComplete'
      BY <1>17 DEF LoggerDeinit, PollersSafe, RegistryComplete, Order, StartOrder, StopOrder
    <2> QED
      BY <2>1, <2>2, <2>3, <2>4, <2>5 DEF Order
  <1> QED
    BY <1>1, <1>2, <1>3, <1>4, <1>5, <1>6, <1>7, <1>8, <1>9, <1>10, <1>11, <1>12, <1>13,
       <1>14, <1>15, <1>16, <1>17
       DEF Main

-----------------------------------------------------------------------------
(* Signals, the servers and the threads of their clients touch neither the *)
(* registry nor a polling thread.                                          *)
LEMMA OtherStep ==
  ASSUME IInv, UNCHANGED <<i, regVars, pollVars, cached_values>>, main' \in {main, "crashed"},
         at'["HUAWEI"] = at["HUAWEI"], ptr'["HUAWEI"] = ptr["HUAWEI"],
         server = "ended" => server' = "ended"
  PROVE  Order' /\ PollersSafe' /\ RegistryComplete'
  <1> USE DEF IInv, regVars, pollVars
  <1>1. StartOrder' /\ StopOrder' /\ RegistryLive'
    BY DEF Order, StartOrder, StopOrder, RegistryLive
  <1>2. HuaweiReads' /\ LoggerLife' /\ ServerDown'
    BY DEF Order, HuaweiReads, LoggerLife, ServerDown, ServerStopped
  <1>3. PollersSafe' /\ RegistryComplete'
    BY DEF PollersSafe, RegistryComplete, Registered
  <1> QED
    BY <1>1, <1>2, <1>3 DEF Order

(* A scan of the registry keeps the types. *)
LEMMA FindTyped ==
  ASSUME TypeOK, NEW t \in Lookers, Find(t)
  PROVE  TypeOK' /\ Started[want[t]] \in Kinds
         /\ at' = [at EXCEPT ![t] = "use"]
         /\ ptr' = [ptr EXCEPT ![t] =
              IF Registered(Started[want[t]]) THEN Started[want[t]] ELSE Null]
  <1>1. Started[want[t]] \in Kinds
    BY Names DEF TypeOK
  <1> QED
    BY <1>1 DEF Find, TypeOK, mainVars, regVars, pollVars, srvVars, httpVars

(* Use of the client found keeps them; only its thread moves. *)
LEMMA UseTyped ==
  ASSUME TypeOK, NEW t \in Lookers, NEW last \in {1, 3}, NEW after \in {"none", "check"},
         Use(t, last, after)
  PROVE  /\ main' \in {main, "crashed"} /\ at[t] = "use"
         /\ UNCHANGED <<i, regVars, client, polling, srvVars, cached_values>>
         /\ at'[t] \in {"find", after} /\ ptr'[t] = Null
         /\ \A u \in Lookers \ {t} : at'[u] = at[u] /\ ptr'[u] = ptr[u]
         /\ poller' \in [Kinds -> {"none", "check", "cycle", "values", "log", "ended"}] => TypeOK'
  <1>1. /\ main' \in {main, "crashed"} /\ at[t] = "use"
        /\ UNCHANGED <<i, running, regVars, client, polling, srvVars, httpVars, cached_values>>
        /\ \/ want' = [want EXCEPT ![t] = @ + 1] /\ at' = [at EXCEPT ![t] = "find"]
              /\ want[t] < last
           \/ want' = [want EXCEPT ![t] = 1] /\ at' = [at EXCEPT ![t] = after]
        /\ ptr' = [ptr EXCEPT ![t] = Null]
    BY DEF Use, More
  <1>2. want' \in [Lookers -> 1..Len(Started)]
    <2>1. want[t] \in 1..3 /\ 1 \in 1..3 /\ (want[t] < last => want[t] + 1 \in 1..3)
      BY Names DEF TypeOK
    <2> QED
      BY <1>1, <2>1, Names DEF TypeOK
  <1>3. at' \in [Lookers -> {"none", "check", "read", "find", "use"}] /\ at'[t] \in {"find", after}
    BY <1>1 DEF TypeOK
  <1>4. ptr' \in [Lookers -> Kinds \cup {Null}] /\ ptr'[t] = Null
    BY <1>1 DEF TypeOK
  <1>5. \A u \in Lookers \ {t} : at'[u] = at[u] /\ ptr'[u] = ptr[u]
    BY <1>1 DEF TypeOK
  <1>6. poller' \in [Kinds -> {"none", "check", "cycle", "values", "log", "ended"}] => TypeOK'
    BY <1>1, <1>2, <1>3, <1>4 DEF TypeOK, regVars, srvVars, httpVars
  <1> QED
    BY <1>1, <1>3, <1>4, <1>5, <1>6

(* The Modbus server and the signal. *)
LEMMA ServerIInv == ASSUME IInv, Signal \/ Server PROVE IInv'
  <1>1. TypeOK'
    <2> USE DEF IInv, TypeOK, mainVars, regVars, pollVars, httpVars, lookVars
    <2>1. CASE Signal
      <3>1. running' \in BOOLEAN /\ UNCHANGED <<main, i, regVars, pollVars, srvVars, httpVars, lookVars, cached_values>>
        BY <2>1 DEF Signal
      <3> QED
        BY <3>1 DEF srvVars
    <2>2. CASE ServerBoot \/ ServerCheck
      <3>1. /\ server' \in {"check", "accept", "ended"}
            /\ server_running' \in BOOLEAN /\ listening' \in BOOLEAN
        BY <2>2 DEF ServerBoot, ServerCheck
      <3>2. UNCHANGED <<mainVars, regVars, pollVars, httpVars, lookVars, cached_values>>
        BY <2>2 DEF ServerBoot, ServerCheck
      <3> QED
        BY <3>1, <3>2
    <2>3. CASE ServerAccept \/ ServerWoken
      BY <2>3 DEF ServerAccept, ServerWoken
    <2>4. CASE ServerSpawnFails
      BY <2>4 DEF ServerSpawnFails
    <2>5. ASSUME NEW c \in Conns, ServerSpawn(c) PROVE TypeOK'
      <3>1. server' = "check" /\ at' \in [Lookers -> {"none", "check", "read", "find", "use"}]
        BY <2>5 DEF ServerSpawn
      <3>2. UNCHANGED <<mainVars, server_running, listening, regVars, pollVars, httpVars, want, ptr, cached_values>>
        BY <2>5 DEF ServerSpawn
      <3> QED
        BY <3>1, <3>2
    <2> QED
      BY <2>1, <2>2, <2>3, <2>4, <2>5 DEF Server, ServerRuns
  <1>2. /\ UNCHANGED <<i, regVars, pollVars, cached_values>> /\ main' \in {main, "crashed"}
        /\ at'["HUAWEI"] = at["HUAWEI"] /\ ptr'["HUAWEI"] = ptr["HUAWEI"]
        /\ server = "ended" => server' = "ended"
    <2>1. CASE Signal
      BY <2>1 DEF Signal, srvVars, lookVars
    <2>2. CASE ServerBoot \/ ServerCheck \/ ServerAccept \/ ServerWoken \/ ServerSpawnFails
      BY <2>2 DEF ServerBoot, ServerCheck, ServerAccept, ServerWoken, ServerSpawnFails,
                  mainVars, lookVars
    <2>3. ASSUME NEW c \in Conns, ServerSpawn(c)
          PROVE  /\ UNCHANGED <<main, i, regVars, pollVars, cached_values, ptr>>
                 /\ at'["HUAWEI"] = at["HUAWEI"] /\ server = "spawn"
      BY <2>3, Names DEF ServerSpawn, mainVars, IInv, TypeOK
    <2> QED
      BY <2>1, <2>2, <2>3 DEF Server, ServerRuns
  <1> QED
    BY <1>1, <1>2, OtherStep DEF IInv

(* The threads of its clients. *)
LEMMA ConnIInv == ASSUME IInv, NEW c \in Conns, Conn(c) PROVE IInv'
  <1>1. c \in Lookers /\ c # "HUAWEI"
    BY Names
  <1> DEFINE Apart == /\ UNCHANGED <<i, regVars, pollVars, server, cached_values>>
                      /\ main' \in {main, "crashed"}
                      /\ at'["HUAWEI"] = at["HUAWEI"] /\ ptr'["HUAWEI"] = ptr["HUAWEI"]
  <1>2. TypeOK' /\ Apart
    <2>1. ASSUME NEW from, NEW to \in {"none", "check", "read", "find"}, ConnMoves(c, from, to)
          PROVE  TypeOK' /\ Apart
      BY <1>1, <2>1 DEF ConnMoves, IInv, TypeOK, mainVars, regVars, pollVars, srvVars,
             httpVars
    <2>2. CASE Find(c)
      <3>1. TypeOK'
        BY <1>1, <2>2, FindTyped DEF IInv
      <3>2. Apart
        BY <1>1, <2>2 DEF IInv, TypeOK, Find, mainVars, srvVars
      <3> QED
        BY <3>1, <3>2
    <2>3. CASE Use(c, 1, "check") /\ UNCHANGED poller
      <3>1. /\ main' \in {main, "crashed"}
            /\ UNCHANGED <<i, regVars, client, polling, srvVars, cached_values>>
            /\ \A u \in Lookers \ {c} : at'[u] = at[u] /\ ptr'[u] = ptr[u]
            /\ poller' \in [Kinds -> {"none", "check", "cycle", "values", "log", "ended"}] => TypeOK'
        BY <1>1, <2>3, UseTyped DEF IInv
      <3>2. TypeOK'
        BY <2>3, <3>1 DEF IInv, TypeOK
      <3> QED
        BY <1>1, <2>3, <3>1, <3>2, Names DEF pollVars, srvVars
    <2>4. CASE \E from, to \in {"none", "check", "read", "find"} : ConnMoves(c, from, to)
      BY <2>1, <2>4
    <2> QED
      BY <2>2, <2>3, <2>4 DEF Conn
  <1> QED
    BY <1>2, OtherStep DEF IInv

(* The HTTP server and its request threads. *)
LEMMA HttpIInv == ASSUME IInv, Http \/ \E g \in Gets : Get(g) PROVE IInv'
  <1> DEFINE Apart == /\ UNCHANGED <<i, regVars, pollVars, server, cached_values>>
                      /\ main' \in {main, "crashed"}
                      /\ at'["HUAWEI"] = at["HUAWEI"] /\ ptr'["HUAWEI"] = ptr["HUAWEI"]
  <1>1. CASE Http
    <2>1. ASSUME HttpCheck PROVE TypeOK' /\ Apart
      <3>1. http' \in {"select", "ended"}
            /\ UNCHANGED <<mainVars, http_running, http_open, regVars, pollVars, srvVars, lookVars, cached_values>>
        BY <2>1 DEF HttpCheck
      <3> QED
        BY <3>1 DEF IInv, TypeOK, mainVars, regVars, pollVars, srvVars, lookVars
    <2>2. ASSUME HttpSelect PROVE TypeOK' /\ Apart
      <3>1. /\ http' = "check" /\ main' \in {main, "crashed"}
            /\ at' = at \/ \E g \in Gets : at' = [at EXCEPT ![g] = "find"]
            /\ UNCHANGED <<i, running, http_running, http_open, regVars, pollVars, srvVars, want, ptr, cached_values>>
        BY <2>2 DEF HttpSelect
      <3>2. /\ at' \in [Lookers -> {"none", "check", "read", "find", "use"}]
            /\ at'["HUAWEI"] = at["HUAWEI"]
        BY <3>1, Names DEF IInv, TypeOK
      <3>3. TypeOK'
        BY <3>1, <3>2 DEF IInv, TypeOK, regVars, pollVars, srvVars
      <3> QED
        BY <3>1, <3>2, <3>3 DEF srvVars
    <2>3. TypeOK' /\ Apart
      BY <1>1, <2>1, <2>2 DEF Http
    <2> QED
      BY <2>3, OtherStep DEF IInv
  <1>2. ASSUME NEW g \in Gets, Get(g) PROVE IInv'
    <2>1. g \in Lookers /\ g # "HUAWEI"
      BY Names
    <2>2. CASE Find(g)
      <3>1. TypeOK'
        BY <2>1, <2>2, FindTyped DEF IInv
      <3>2. Apart
        BY <2>1, <2>2 DEF IInv, TypeOK, Find, mainVars, srvVars
      <3> QED
        BY <3>1, <3>2, OtherStep DEF IInv
    <2>3. ASSUME NEW last \in {1, 3}, Use(g, last, "none"), UNCHANGED poller PROVE IInv'
      <3>1. /\ main' \in {main, "crashed"}
            /\ UNCHANGED <<i, regVars, client, polling, srvVars, cached_values>>
            /\ \A u \in Lookers \ {g} : at'[u] = at[u] /\ ptr'[u] = ptr[u]
            /\ poller' \in [Kinds -> {"none", "check", "cycle", "values", "log", "ended"}] => TypeOK'
        BY <2>1, <2>3, UseTyped DEF IInv
      <3>2. TypeOK'
        BY <2>3, <3>1 DEF IInv, TypeOK
      <3>3. Apart
        BY <2>1, <2>3, <3>1, Names DEF pollVars, srvVars
      <3> QED
        BY <3>2, <3>3, OtherStep DEF IInv
    <2> QED
      BY <1>2, <2>2, <2>3, Names DEF Get
  <1> QED
    BY <1>1, <1>2

(* The polling threads: whoever runs still has its client, and what the    *)
(* inverter's thread finds in the registry is alive.                       *)
LEMMA PollerStep ==
  ASSUME IInv, UNCHANGED <<i, regVars, client, cached_values, server>>,
         main' \in {main, "crashed"},
         \E k \in Kinds : poller[k] \notin {"none", "ended"},
         poller' \in [Kinds -> {"none", "check", "cycle", "values", "log", "ended"}],
         \A k \in Kinds : poller[k] \in {"none", "ended"} => poller'[k] \in {"none", "ended"},
         HuaweiReads',
         ptr'["HUAWEI"] # Null => client[ptr'["HUAWEI"]] = "live"
  PROVE  Order' /\ PollersSafe' /\ RegistryComplete'
  <1> USE DEF IInv, regVars
  <1>1. StartOrder' /\ StopOrder' /\ RegistryLive'
    BY DEF Order, StartOrder, StopOrder, RegistryLive
  <1>2. cached_values = "live"
    BY DEF Order, LoggerLife
  <1>3. LoggerLife' /\ ServerDown'
    BY <1>2 DEF Order, LoggerLife, ServerDown, ServerStopped
  <1>4. PollersSafe'
    BY <1>2, Names DEF PollersSafe
  <1>5. RegistryComplete'
    BY DEF RegistryComplete, Registered
  <1> QED
    BY <1>1, <1>3, <1>4, <1>5 DEF Order

(* The steps of a polling thread. *)
LEMMA PollerIInv == ASSUME IInv, NEW k \in Kinds, Poller(k) PROVE IInv'
  <1>1. "HUAWEI" \in Kinds /\ "HUAWEI" \in Lookers
    BY Names
  <1>2. CASE PollCheck(k)
    <2>1. /\ poller[k] = "check" /\ \E x \in {"cycle", "ended"} : poller' = [poller EXCEPT ![k] = x]
          /\ UNCHANGED <<mainVars, regVars, client, polling, srvVars, httpVars, lookVars, cached_values>>
      BY <1>2 DEF PollCheck
    <2>2. /\ poller' \in [Kinds -> {"none", "check", "cycle", "values", "log", "ended"}]
          /\ \A j \in Kinds : poller[j] \in {"none", "ended"} => poller'[j] \in {"none", "ended"}
          /\ poller["HUAWEI"] = "values" => poller'["HUAWEI"] = "values"
      BY <2>1, <1>1 DEF IInv, TypeOK
    <2>3. TypeOK'
      BY <2>1, <2>2 DEF IInv, TypeOK, mainVars, regVars, srvVars, httpVars, lookVars
    <2>4. HuaweiReads'
      BY <2>1, <2>2 DEF IInv, Order, HuaweiReads, lookVars
    <2> QED
      BY <2>1, <2>2, <2>3, <2>4, PollerStep DEF IInv, PollersSafe, mainVars, srvVars,
             lookVars
  <1>3. CASE PollCycle(k)
    <2>1. /\ poller[k] = "cycle" /\ main' \in {main, "crashed"}
          /\ \/ poller' = [poller EXCEPT ![k] = "check"] /\ at' = at
             \/ k = "HUAWEI" /\ poller' = [poller EXCEPT ![k] = "values"]
                /\ at' = [at EXCEPT ![k] = "find"]
          /\ UNCHANGED <<i, running, regVars, client, polling, srvVars, httpVars, want, ptr, cached_values>>
      BY <1>3 DEF PollCycle
    <2>2. /\ poller' \in [Kinds -> {"none", "check", "cycle", "values", "log", "ended"}]
          /\ \A j \in Kinds : poller[j] \in {"none", "ended"} => poller'[j] \in {"none", "ended"}
          /\ at' \in [Lookers -> {"none", "check", "read", "find", "use"}]
      BY <2>1, <1>1 DEF IInv, TypeOK
    <2>3. TypeOK'
      BY <2>1, <2>2 DEF IInv, TypeOK, regVars, srvVars, httpVars
    <2>4. HuaweiReads'
      BY <2>1, <1>1 DEF IInv, TypeOK, Order, HuaweiReads
    <2> QED
      BY <2>1, <2>2, <2>3, <2>4, PollerStep DEF IInv, PollersSafe, srvVars
  <1>4. CASE k = "HUAWEI" /\ Find(k)
    <2>1. TypeOK' /\ at' = [at EXCEPT !["HUAWEI"] = "use"] /\ at["HUAWEI"] = "find"
          /\ UNCHANGED <<mainVars, regVars, pollVars, srvVars, cached_values>>
          /\ ptr' = [ptr EXCEPT !["HUAWEI"] = IF Registered(Started[want["HUAWEI"]])
                                              THEN Started[want["HUAWEI"]] ELSE Null]
      BY <1>1, <1>4, FindTyped DEF IInv, Find
    <2>2. poller["HUAWEI"] = "values"
      BY <2>1 DEF IInv, Order, HuaweiReads
    <2>3. HuaweiReads'
      BY <2>1, <2>2, <1>1 DEF HuaweiReads, pollVars, IInv, TypeOK
    <2>4. ptr'["HUAWEI"] # Null => client[ptr'["HUAWEI"]] = "live"
      <3>1. ptr'["HUAWEI"] # Null => Registered(ptr'["HUAWEI"])
        BY <2>1, <1>1 DEF IInv, TypeOK
      <3> QED
        BY <3>1 DEF Registered, IInv, Order, RegistryLive
    <2>5. poller' \in [Kinds -> {"none", "check", "cycle", "values", "log", "ended"}]
      BY <2>1 DEF TypeOK
    <2> QED
      BY <1>1, <2>1, <2>2, <2>3, <2>4, <2>5, PollerStep DEF mainVars, pollVars, srvVars,
             IInv
  <1>5. CASE k = "HUAWEI" /\ PollUse
    <2>1. /\ main' \in {main, "crashed"} /\ at["HUAWEI"] = "use"
          /\ UNCHANGED <<i, regVars, client, polling, srvVars, cached_values>>
          /\ at'["HUAWEI"] \in {"find", "none"} /\ ptr'["HUAWEI"] = Null
          /\ poller' \in [Kinds -> {"none", "check", "cycle", "values", "log", "ended"}] => TypeOK'
      <3>1. Use("HUAWEI", 3, "none")
        BY <1>5, Names DEF PollUse
      <3> QED
        BY <1>1, <3>1, UseTyped DEF IInv
    <2>2. poller["HUAWEI"] = "values"
      BY <2>1 DEF IInv, Order, HuaweiReads
    <2>3. poller' = [poller EXCEPT !["HUAWEI"] = IF at'["HUAWEI"] = "none" THEN "log" ELSE "values"]
      BY <1>5 DEF PollUse
    <2>4. /\ poller' \in [Kinds -> {"none", "check", "cycle", "values", "log", "ended"}]
          /\ \A j \in Kinds : poller[j] \in {"none", "ended"} => poller'[j] \in {"none", "ended"}
          /\ at'["HUAWEI"] # "none" => poller'["HUAWEI"] = "values"
      BY <2>2, <2>3, <1>1 DEF IInv, TypeOK
    <2>5. HuaweiReads'
      BY <2>1, <2>4 DEF HuaweiReads
    <2> QED
      BY <1>1, <2>1, <2>2, <2>4, <2>5, PollerStep DEF srvVars, IInv
  <1>6. CASE k = "HUAWEI" /\ PollLog
    <2>1. /\ poller["HUAWEI"] = "log" /\ poller' = [poller EXCEPT !["HUAWEI"] = "check"]
          /\ main' \in {main, "crashed"}
          /\ UNCHANGED <<i, running, regVars, client, polling, srvVars, httpVars, lookVars, cached_values>>
      BY <1>6 DEF PollLog
    <2>2. /\ poller' \in [Kinds -> {"none", "check", "cycle", "values", "log", "ended"}]
          /\ \A j \in Kinds : poller[j] \in {"none", "ended"} => poller'[j] \in {"none", "ended"}
      BY <2>1, <1>1 DEF IInv, TypeOK
    <2>3. TypeOK'
      BY <2>1, <2>2 DEF IInv, TypeOK, regVars, srvVars, httpVars, lookVars
    <2>4. HuaweiReads'
      BY <2>1 DEF IInv, Order, HuaweiReads, lookVars
    <2> QED
      BY <1>1, <2>1, <2>2, <2>3, <2>4, PollerStep DEF IInv, PollersSafe, srvVars, lookVars
  <1> QED
    BY <1>2, <1>3, <1>4, <1>5, <1>6 DEF Poller

-----------------------------------------------------------------------------
(* Every step, by the thread that takes it. *)
LEMMA NextIInv == IInv /\ [Next]_vars => IInv'
  <1> SUFFICES ASSUME IInv, [Next]_vars PROVE IInv'
    OBVIOUS
  <1>1. CASE Main
    BY <1>1, MainOrder, StartTyped, StopTyped DEF Main, IInv
  <1>2. CASE Signal \/ Server \/ Http
    BY <1>2, ServerIInv, HttpIInv
  <1>3. CASE (\E k \in Kinds : Poller(k)) \/ (\E c \in Conns : Conn(c)) \/ (\E g \in Gets : Get(g))
    BY <1>3, PollerIInv, ConnIInv, HttpIInv
  <1>4. CASE UNCHANGED vars
    <2>1. TypeOK'
      BY <1>4 DEF IInv, TypeOK, vars, mainVars, regVars, pollVars, srvVars, httpVars,
             lookVars
    <2> QED
      BY <1>4, <2>1, OtherStep DEF IInv, vars, mainVars, srvVars, lookVars
  <1> QED
    BY <1>1, <1>2, <1>3, <1>4 DEF Next

(* The invariant holds in every reachable state. *)
LEMMA Invariance == Spec => []IInv
  <1>1. Init => IInv
    BY InitIInv
  <1>2. IInv /\ [Next]_vars => IInv'
    BY NextIInv
  <1> QED
    BY <1>1, <1>2, PTL DEF Spec

(* Indices, flags and registry keep their types: no slot beyond            *)
(* MAX_CLIENTS is ever written (modbus_tcp_poll.c 295-333).                *)
THEOREM TypeCorrect == Spec => []TypeOK
  <1>1. IInv => TypeOK
    BY DEF IInv
  <1> QED
    BY <1>1, Invariance, PTL

(* No polling thread uses freed memory, though the inverter's thread reads *)
(* the clients of the others without a lock: main stops it first, and the  *)
(* ring of the logger last (main.c 52-66, modbus_tcp_poll.c 379-387).      *)
THEOREM PollersAreSafe == Spec => []PollersSafe
  <1>1. IInv => PollersSafe
    BY DEF IInv
  <1> QED
    BY <1>1, Invariance, PTL

(* modbus_tcp_poll_stop_all finds every client that is still there and     *)
(* leaves none behind (modbus_tcp_poll.c 379-387).                         *)
THEOREM RegistryIsComplete == Spec => []RegistryComplete
  <1>1. IInv => RegistryComplete
    BY DEF IInv
  <1> QED
    BY <1>1, Invariance, PTL

(* The accept thread is the only one to start a client's thread, and it    *)
(* has been joined by then (modbus_tcp_server.c 242-252).                  *)
THEOREM NoClientsLate == Spec => NoLateClients
  <1>1. IInv /\ [Next]_vars =>
          [ServerStopped => \A c \in Conns : at[c] = "none" => at'[c] = "none"]_vars
    <2> SUFFICES ASSUME IInv, Next, ServerStopped, NEW c \in Conns, at[c] = "none"
                 PROVE  at'[c] = "none"
      BY DEF vars
    <2>1. server = "ended" /\ c \in Lookers /\ c \notin Gets /\ c # "HUAWEI"
      BY Names DEF IInv, Order, ServerDown
    <2>2. CASE Main
      BY <2>2 DEF Main, LoggerInit, ServerStart, PollCreate, PollRegister, PollStartFails,
        HttpStart, EventLoop, ServerStop, ServerShut, ServerJoin, PollStop, PollJoin,
        PollStopped, HttpStop, HttpClose, HttpJoin, LoggerDeinit, lookVars
    <2>3. CASE Signal \/ Server
      BY <2>1, <2>3 DEF Signal, Server, ServerRuns, ServerBoot, ServerCheck, ServerAccept,
        ServerWoken, ServerSpawn, ServerSpawnFails, lookVars
    <2>4. CASE Http
      BY <2>1, <2>4 DEF Http, HttpCheck, HttpSelect, lookVars, IInv, TypeOK
    <2>5. CASE \E k \in Kinds : Poller(k)
      BY <2>1, <2>5 DEF Poller, PollCheck, PollCycle, Find, PollUse, Use, PollLog, lookVars,
        IInv, TypeOK
    <2>6. CASE \E d \in Conns : Conn(d)
      BY <2>1, <2>6 DEF Conn, ConnMoves, Find, Use, lookVars, IInv, TypeOK
    <2>7. CASE \E g \in Gets : Get(g)
      BY <2>1, <2>7 DEF Get, Find, Use, IInv, TypeOK
    <2> QED
      BY <2>2, <2>3, <2>4, <2>5, <2>6, <2>7 DEF Next
  <1> QED
    BY <1>1, Invariance, PTL DEF Spec, NoLateClients

=============================================================================
