------------------------------- MODULE Proxy -------------------------------
(***************************************************************************)
(* The life of the process: main.c starts the Modbus server, one polling   *)
(* thread per device and the HTTP server, waits for a signal and stops     *)
(* them again, while their threads look up polling clients in a registry   *)
(* that no lock protects.                                                  *)
(***************************************************************************)
EXTENDS Naturals, Sequences, SequencesExt

CONSTANTS
  MaxClients,   \* MAX_CLIENTS, slots of the registry
  Conns,        \* client threads of the Modbus server
  Gets,         \* request threads of the HTTP server
  Null          \* an empty slot; no client found

Started == <<"HUAWEI", "NRGKICK", "CAN_EZ3">>      \* in this order (main.c)
Kinds == ToSet(Started)
Slots == 0..(MaxClients - 1)
Lookers == {"HUAWEI"} \cup Conns \cup Gets         \* threads that look up clients

ASSUME SlotsAssumption == MaxClients \in Nat \ {0}
ASSUME LookersAssumption == Conns \cap Gets = {} /\ Kinds \cap (Conns \cup Gets \cup {Null}) = {}

VARIABLES
  main, i,                       \* main: where it is, and its loop index
  running,                       \* main.c: no signal has come
  slot, num_clients,             \* polling_clients
  client, polling, poller,       \* per kind: memory, client->running, thread
  cached_values,                 \* the ring of the logger
  server_running, listening, server,   \* Modbus server: flag, socket, accept thread
  http_running, http_open, http,       \* HTTP server alike
  at, want, ptr                  \* per looker: where it is, for what, found

mainVars == <<main, i, running>>
regVars == <<slot, num_clients>>
pollVars == <<client, polling, poller>>
srvVars == <<server_running, listening, server>>
httpVars == <<http_running, http_open, http>>
lookVars == <<at, want, ptr>>
vars == <<mainVars, regVars, pollVars, srvVars, httpVars, lookVars, cached_values>>

Ended == {"done", "crashed"}

Init ==
  /\ main = "init" /\ i = 1 /\ running = TRUE
  /\ slot = [s \in Slots |-> Null] /\ num_clients = 0
  /\ client = [k \in Kinds |-> "none"]
  /\ polling = [k \in Kinds |-> FALSE]
  /\ poller = [k \in Kinds |-> "none"]
  /\ cached_values = "none"
  /\ server_running = FALSE /\ listening = FALSE /\ server = "none"
  /\ http_running = FALSE /\ http_open = FALSE /\ http = "none"
  /\ at = [t \in Lookers |-> "none"]
  /\ want = [t \in Lookers |-> 1]
  /\ ptr = [t \in Lookers |-> Null]

-----------------------------------------------------------------------------
(* main: start *)
LoggerInit ==
  /\ main = "init" /\ main' = "server"
  /\ cached_values' = "live"
  /\ UNCHANGED <<i, running, regVars, pollVars, srvVars, httpVars, lookVars>>

(* Without memory or a thread the process exits. *)
ServerStart ==
  /\ main = "server"
  /\ \/ main' = "create" /\ server_running' = TRUE /\ server' = "boot"
     \/ main' = "crashed" /\ UNCHANGED <<server_running, server>>
  /\ UNCHANGED <<i, running, listening, regVars, pollVars, httpVars, lookVars, cached_values>>

NextStart ==
  IF i < Len(Started) THEN i' = i + 1 /\ main' = "create"
  ELSE i' = 0 /\ main' = "http"

Room == num_clients < MaxClients

(* modbus_tcp_poll_start, with the thread running before it is registered. *)
PollCreate ==
  LET k == Started[i]
  IN  /\ main = "create" /\ Room
      /\ client' = [client EXCEPT ![k] = "live"]
      /\ polling' = [polling EXCEPT ![k] = TRUE]
      /\ poller' = [poller EXCEPT ![k] = "check"]
      /\ main' = "register"
      /\ UNCHANGED <<i, running, regVars, srvVars, httpVars, lookVars, cached_values>>

PollRegister ==
  /\ main = "register"
  /\ slot' = [slot EXCEPT ![num_clients] = Started[i]]
  /\ num_clients' = num_clients + 1
  /\ NextStart
  /\ UNCHANGED <<running, pollVars, srvVars, httpVars, lookVars, cached_values>>

(* No slot or no memory; or no thread: then a thread that never was is     *)
(* joined and a mutex in freed memory unlocked, which may end the process. *)
PollStartFails ==
  /\ main = "create"
  /\ \/ NextStart
     \/ main' = "crashed" /\ Room /\ UNCHANGED i
  /\ UNCHANGED <<running, regVars, pollVars, srvVars, httpVars, lookVars, cached_values>>

(* "failed": no thread, but an identifier that is joined later.            *)
HttpStart ==
  /\ main = "http" /\ main' = "loop"
  /\ \/ http_running' = TRUE /\ http_open' = TRUE /\ http' = "check"
     \/ http' \in {"none", "failed"} /\ UNCHANGED <<http_running, http_open>>
  /\ UNCHANGED <<i, running, regVars, pollVars, srvVars, lookVars, cached_values>>

-----------------------------------------------------------------------------
(* The signal may interrupt any thread; select in main ends after 5 s.     *)
Signal ==
  /\ main \notin Ended /\ running
  /\ running' = FALSE
  /\ UNCHANGED <<main, i, regVars, pollVars, srvVars, httpVars, lookVars, cached_values>>

EventLoop ==
  /\ main = "loop" /\ ~running
  /\ main' = "stop_server"
  /\ UNCHANGED <<i, running, regVars, pollVars, srvVars, httpVars, lookVars, cached_values>>

-----------------------------------------------------------------------------
(* main: stop *)
ServerStop ==
  /\ main = "stop_server" /\ main' = "shut_server"
  /\ server_running' = FALSE
  /\ UNCHANGED <<i, running, listening, server, regVars, pollVars, httpVars, lookVars, cached_values>>

\* mutant: close without shutdown leaves accept blocked
CloseOnly == listening
Shut == FALSE

ServerShut ==
  /\ main = "shut_server" /\ main' = "join_server"
  /\ listening' = Shut
  /\ UNCHANGED <<i, running, server_running, server, regVars, pollVars, httpVars, lookVars, cached_values>>

\* mutant: the accept thread is not joined
JoinedAlways == TRUE
ServerJoined == server = "ended"

ServerJoin ==
  /\ main = "join_server" /\ ServerJoined
  /\ main' = "stop_poll" /\ i' = 0
  /\ UNCHANGED <<running, regVars, pollVars, srvVars, httpVars, lookVars, cached_values>>

(* modbus_tcp_poll_stop_all: client after client is told to stop, joined   *)
(* and freed; num_clients stays until all are.                             *)
\* mutant: num_clients counts down, as in modbus_tcp_poll_stop_client
LeftCountDown == num_clients - 1
Left == num_clients

\* mutant: the client registered last is stopped first
VictimBackwards == IF num_clients = 0 THEN Null ELSE slot[num_clients - 1 - i]
Victim == slot[i]

PollStop ==
  /\ main = "stop_poll" /\ i < num_clients
  /\ IF Victim = Null THEN i' = i + 1 /\ UNCHANGED <<main, polling>>
     ELSE /\ polling' = [polling EXCEPT ![Victim] = FALSE]
          /\ main' = "join_poll" /\ UNCHANGED i
  /\ UNCHANGED <<running, regVars, client, poller, srvVars, httpVars, lookVars, cached_values>>

PollJoin ==
  /\ main = "join_poll" /\ poller[Victim] = "ended"
  /\ client' = [client EXCEPT ![Victim] = "freed"]
  /\ slot' = [s \in Slots |-> IF slot[s] = Victim THEN Null ELSE slot[s]]
  /\ num_clients' = Left
  /\ main' = "stop_poll" /\ i' = i + 1
  /\ UNCHANGED <<running, polling, poller, srvVars, httpVars, lookVars, cached_values>>

PollStopped ==
  /\ main = "stop_poll" /\ i >= num_clients
  /\ num_clients' = 0
  /\ main' = "stop_http"
  /\ UNCHANGED <<i, running, slot, pollVars, srvVars, httpVars, lookVars, cached_values>>

HttpStop ==
  /\ main = "stop_http" /\ main' = "close_http"
  /\ http_running' = FALSE
  /\ UNCHANGED <<i, running, http_open, http, regVars, pollVars, srvVars, lookVars, cached_values>>

HttpClose ==
  /\ main = "close_http" /\ main' = "join_http"
  /\ http_open' = FALSE
  /\ UNCHANGED <<i, running, http_running, http, regVars, pollVars, srvVars, lookVars, cached_values>>

HttpJoin ==
  /\ main = "join_http"
  /\ \/ http \in {"none", "failed", "ended"} /\ main' = "deinit"
     \/ http = "failed" /\ main' = "crashed"
  /\ UNCHANGED <<i, running, regVars, pollVars, srvVars, httpVars, lookVars, cached_values>>

LoggerDeinit ==
  /\ main = "deinit" /\ main' = "done"
  /\ cached_values' = "freed"
  /\ UNCHANGED <<i, running, regVars, pollVars, srvVars, httpVars, lookVars>>

Main == \/ LoggerInit \/ ServerStart \/ PollCreate \/ PollRegister \/ PollStartFails
        \/ HttpStart \/ EventLoop \/ ServerStop \/ ServerShut \/ ServerJoin
        \/ PollStop \/ PollJoin \/ PollStopped \/ HttpStop \/ HttpClose \/ HttpJoin
        \/ LoggerDeinit

-----------------------------------------------------------------------------
(* Looking up a client and using it: modbus_tcp_poll_get_client_data(_raw). *)
Registered(k) == \E s \in Slots : s < num_clients /\ slot[s] = k

Find(t) ==
  /\ at[t] = "find"
  /\ ptr' = [ptr EXCEPT ![t] =
       IF Registered(Started[want[t]]) THEN Started[want[t]] ELSE Null]
  /\ at' = [at EXCEPT ![t] = "use"]
  /\ UNCHANGED <<mainVars, regVars, pollVars, srvVars, httpVars, want, cached_values>>

(* The thread goes on with the next kind, and after the last one writes    *)
(* the reply to its peer.  Reading freed memory may end the process, and   *)
(* so does writing to a peer that is gone (SIGPIPE).                       *)
Fatal(t, last) ==
  \/ ptr[t] # Null /\ client[ptr[t]] = "freed"
  \/ t # "HUAWEI" /\ want[t] = last

\* mutant: one device too many
MoreOff(t, last) == want[t] <= last
More(t, last) == want[t] < last
Use(t, last, after) ==
  /\ at[t] = "use"
  /\ IF More(t, last)
     THEN want' = [want EXCEPT ![t] = @ + 1] /\ at' = [at EXCEPT ![t] = "find"]
     ELSE want' = [want EXCEPT ![t] = 1] /\ at' = [at EXCEPT ![t] = after]
  /\ ptr' = [ptr EXCEPT ![t] = Null]
  /\ main' \in {main} \cup (IF Fatal(t, last) THEN {"crashed"} ELSE {})
  /\ UNCHANGED <<i, running, regVars, client, polling, srvVars, httpVars, cached_values>>

(* polling_thread: a cycle may fail to connect; that of the inverter ends  *)
(* with reading all cached values and logging them.  Device and database   *)
(* are peers that may be gone, too.                                        *)
PollCheck(k) ==
  /\ poller[k] = "check"
  /\ poller' = [poller EXCEPT ![k] = IF polling[k] THEN "cycle" ELSE "ended"]
  /\ UNCHANGED <<mainVars, regVars, client, polling, srvVars, httpVars, lookVars, cached_values>>

PollCycle(k) ==
  /\ poller[k] = "cycle"
  /\ \/ poller' = [poller EXCEPT ![k] = "check"] /\ main' \in {main, "crashed"} /\ UNCHANGED at
     \/ /\ k = "HUAWEI" /\ UNCHANGED main
        /\ poller' = [poller EXCEPT ![k] = "values"]
        /\ at' = [at EXCEPT ![k] = "find"]
  /\ UNCHANGED <<i, running, regVars, client, polling, srvVars, httpVars, want, ptr, cached_values>>

PollUse ==
  /\ Use("HUAWEI", Len(Started), "none")
  /\ poller' = [poller EXCEPT !["HUAWEI"] = IF at'["HUAWEI"] = "none" THEN "log" ELSE "values"]

PollLog ==
  /\ poller["HUAWEI"] = "log"
  /\ poller' = [poller EXCEPT !["HUAWEI"] = "check"]
  /\ main' \in {main, "crashed"}
  /\ UNCHANGED <<i, running, regVars, client, polling, srvVars, httpVars, lookVars, cached_values>>

Poller(k) ==
  /\ main \notin Ended
  /\ PollCheck(k) \/ PollCycle(k) \/ (k = "HUAWEI" /\ (Find(k) \/ PollUse \/ PollLog))

-----------------------------------------------------------------------------
(* modbus_tcp_server_thread *)
ServerBoot ==
  /\ server = "boot"
  /\ \/ server' = "check" /\ listening' = TRUE /\ UNCHANGED server_running
     \/ server' = "ended" /\ server_running' = FALSE /\ UNCHANGED listening
  /\ UNCHANGED <<mainVars, regVars, pollVars, httpVars, lookVars, cached_values>>

ServerCheck ==
  /\ server = "check"
  /\ server' = IF server_running THEN "accept" ELSE "ended"
  /\ UNCHANGED <<mainVars, server_running, listening, regVars, pollVars, httpVars, lookVars, cached_values>>

(* accept returns: with a connection, or with an error or interrupted.     *)
ServerAccept ==
  /\ server = "accept" /\ listening
  /\ IF server_running THEN server' \in {"spawn", "check"} ELSE server' = "ended"
  /\ UNCHANGED <<mainVars, server_running, listening, regVars, pollVars, httpVars, lookVars, cached_values>>

(* shutdown wakes a blocked accept. *)
ServerWoken ==
  /\ server = "accept" /\ ~listening
  /\ server' = IF server_running THEN "check" ELSE "ended"
  /\ UNCHANGED <<mainVars, server_running, listening, regVars, pollVars, httpVars, lookVars, cached_values>>

ServerSpawn(c) ==
  /\ server = "spawn" /\ server' = "check"
  /\ at[c] = "none" /\ at' = [at EXCEPT ![c] = "check"]
  /\ UNCHANGED <<mainVars, server_running, listening, regVars, pollVars, httpVars, want, ptr, cached_values>>

(* No memory; or no thread: then an identifier never assigned is detached, *)
(* which may end the process.                                              *)
ServerSpawnFails ==
  /\ server = "spawn" /\ server' = "check"
  /\ main' \in {main, "crashed"}
  /\ UNCHANGED <<i, running, server_running, listening, regVars, pollVars, httpVars, lookVars, cached_values>>

ServerRuns ==
  /\ main \notin Ended
  /\ \/ ServerBoot \/ ServerCheck \/ ServerWoken \/ ServerSpawnFails
     \/ \E c \in Conns : ServerSpawn(c)
Server == ServerRuns \/ (main \notin Ended /\ ServerAccept)

(* client_thread: detached, it sees server_running only between two reads. *)
ConnMoves(c, from, to) ==
  /\ at[c] = from
  /\ at' = [at EXCEPT ![c] = to]
  /\ UNCHANGED <<mainVars, regVars, pollVars, srvVars, httpVars, want, ptr, cached_values>>

Conn(c) ==
  /\ main \notin Ended
  /\ \/ server_running /\ ConnMoves(c, "check", "read")
     \/ ConnMoves(c, "check", "none")        \* told to stop, or idle for 60 s
     \/ ConnMoves(c, "read", "none")         \* the peer has closed
     \/ ConnMoves(c, "read", "check")        \* not a request that is served
     \/ ConnMoves(c, "read", "find")
     \/ Find(c)
     \/ Use(c, 1, "check") /\ UNCHANGED poller

-----------------------------------------------------------------------------
(* http_server_loop and handle_request *)
HttpCheck ==
  /\ http = "check"
  /\ http' = IF http_running THEN "select" ELSE "ended"
  /\ UNCHANGED <<mainVars, http_running, http_open, regVars, pollVars, srvVars, lookVars, cached_values>>

(* On a socket that was closed meanwhile, FD_SET(-1) may end the process.  *)
HttpSelect ==
  /\ http = "select"
  /\ http' = "check"
  /\ \/ UNCHANGED <<main, at>>
     \/ http_open /\ UNCHANGED main
        /\ \E g \in Gets : at[g] = "none" /\ at' = [at EXCEPT ![g] = "find"]
     \/ ~http_open /\ main' = "crashed" /\ UNCHANGED at
  /\ UNCHANGED <<i, running, http_running, http_open, regVars, pollVars, srvVars, want, ptr, cached_values>>

Http == main \notin Ended /\ (HttpCheck \/ HttpSelect)

(* /values reads all devices, /info the inverter. *)
Get(g) ==
  /\ main \notin Ended
  /\ \/ Find(g)
     \/ Use(g, Len(Started), "none") /\ UNCHANGED poller
     \/ want[g] = 1 /\ Use(g, 1, "none") /\ UNCHANGED poller

Next ==
  \/ Main \/ Signal \/ Server \/ Http
  \/ \E k \in Kinds : Poller(k)
  \/ \E c \in Conns : Conn(c)
  \/ \E g \in Gets : Get(g)

Spec == Init /\ [][Next]_vars

(* Every thread that is joined runs on: cycles, reads and select have time *)
(* limits, but accept waits without one.  Nothing is assumed of            *)
(* connections and requests.                                               *)
Fairness ==
  /\ WF_vars(Main) /\ WF_vars(ServerRuns) /\ WF_vars(Http)
  /\ \A k \in Kinds : WF_vars(Poller(k))
FairSpec == Spec /\ Fairness

-----------------------------------------------------------------------------
(* Type invariant. *)
TypeOK ==
  /\ main \in {"init", "server", "create", "register", "http", "loop", "stop_server",
               "shut_server", "join_server", "stop_poll", "join_poll", "stop_http",
               "close_http", "join_http", "deinit", "done", "crashed"}
  /\ i \in 0..(MaxClients + Len(Started)) /\ running \in BOOLEAN
  /\ slot \in [Slots -> Kinds \cup {Null}] /\ num_clients \in 0..MaxClients
  /\ client \in [Kinds -> {"none", "live", "freed"}]
  /\ polling \in [Kinds -> BOOLEAN]
  /\ poller \in [Kinds -> {"none", "check", "cycle", "values", "log", "ended"}]
  /\ cached_values \in {"none", "live", "freed"}
  /\ server_running \in BOOLEAN /\ listening \in BOOLEAN
  /\ server \in {"none", "boot", "check", "accept", "spawn", "ended"}
  /\ http_running \in BOOLEAN /\ http_open \in BOOLEAN
  /\ http \in {"none", "failed", "check", "select", "ended"}
  /\ at \in [Lookers -> {"none", "check", "read", "find", "use"}]
  /\ want \in [Lookers -> 1..Len(Started)]
  /\ ptr \in [Lookers -> Kinds \cup {Null}]

(* A polling thread never touches memory that is gone: not its own client, *)
(* not the clients the inverter's thread reads for the log, not the ring   *)
(* of the logger.  Only the order of stopping sees to that.                *)
PollersSafe ==
  /\ \A k \in Kinds : poller[k] \notin {"none", "ended"} => client[k] = "live"
  /\ ptr["HUAWEI"] # Null => client[ptr["HUAWEI"]] = "live"
  /\ poller["HUAWEI"] = "log" => cached_values = "live"

(* While clients are stopped one by one, those not stopped yet are still   *)
(* found (379-387), and none is left behind.                               *)
RegistryComplete ==
  /\ main # "crashed" => \A k \in Kinds :
       client[k] = "live" /\ (main = "register" => k # Started[i]) => Registered(k)
  /\ main \in {"stop_http", "close_http", "join_http", "deinit", "done"} =>
       \A k \in Kinds : client[k] # "live" /\ poller[k] \in {"none", "ended"}

(* Once modbus_tcp_server_stop has returned no new client is served; those *)
(* accepted before may go on.                                              *)
ServerStopped ==
  main \in {"stop_poll", "join_poll", "stop_http", "close_http", "join_http", "deinit"}
NoLateClients ==
  [][ServerStopped => \A c \in Conns : at[c] = "none" => at'[c] = "none"]_vars

(* A signal ends the process, whatever connections and devices do. *)
Terminates == ~running ~> main \in Ended
=============================================================================
