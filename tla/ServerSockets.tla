--------------------------- MODULE ServerSockets ---------------------------
(***************************************************************************)
(* Who opens and closes which file descriptor of the Modbus server,        *)
(* components/modbus_tcp_server/modbus_tcp_server.c: the accept thread and *)
(* modbus_tcp_server_stop, called by main, share server_fd without a lock, *)
(* connections have threads of their own, and the system gives the lowest  *)
(* free number to whatever part of the program opens a socket next.        *)
(***************************************************************************)
EXTENDS Integers, FiniteSets, FiniteSetsExt

CONSTANTS
  MaxFd,    \* bound: numbers of descriptors, 0..MaxFd-1
  Conns,    \* bound: connections of peers, distinguished by who holds them
  Others,   \* sockets of pollers, HTTP server and database handler
  Free, Listener

Numbers == 0..(MaxFd - 1)
Closed == -1

ASSUME BoundsAssumption == MaxFd \in Nat \ {0}
ASSUME NamesAssumption ==
  /\ Free # Listener /\ {Free, Listener} \cap (Conns \cup Others) = {}
  /\ Conns \cap Others = {}

VARIABLES
  fd,              \* external: number -> the socket it stands for
  listening,       \* external: the listener's queue: "none", "open", "shut"
  server_running, server_fd,
  thread,          \* where modbus_tcp_server_thread is
  client_fd,       \* its client_fd
  stop,            \* where modbus_tcp_server_stop is
  conn,            \* connection -> [at, fd] of its thread
  other            \* external: socket of another part -> the number it holds

osVars == <<fd, listening>>
vars == <<osVars, server_running, server_fd, thread, client_fd, stop, conn, other>>

Idle == [at |-> "none", fd |-> Closed]

(* modbus_tcp_server_start has been called. *)
Init ==
  /\ fd = [n \in Numbers |-> Free] /\ listening = "none"
  /\ server_running = TRUE /\ server_fd = Closed
  /\ thread = "socket" /\ client_fd = Closed
  /\ stop = "run"
  /\ conn = [c \in Conns |-> Idle]
  /\ other = [o \in Others |-> Closed]

-----------------------------------------------------------------------------
(* External: the system's descriptors. *)
FreeNumbers == {n \in Numbers : fd[n] = Free}
Opens(s, n) == FreeNumbers # {} /\ n = Min(FreeNumbers) /\ fd' = [fd EXCEPT ![n] = s]

StandsFor(n, s) == n \in Numbers /\ fd[n] = s

Closes(n) ==
  /\ fd' = [m \in Numbers |-> IF m = n THEN Free ELSE fd[m]]
  /\ listening' = IF StandsFor(n, Listener) THEN "none" ELSE listening
(* A blocked accept keeps the socket it was called for. *)
ClosesUnder(n) ==
  /\ fd' = [m \in Numbers |-> IF m = n THEN Free ELSE fd[m]]
  /\ UNCHANGED listening

OtherOpens(o) ==
  /\ other[o] = Closed
  /\ \E n \in Numbers : Opens(o, n) /\ other' = [other EXCEPT ![o] = n]
  /\ UNCHANGED <<listening, server_running, server_fd, thread, client_fd, stop, conn>>
OtherCloses(o) ==
  /\ other[o] # Closed
  /\ Closes(other[o])
  /\ other' = [other EXCEPT ![o] = Closed]
  /\ UNCHANGED <<server_running, server_fd, thread, client_fd, stop, conn>>

-----------------------------------------------------------------------------
(* modbus_tcp_server_thread *)
Socket ==
  /\ thread = "socket"
  /\ \/ \E n \in Numbers : Opens(Listener, n) /\ server_fd' = n
        /\ thread' = "bind" /\ UNCHANGED server_running
     \/ server_fd' = Closed /\ server_running' = FALSE /\ thread' = "ended" /\ UNCHANGED fd
  /\ UNCHANGED <<listening, client_fd, stop, conn, other>>

(* setsockopt, bind and listen; what they are given may be closed, or      *)
(* another part's socket.                                                  *)
Bind ==
  /\ thread = "bind" /\ server_fd # Closed /\ fd[server_fd] # Free
  /\ listening' = IF fd[server_fd] = Listener THEN "open" ELSE listening
  /\ thread' = "check"
  /\ UNCHANGED <<fd, server_running, server_fd, client_fd, stop, conn, other>>
BindFails ==
  /\ thread = "bind" /\ thread' = "ended"
  /\ Closes(server_fd)
  /\ server_running' = FALSE
  /\ UNCHANGED <<server_fd, client_fd, stop, conn, other>>

Check ==
  /\ thread = "check"
  /\ thread' = IF server_running THEN "call" ELSE "close"
  /\ UNCHANGED <<osVars, server_running, server_fd, client_fd, stop, conn, other>>
(* accept fails at once on anything but the listener.                      *)
Call ==
  /\ thread = "call"
  /\ thread' = IF StandsFor(server_fd, Listener) THEN "accept" ELSE "accepted"
  /\ client_fd' = Closed
  /\ UNCHANGED <<osVars, server_running, server_fd, stop, conn, other>>

Accept(c) ==
  /\ thread = "accept" /\ listening = "open"
  /\ conn[c] = Idle /\ \A n \in Numbers : fd[n] # c
  /\ \E n \in Numbers : Opens(c, n) /\ client_fd' = n
  /\ thread' = "accepted"
  /\ UNCHANGED <<listening, server_running, server_fd, stop, conn, other>>
(* An error, a signal, or the shutdown. *)
AcceptFails ==
  /\ thread = "accept" /\ thread' = "accepted"
  /\ UNCHANGED <<osVars, server_running, server_fd, client_fd, stop, conn, other>>

Accepted ==
  /\ thread = "accepted"
  /\ thread' = IF ~server_running THEN "close" ELSE IF client_fd = Closed THEN "check" ELSE "spawn"
  /\ UNCHANGED <<osVars, server_running, server_fd, client_fd, stop, conn, other>>

Spawn ==
  /\ thread = "spawn" /\ thread' = "check"
  /\ conn' = [conn EXCEPT ![fd[client_fd]] = [at |-> "check", fd |-> client_fd]]
  /\ client_fd' = Closed
  /\ UNCHANGED <<osVars, server_running, server_fd, stop, other>>

\* mutant: a connection that gets no thread is kept open
SpawnFailsOpen == UNCHANGED osVars
SpawnFailsCloses == Closes(client_fd)
SpawnFails ==
  /\ thread = "spawn" /\ thread' = "check"
  /\ SpawnFailsCloses
  /\ client_fd' = Closed
  /\ UNCHANGED <<server_running, server_fd, stop, conn, other>>

\* mutant: closing the listener is left to stop
ThreadLeaves == UNCHANGED osVars
ThreadCloses == Closes(server_fd)
Close ==
  /\ thread = "close" /\ thread' = "clear"
  /\ ThreadCloses
  /\ UNCHANGED <<server_running, server_fd, client_fd, stop, conn, other>>
Clear ==
  /\ thread = "clear" /\ thread' = "ended"
  /\ server_fd' = Closed
  /\ UNCHANGED <<osVars, server_running, client_fd, stop, conn, other>>

-----------------------------------------------------------------------------
(* modbus_tcp_server_stop *)
\* mutant: stop leaves the flag
FlagKept == server_running
Flag == FALSE
Stop ==
  /\ stop = "run" /\ stop' = "test"
  /\ server_running' = Flag
  /\ UNCHANGED <<osVars, server_fd, thread, client_fd, conn, other>>
StopTest ==
  /\ stop = "test"
  /\ stop' = IF server_fd # Closed THEN "shutdown" ELSE "join"
  /\ UNCHANGED <<osVars, server_running, server_fd, thread, client_fd, conn, other>>
(* Before listen there is nothing to shut down. *)
StopShutdown ==
  /\ stop = "shutdown" /\ stop' = "close"
  /\ listening' = IF StandsFor(server_fd, Listener) /\ listening = "open" THEN "shut" ELSE listening
  /\ UNCHANGED <<fd, server_running, server_fd, thread, client_fd, conn, other>>
StopClose ==
  /\ stop = "close" /\ stop' = "clear"
  /\ IF thread = "accept" THEN ClosesUnder(server_fd) ELSE Closes(server_fd)
  /\ UNCHANGED <<server_running, server_fd, thread, client_fd, conn, other>>
StopClear ==
  /\ stop = "clear" /\ stop' = "join"
  /\ server_fd' = Closed
  /\ UNCHANGED <<osVars, server_running, thread, client_fd, conn, other>>
StopJoin ==
  /\ stop = "join" /\ thread = "ended" /\ stop' = "done"
  /\ UNCHANGED <<osVars, server_running, server_fd, thread, client_fd, conn, other>>

-----------------------------------------------------------------------------
(* client_thread *)
ConnMoves(c, from, to) ==
  /\ conn[c].at = from
  /\ conn' = [conn EXCEPT ![c].at = to]
  /\ UNCHANGED <<osVars, server_running, server_fd, thread, client_fd, stop, other>>

\* mutant: the handler returns where it should end the thread
GoesOn(c) == [conn[c] EXCEPT !.at = "check"]
\* mutant: so it does, with what it has freed
GoesOnFreed(c) == [Idle EXCEPT !.at = "check"]
Ends(c) == Idle
ConnCloses(c) ==
  /\ \/ conn[c].at = "check"     \* told to stop, or idle for 60 s
     \/ conn[c].at = "read"      \* the peer has closed
  /\ Closes(conn[c].fd)
  /\ conn' = [conn EXCEPT ![c] = Ends(c)]
  /\ UNCHANGED <<server_running, server_fd, thread, client_fd, stop, other>>

Next ==
  \/ Socket \/ Bind \/ BindFails \/ Check \/ Call \/ AcceptFails \/ Accepted
  \/ Spawn \/ SpawnFails \/ Close \/ Clear
  \/ Stop \/ StopTest \/ StopShutdown \/ StopClose \/ StopClear \/ StopJoin
  \/ \E c \in Conns :
       \/ Accept(c) \/ ConnCloses(c) \/ ConnMoves(c, "read", "check")
       \/ server_running /\ ConnMoves(c, "check", "read")
  \/ \E o \in Others : OtherOpens(o) \/ OtherCloses(o)

Spec == Init /\ [][Next]_vars

-----------------------------------------------------------------------------
(* Type invariant. *)
TypeOK ==
  /\ fd \in [Numbers -> Conns \cup Others \cup {Free, Listener}]
  /\ listening \in {"none", "open", "shut"} /\ server_running \in BOOLEAN
  /\ server_fd \in Numbers \cup {Closed} /\ client_fd \in Numbers \cup {Closed}
  /\ thread \in {"socket", "bind", "check", "call", "accept", "accepted", "spawn",
                "close", "clear", "ended"}
  /\ stop \in {"run", "test", "shutdown", "close", "clear", "join", "done"}
  /\ conn \in [Conns -> [at : {"none", "check", "read"}, fd : Numbers \cup {Closed}]]
  /\ \A c \in Conns : conn[c].at = "none" <=> conn[c].fd = Closed
  /\ other \in [Others -> Numbers \cup {Closed}]

InLoop == thread \in {"check", "call", "accept", "accepted", "spawn"}

(* Until the server is stopped each thread's number stands for its own     *)
(* socket: no descriptor is closed twice, on no path of the accept loop    *)
(* and of a connection (58-66, 137-149, 196-229), so that none that was    *)
(* given to a poller meanwhile is closed.  From then on server_fd may be   *)
(* closed by both main and the thread.                                     *)
OwnNumbers ==
  stop = "run" =>
    /\ InLoop => fd[server_fd] = Listener
    /\ thread = "spawn" => fd[client_fd] \in Conns
    /\ \A c \in Conns : conn[c] # Idle => fd[conn[c].fd] = c
    /\ \A o \in Others : other[o] # Closed => fd[other[o]] = o

(* Until the server is stopped, and whatever fails, no socket stays open   *)
(* that nobody holds (58-66, 137-149, 160-190, 210-229).  A connection     *)
(* that is accepted while the server stops is never closed (197).          *)
NoLeak ==
  stop = "run" => \A n \in Numbers :
    /\ fd[n] = Listener => server_fd = n /\ thread # "ended"
    /\ \A c \in Conns : fd[n] = c => conn[c].fd = n \/ (client_fd = n /\ thread \in {"accepted", "spawn"})

(* Once stop has returned the port is free, also if stop comes before the  *)
(* thread has opened its socket, and tests server_fd too early (159-234,   *)
(* 245).                                                                   *)
ListenerClosed == stop = "done" => \A n \in Numbers : fd[n] # Listener

(* stop never waits for a thread that nothing wakes: a thread that is      *)
(* still in accept when stop is about to join it has been shut down, by    *)
(* the number that was server_fd when it was read (196, 244-250).          *)
AcceptWoken == stop = "join" /\ thread = "accept" => listening # "open"
=============================================================================
