------------------------- MODULE ServerSocketsProofs -------------------------
(***************************************************************************)
(* The descriptors of the Modbus server for any number of them, of         *)
(* connections and of sockets of other parts: until main closes server_fd  *)
(* every number is its holder's own, nothing is left open, and the accept  *)
(* thread is woken.                                                        *)
(***************************************************************************)
EXTENDS ServerSockets, WellFoundedInduction, TLAPS

(* client_fd is set exactly between accept and the thread it is given to. *)
InHand ==
  /\ thread = "accept" => client_fd = Closed
  /\ thread = "spawn" => client_fd # Closed

(* server_running is TRUE until the thread fails or stop clears it. *)
Flags ==
  /\ stop = "run" /\ thread # "ended" => server_running
  /\ stop # "run" => ~server_running

(* The listener stands at server_fd until someone closes it. *)
ListenerHeld ==
  \A n \in Numbers : fd[n] = Listener =>
    server_fd = n /\ thread \notin {"socket", "clear", "ended"} /\ stop # "clear"

(* When stop has found server_fd empty, the thread has not come far, or    *)
(* has ended.                                                              *)
Phases ==
  /\ thread = "socket" => server_fd = Closed
  /\ server_fd = Closed /\ stop \notin {"join", "done"} => thread \in {"socket", "ended"}
  /\ stop \in {"shutdown", "close", "clear"} => thread # "socket"
  /\ stop = "done" => thread = "ended"

(* Before the close of modbus_tcp_server_stop each number in a variable    *)
(* stands for the socket of that variable.                                 *)
Before == stop \in {"run", "test", "shutdown", "close"}
ListenerOwn ==
  Before /\ (InLoop \/ thread \in {"bind", "close"}) =>
    server_fd \in Numbers /\ fd[server_fd] = Listener
ClientOwn ==
  Before /\ thread \in {"accepted", "spawn"} /\ client_fd # Closed =>
    fd[client_fd] \in Conns /\ conn[fd[client_fd]] = Idle
ConnsOwn == Before => \A c \in Conns : conn[c] # Idle => fd[conn[c].fd] = c
OthersOwn == Before => \A o \in Others : other[o] # Closed => fd[other[o]] = o
Own == ListenerOwn /\ ClientOwn /\ ConnsOwn /\ OthersOwn

(* A thread that may wait in accept will be woken, or has been. *)
Woken ==
  stop \in {"close", "clear", "join", "done"} /\ thread \in {"call", "accept"} =>
    listening # "open"

IInv ==
  /\ TypeOK /\ InHand /\ Flags /\ ListenerHeld /\ Phases /\ Own /\ Woken
  /\ NoLeak

-----------------------------------------------------------------------------
(* The lowest free number is a free number. *)
LEMMA MinMember == ASSUME NEW S \in SUBSET Nat, S # {} PROVE Min(S) \in S
  <1>1. PICK x \in S : \A y \in S : ~(<<y, x>> \in OpToRel(<, Nat))
    BY WFMin, NatLessThanWellFounded
  <1>2. \A y \in S : x <= y
    <2> SUFFICES ASSUME NEW y \in S, y < x PROVE FALSE
      OBVIOUS
    <2>1. <<y, x>> \in Nat \X Nat /\ <<y, x>>[1] < <<y, x>>[2]
      OBVIOUS
    <2>2. <<y, x>> \in {ss \in Nat \X Nat : ss[1] < ss[2]}
      BY <2>1
    <2>3. <<y, x>> \in OpToRel(<, Nat)
      BY <2>2 DEF OpToRel
    <2> QED
      BY <1>1, <2>3
  <1> QED
    BY <1>2 DEF Min

(* A new descriptor has a number that was free. *)
LEMMA OpensFree ==
  ASSUME TypeOK, NEW s, NEW n, Opens(s, n)
  PROVE  n \in Numbers /\ fd[n] = Free /\ fd' = [fd EXCEPT ![n] = s]
         /\ \A m \in Numbers : fd'[m] = IF m = n THEN s ELSE fd[m]
  <1>1. FreeNumbers \in SUBSET Nat
    BY BoundsAssumption DEF FreeNumbers, Numbers
  <1>2. n \in FreeNumbers
    BY <1>1, MinMember DEF Opens
  <1> QED
    BY <1>2 DEF Opens, FreeNumbers, TypeOK

(* A close changes what one number stands for. *)
LEMMA ClosesOne ==
  ASSUME TypeOK, NEW n, Closes(n) \/ ClosesUnder(n)
  PROVE  /\ fd' \in [Numbers -> Conns \cup Others \cup {Free, Listener}]
         /\ listening' \in {"none", "open", "shut"}
         /\ \A m \in Numbers : fd'[m] = IF m = n THEN Free ELSE fd[m]
         /\ listening' = "open" => listening = "open"
  BY DEF Closes, ClosesUnder, TypeOK

(* Owners of descriptors are told apart. *)
LEMMA Names ==
  /\ Closed \notin Numbers
  /\ \A c \in Conns : c # Free /\ c # Listener /\ c \notin Others
  /\ \A o \in Others : o # Free /\ o # Listener
  /\ Free # Listener
  BY NamesAssumption, BoundsAssumption DEF Numbers, Closed

(* A connection holds a number exactly when a thread serves it. *)
LEMMA Busy ==
  ASSUME TypeOK, NEW c \in Conns
  PROVE  /\ conn[c] = Idle <=> conn[c].fd = Closed
         /\ conn[c] # Idle => conn[c].fd \in Numbers /\ conn[c].at # "none"
  <1>1. conn[c] \in [at : {"none", "check", "read"}, fd : Numbers \cup {Closed}]
        /\ (conn[c].at = "none" <=> conn[c].fd = Closed)
    BY DEF TypeOK
  <1>2. conn[c] = [at |-> conn[c].at, fd |-> conn[c].fd]
    BY <1>1
  <1>3. conn[c].at = "none" => conn[c] = Idle
    BY <1>1, <1>2 DEF Idle
  <1>4. conn[c] = Idle => conn[c].at = "none"
    BY DEF Idle
  <1> QED
    BY <1>1, <1>3, <1>4

(* Before the server has started. *)
LEMMA InitIInv == Init => IInv
  <1> SUFFICES ASSUME Init PROVE IInv
    OBVIOUS
  <1>1. TypeOK
    BY DEF Init, TypeOK, Idle
  <1>2. InHand /\ Flags /\ Phases /\ Woken
    BY DEF Init, InHand, Flags, Phases, Woken
  <1>3. ListenerHeld /\ Own /\ NoLeak
    BY Names DEF Init, ListenerHeld, Own, ListenerOwn, ClientOwn, ConnsOwn, OthersOwn,
           InLoop, NoLeak, Idle
  <1> QED
    BY <1>1, <1>2, <1>3 DEF IInv

-----------------------------------------------------------------------------
(* Steps of the accept thread that open and close nothing. *)
LEMMA ThreadIInv == ASSUME IInv, Bind \/ Check \/ Call \/ AcceptFails \/ Accepted PROVE IInv'
  <1> USE Names DEF IInv, osVars
  <1>1. CASE Bind
    <2>1. TypeOK'
      BY <1>1 DEF Bind, TypeOK
    <2>2. InHand' /\ Flags' /\ Phases' /\ ListenerHeld' /\ Woken'
      BY <1>1 DEF Bind, TypeOK, InHand, Flags, Phases, ListenerHeld, Woken, Own,
             ListenerOwn, Before, InLoop
    <2>3. Own' /\ NoLeak'
      BY <1>1 DEF Bind, TypeOK, Own, ListenerOwn, ClientOwn, ConnsOwn, OthersOwn, Before,
                  InLoop, Phases, InHand, Flags, NoLeak
    <2> QED
      BY <2>1, <2>2, <2>3
  <1>2. CASE Check
    <2>1. TypeOK'
      BY <1>2 DEF Check, TypeOK
    <2>2. InHand' /\ Flags' /\ Phases' /\ ListenerHeld' /\ Woken'
      BY <1>2 DEF Check, TypeOK, InHand, Flags, Phases, ListenerHeld, Woken, Own,
             ListenerOwn, Before, InLoop
    <2>3. Own' /\ NoLeak'
      BY <1>2 DEF Check, TypeOK, Own, ListenerOwn, ClientOwn, ConnsOwn, OthersOwn, Before,
                  InLoop, Phases, InHand, Flags, NoLeak
    <2> QED
      BY <2>1, <2>2, <2>3
  <1>3. CASE Call
    <2>1. TypeOK'
      BY <1>3 DEF Call, StandsFor, TypeOK
    <2>2. InHand' /\ Flags' /\ Phases' /\ ListenerHeld' /\ Woken'
      BY <1>3 DEF Call, StandsFor, TypeOK, InHand, Flags, Phases, ListenerHeld, Woken,
             Own, ListenerOwn, Before, InLoop
    <2>3. Own' /\ NoLeak'
      BY <1>3 DEF Call, StandsFor, TypeOK, Own, ListenerOwn, ClientOwn, ConnsOwn,
             OthersOwn, Before, InLoop, Phases, InHand, Flags, NoLeak
    <2> QED
      BY <2>1, <2>2, <2>3
  <1>4. CASE AcceptFails
    <2>1. TypeOK'
      BY <1>4 DEF AcceptFails, TypeOK
    <2>2. InHand' /\ Flags' /\ Phases' /\ ListenerHeld' /\ Woken'
      BY <1>4 DEF AcceptFails, TypeOK, InHand, Flags, Phases, ListenerHeld, Woken, Own,
             ListenerOwn, Before, InLoop
    <2>3. Own' /\ NoLeak'
      BY <1>4 DEF AcceptFails, TypeOK, Own, ListenerOwn, ClientOwn, ConnsOwn, OthersOwn,
             Before, InLoop, Phases, InHand, Flags, NoLeak
    <2> QED
      BY <2>1, <2>2, <2>3
  <1>5. CASE Accepted
    <2>1. TypeOK'
      BY <1>5 DEF Accepted, TypeOK
    <2>2. InHand' /\ Flags' /\ Phases' /\ ListenerHeld' /\ Woken'
      BY <1>5 DEF Accepted, TypeOK, InHand, Flags, Phases, ListenerHeld, Woken, Own,
             ListenerOwn, Before, InLoop
    <2>3. Own' /\ NoLeak'
      BY <1>5 DEF Accepted, TypeOK, Own, ListenerOwn, ClientOwn, ConnsOwn, OthersOwn,
             Before, InLoop, Phases, InHand, Flags, NoLeak
    <2> QED
      BY <2>1, <2>2, <2>3
  <1> QED
    BY <1>1, <1>2, <1>3, <1>4, <1>5

(* Steps of modbus_tcp_server_stop that close nothing. *)
LEMMA StopIInv == ASSUME IInv, Stop \/ StopTest \/ StopShutdown \/ StopClear \/ StopJoin PROVE IInv'
  <1> USE Names DEF IInv, osVars
  <1>1. CASE Stop
    <2>1. TypeOK'
      BY <1>1 DEF Stop, Flag, TypeOK
    <2>2. InHand' /\ Flags' /\ Phases' /\ ListenerHeld' /\ Woken'
      BY <1>1 DEF Stop, Flag, TypeOK, InHand, Flags, Phases, ListenerHeld, Woken, Own,
             ListenerOwn, Before, InLoop
    <2>3. Own' /\ NoLeak'
      BY <1>1 DEF Stop, Flag, TypeOK, Own, ListenerOwn, ClientOwn, ConnsOwn, OthersOwn,
             Before, InLoop, Phases, InHand, Flags, NoLeak
    <2> QED
      BY <2>1, <2>2, <2>3
  <1>2. CASE StopTest
    <2>1. TypeOK'
      BY <1>2 DEF StopTest, TypeOK
    <2>2. InHand' /\ Flags' /\ Phases' /\ ListenerHeld' /\ Woken'
      BY <1>2 DEF StopTest, TypeOK, InHand, Flags, Phases, ListenerHeld, Woken, Own,
             ListenerOwn, Before, InLoop
    <2>3. Own' /\ NoLeak'
      BY <1>2 DEF StopTest, TypeOK, Own, ListenerOwn, ClientOwn, ConnsOwn, OthersOwn,
             Before, InLoop, Phases, InHand, Flags, NoLeak
    <2> QED
      BY <2>1, <2>2, <2>3
  <1>3. CASE StopShutdown
    <2>1. TypeOK'
      BY <1>3 DEF StopShutdown, StandsFor, TypeOK
    <2>2. InHand' /\ Flags' /\ Phases' /\ ListenerHeld' /\ Woken'
      BY <1>3 DEF StopShutdown, StandsFor, TypeOK, InHand, Flags, Phases, ListenerHeld,
             Woken, Own, ListenerOwn, Before, InLoop
    <2>3. Own' /\ NoLeak'
      BY <1>3 DEF StopShutdown, StandsFor, TypeOK, Own, ListenerOwn, ClientOwn, ConnsOwn,
             OthersOwn, Before, InLoop, Phases, InHand, Flags, NoLeak
    <2> QED
      BY <2>1, <2>2, <2>3
  <1>4. CASE StopClear
    <2>1. TypeOK'
      BY <1>4 DEF StopClear, TypeOK
    <2>2. InHand' /\ Flags' /\ Phases' /\ ListenerHeld' /\ Woken'
      BY <1>4 DEF StopClear, TypeOK, InHand, Flags, Phases, ListenerHeld, Woken, Own,
             ListenerOwn, Before, InLoop
    <2>3. Own' /\ NoLeak'
      BY <1>4 DEF StopClear, TypeOK, Own, ListenerOwn, ClientOwn, ConnsOwn, OthersOwn,
             Before, InLoop, Phases, InHand, Flags, NoLeak
    <2> QED
      BY <2>1, <2>2, <2>3
  <1>5. CASE StopJoin
    <2>1. TypeOK'
      BY <1>5 DEF StopJoin, TypeOK
    <2>2. InHand' /\ Flags' /\ Phases' /\ ListenerHeld' /\ Woken'
      BY <1>5 DEF StopJoin, TypeOK, InHand, Flags, Phases, ListenerHeld, Woken, Own,
             ListenerOwn, Before, InLoop
    <2>3. Own' /\ NoLeak'
      BY <1>5 DEF StopJoin, TypeOK, Own, ListenerOwn, ClientOwn, ConnsOwn, OthersOwn,
             Before, InLoop, Phases, InHand, Flags, NoLeak
    <2> QED
      BY <2>1, <2>2, <2>3
  <1> QED
    BY <1>1, <1>2, <1>3, <1>4, <1>5

(* The listener gets its number. *)
LEMMA SocketIInv == ASSUME IInv, Socket PROVE IInv'
  <1> USE Names DEF IInv, osVars
  <1>1. TypeOK'
    <2>1. CASE \E n \in Numbers : Opens(Listener, n) /\ server_fd' = n
      <3>1. PICK n \in Numbers : fd' = [fd EXCEPT ![n] = Listener] /\ server_fd' = n
        BY <2>1, OpensFree
      <3>2. fd' \in [Numbers -> Conns \cup Others \cup {Free, Listener}]
        BY <3>1 DEF TypeOK
      <3> QED
        BY <3>1, <3>2 DEF Socket, TypeOK
    <2>2. CASE UNCHANGED fd
      BY <2>2 DEF Socket, TypeOK
    <2> QED
      BY <2>1, <2>2 DEF Socket
  <1>2. InHand' /\ Flags' /\ Phases'
    BY Names, OpensFree DEF Socket, TypeOK, InHand, Flags, Phases, ListenerHeld
  <1>3. ListenerHeld' /\ Woken'
    BY Names, OpensFree DEF Socket, TypeOK, ListenerHeld, Phases, Flags, Woken, Own,
           ListenerOwn, Before, InLoop
  <1>4. Own'
    <2>1. ListenerOwn'
      BY Names, OpensFree DEF Socket, TypeOK, Own, ListenerOwn, Before, InLoop, Phases
    <2>2. ClientOwn'
      BY Names, OpensFree DEF Socket, TypeOK, Own, ListenerOwn, ClientOwn, ConnsOwn,
             OthersOwn, Before, InLoop, InHand
    <2>3. ConnsOwn'
      BY Names, OpensFree, Busy DEF Socket, TypeOK, Own, ListenerOwn, ClientOwn,
             ConnsOwn, OthersOwn, Before, InLoop, InHand
    <2>4. OthersOwn'
      BY Names, OpensFree DEF Socket, TypeOK, Own, ListenerOwn, ClientOwn, ConnsOwn,
             OthersOwn, Before, InLoop, InHand
    <2> QED
      BY <2>1, <2>2, <2>3, <2>4 DEF Own
  <1>5. NoLeak'
    <2>1. \A n \in Numbers : fd[n] # Listener
      BY DEF Socket, ListenerHeld
    <2>2. stop' = "run" => \A n \in Numbers : fd'[n] = Listener => server_fd' = n /\ thread' # "ended"
      BY <2>1, OpensFree DEF Socket
    <2>3. \A n \in Numbers, c \in Conns : fd'[n] = c => fd[n] = c
      BY OpensFree DEF Socket
    <2> QED
      BY <2>2, <2>3 DEF Socket, NoLeak
  <1> QED
    BY <1>1, <1>2, <1>3, <1>4, <1>5

(* It is closed when bind or listen fails. *)
LEMMA BindFailsIInv == ASSUME IInv, BindFails PROVE IInv'
  <1> USE Names DEF IInv, osVars
  <1>1. TypeOK'
    BY Names, ClosesOne DEF BindFails, TypeOK
  <1>2. InHand' /\ Flags' /\ Phases'
    BY Names, ClosesOne DEF BindFails, TypeOK, InHand, Flags, Phases, ListenerHeld
  <1>3. ListenerHeld' /\ Woken'
    BY Names, ClosesOne DEF BindFails, TypeOK, ListenerHeld, Phases, Flags, Woken, Own,
           ListenerOwn, Before, InLoop
  <1>4. Own'
    <2>1. ListenerOwn'
      BY Names, ClosesOne DEF BindFails, TypeOK, Own, ListenerOwn, Before, InLoop, Phases
    <2>2. ClientOwn'
      BY Names, ClosesOne DEF BindFails, TypeOK, Own, ListenerOwn, ClientOwn, ConnsOwn,
             OthersOwn, Before, InLoop, InHand
    <2>3. ConnsOwn'
      BY Names, ClosesOne, Busy DEF BindFails, TypeOK, Own, ListenerOwn, ClientOwn,
             ConnsOwn, OthersOwn, Before, InLoop, InHand
    <2>4. OthersOwn'
      BY Names, ClosesOne DEF BindFails, TypeOK, Own, ListenerOwn, ClientOwn, ConnsOwn,
             OthersOwn, Before, InLoop, InHand
    <2> QED
      BY <2>1, <2>2, <2>3, <2>4 DEF Own
  <1>5. NoLeak'
    BY Names, ClosesOne DEF BindFails, TypeOK, NoLeak, Own, ListenerOwn, ClientOwn,
           Before, InLoop, InHand, Phases, ListenerHeld, Flags
  <1> QED
    BY <1>1, <1>2, <1>3, <1>4, <1>5

(* A connection is handed to a thread of its own, ... *)
LEMMA SpawnIInv == ASSUME IInv, Spawn PROVE IInv'
  <1> USE Names DEF IInv, osVars
  <1>1. TypeOK'
    <2> DEFINE served == [at |-> "check", fd |-> client_fd]
    <2>1. client_fd \in Numbers
      BY DEF Spawn, InHand, TypeOK
    <2>2. served \in [at : {"none", "check", "read"}, fd : Numbers \cup {Closed}]
          /\ served.at # "none" /\ served.fd # Closed
      BY <2>1
    <2>3. conn' = [conn EXCEPT ![fd[client_fd]] = served]
      BY DEF Spawn
    <2> HIDE DEF served
    <2>4. conn' \in [Conns -> [at : {"none", "check", "read"}, fd : Numbers \cup {Closed}]]
          /\ \A c \in Conns : conn'[c] = conn[c] \/ conn'[c] = served
      BY <2>2, <2>3 DEF TypeOK
    <2>5. \A c \in Conns : conn'[c].at = "none" <=> conn'[c].fd = Closed
      BY <2>2, <2>4 DEF TypeOK
    <2> QED
      BY <2>4, <2>5 DEF Spawn, TypeOK
  <1>2. InHand' /\ Flags' /\ Phases'
    BY Names DEF Spawn, TypeOK, InHand, Flags, Phases, ListenerHeld
  <1>3. ListenerHeld' /\ Woken'
    BY Names DEF Spawn, TypeOK, ListenerHeld, Phases, Flags, Woken, Own, ListenerOwn,
           Before, InLoop
  <1>4. Own'
    <2>1. ListenerOwn'
      BY Names DEF Spawn, TypeOK, Own, ListenerOwn, Before, InLoop, Phases
    <2>2. ClientOwn'
      BY Names DEF Spawn, TypeOK, Own, ListenerOwn, ClientOwn, ConnsOwn, OthersOwn,
             Before, InLoop, InHand
    <2>3. ConnsOwn'
      BY Names, Busy DEF Spawn, TypeOK, Own, ListenerOwn, ClientOwn, ConnsOwn, OthersOwn,
             Before, InLoop, InHand
    <2>4. OthersOwn'
      BY Names DEF Spawn, TypeOK, Own, ListenerOwn, ClientOwn, ConnsOwn, OthersOwn,
             Before, InLoop, InHand
    <2> QED
      BY <2>1, <2>2, <2>3, <2>4 DEF Own
  <1>5. NoLeak'
    <2> SUFFICES ASSUME stop = "run" PROVE NoLeak'
      BY DEF Spawn, NoLeak
    <2>1. client_fd \in Numbers /\ fd[client_fd] \in Conns /\ conn[fd[client_fd]].fd = Closed
      BY Busy DEF Spawn, InHand, TypeOK, Own, ClientOwn, Before
    <2>2. conn' = [conn EXCEPT ![fd[client_fd]] = [at |-> "check", fd |-> client_fd]]
      BY DEF Spawn
    <2>3. \A c \in Conns : conn'[c].fd = IF c = fd[client_fd] THEN client_fd ELSE conn[c].fd
      BY <2>1, <2>2 DEF TypeOK
    <2>4. ASSUME NEW n \in Numbers, NEW c \in Conns, fd[n] = c PROVE conn'[c].fd = n
      <3>1. conn[c].fd = n \/ client_fd = n
        BY <2>4 DEF NoLeak
      <3> QED
        BY <2>1, <2>3, <2>4, <3>1
    <2> QED
      BY <2>4 DEF Spawn, NoLeak
  <1> QED
    BY <1>1, <1>2, <1>3, <1>4, <1>5

(* ... or closed. *)
LEMMA SpawnFailsIInv == ASSUME IInv, SpawnFails PROVE IInv'
  <1> USE Names DEF IInv, osVars
  <1>1. TypeOK'
    BY Names, ClosesOne DEF SpawnFails, SpawnFailsCloses, TypeOK
  <1>2. InHand' /\ Flags' /\ Phases'
    BY Names, ClosesOne DEF SpawnFails, SpawnFailsCloses, TypeOK, InHand, Flags, Phases,
           ListenerHeld
  <1>3. ListenerHeld' /\ Woken'
    BY Names, ClosesOne DEF SpawnFails, SpawnFailsCloses, TypeOK, ListenerHeld, Phases,
           Flags, Woken, Own, ListenerOwn, Before, InLoop
  <1>4. Own'
    <2>1. ListenerOwn'
      BY Names, ClosesOne DEF SpawnFails, SpawnFailsCloses, TypeOK, Own, ListenerOwn,
             Before, InLoop, ClientOwn
    <2>2. ClientOwn'
      BY Names, ClosesOne DEF SpawnFails, SpawnFailsCloses, TypeOK, Own, ListenerOwn,
             ClientOwn, ConnsOwn, OthersOwn, Before, InLoop, InHand
    <2>3. ConnsOwn'
      BY Names, ClosesOne, Busy DEF SpawnFails, SpawnFailsCloses, TypeOK, Own,
             ListenerOwn, ClientOwn, ConnsOwn, OthersOwn, Before, InLoop, InHand
    <2>4. OthersOwn'
      BY Names, ClosesOne DEF SpawnFails, SpawnFailsCloses, TypeOK, Own, ListenerOwn,
             ClientOwn, ConnsOwn, OthersOwn, Before, InLoop, InHand
    <2> QED
      BY <2>1, <2>2, <2>3, <2>4 DEF Own
  <1>5. NoLeak'
    BY Names, ClosesOne DEF SpawnFails, SpawnFailsCloses, TypeOK, NoLeak, Own,
           ListenerOwn, ClientOwn, Before, InLoop, InHand, Phases, ListenerHeld, Flags
  <1> QED
    BY <1>1, <1>2, <1>3, <1>4, <1>5

(* The accept thread closes the listener, ... *)
LEMMA CloseIInv == ASSUME IInv, Close PROVE IInv'
  <1> USE Names DEF IInv, osVars
  <1>1. TypeOK'
    BY Names, ClosesOne DEF Close, ThreadCloses, TypeOK
  <1>2. InHand' /\ Flags' /\ Phases'
    BY Names, ClosesOne DEF Close, ThreadCloses, TypeOK, InHand, Flags, Phases, ListenerHeld
  <1>3. ListenerHeld' /\ Woken'
    BY Names, ClosesOne DEF Close, ThreadCloses, TypeOK, ListenerHeld, Phases, Flags,
           Woken, Own, ListenerOwn, Before, InLoop
  <1>4. Own'
    <2>1. ListenerOwn'
      BY Names, ClosesOne DEF Close, ThreadCloses, TypeOK, Own, ListenerOwn, Before,
             InLoop, Phases
    <2>2. ClientOwn'
      BY Names, ClosesOne DEF Close, ThreadCloses, TypeOK, Own, ListenerOwn, ClientOwn,
             ConnsOwn, OthersOwn, Before, InLoop, InHand
    <2>3. ConnsOwn'
      BY Names, ClosesOne, Busy DEF Close, ThreadCloses, TypeOK, Own, ListenerOwn,
             ClientOwn, ConnsOwn, OthersOwn, Before, InLoop, InHand
    <2>4. OthersOwn'
      BY Names, ClosesOne DEF Close, ThreadCloses, TypeOK, Own, ListenerOwn, ClientOwn,
             ConnsOwn, OthersOwn, Before, InLoop, InHand
    <2> QED
      BY <2>1, <2>2, <2>3, <2>4 DEF Own
  <1>5. NoLeak'
    BY Names, ClosesOne DEF Close, ThreadCloses, TypeOK, NoLeak, Own, ListenerOwn,
           ClientOwn, Before, InLoop, InHand, Phases, ListenerHeld, Flags
  <1> QED
    BY <1>1, <1>2, <1>3, <1>4, <1>5

(* ... and forgets its number. *)
LEMMA ClearIInv == ASSUME IInv, Clear PROVE IInv'
  <1> USE Names DEF IInv, osVars
  <1>1. TypeOK'
    BY Names DEF Clear, TypeOK
  <1>2. InHand' /\ Flags' /\ Phases'
    BY Names DEF Clear, TypeOK, InHand, Flags, Phases, ListenerHeld
  <1>3. ListenerHeld' /\ Woken'
    BY Names DEF Clear, TypeOK, ListenerHeld, Phases, Flags, Woken, Own, ListenerOwn,
           Before, InLoop
  <1>4. Own'
    <2>1. ListenerOwn'
      BY Names DEF Clear, TypeOK, Own, ListenerOwn, Before, InLoop, Phases
    <2>2. ClientOwn'
      BY Names DEF Clear, TypeOK, Own, ListenerOwn, ClientOwn, ConnsOwn, OthersOwn,
             Before, InLoop, InHand
    <2>3. ConnsOwn'
      BY Names, Busy DEF Clear, TypeOK, Own, ListenerOwn, ClientOwn, ConnsOwn, OthersOwn,
             Before, InLoop, InHand
    <2>4. OthersOwn'
      BY Names DEF Clear, TypeOK, Own, ListenerOwn, ClientOwn, ConnsOwn, OthersOwn,
             Before, InLoop, InHand
    <2> QED
      BY <2>1, <2>2, <2>3, <2>4 DEF Own
  <1>5. NoLeak'
    BY Names DEF Clear, TypeOK, NoLeak, Own, ListenerOwn, ClientOwn, Before, InLoop,
           InHand, Phases, ListenerHeld, Flags
  <1> QED
    BY <1>1, <1>2, <1>3, <1>4, <1>5

(* modbus_tcp_server_stop closes what server_fd holds now. *)
LEMMA StopCloseIInv == ASSUME IInv, StopClose PROVE IInv'
  <1> USE Names DEF IInv, osVars
  <1>1. TypeOK'
    BY Names, ClosesOne DEF StopClose, TypeOK
  <1>2. InHand' /\ Flags' /\ Phases'
    BY Names, ClosesOne DEF StopClose, TypeOK, InHand, Flags, Phases, ListenerHeld
  <1>3. ListenerHeld' /\ Woken'
    BY Names, ClosesOne DEF StopClose, TypeOK, ListenerHeld, Phases, Flags, Woken, Own,
           ListenerOwn, Before, InLoop
  <1>4. Own'
    <2>1. ListenerOwn'
      BY Names, ClosesOne DEF StopClose, TypeOK, Own, ListenerOwn, Before, InLoop, Phases
    <2>2. ClientOwn'
      BY Names, ClosesOne DEF StopClose, TypeOK, Own, ListenerOwn, ClientOwn, ConnsOwn,
             OthersOwn, Before, InLoop, InHand
    <2>3. ConnsOwn'
      BY Names, ClosesOne, Busy DEF StopClose, TypeOK, Own, ListenerOwn, ClientOwn,
             ConnsOwn, OthersOwn, Before, InLoop, InHand
    <2>4. OthersOwn'
      BY Names, ClosesOne DEF StopClose, TypeOK, Own, ListenerOwn, ClientOwn, ConnsOwn,
             OthersOwn, Before, InLoop, InHand
    <2> QED
      BY <2>1, <2>2, <2>3, <2>4 DEF Own
  <1>5. NoLeak'
    BY Names, ClosesOne DEF StopClose, TypeOK, NoLeak, Own, ListenerOwn, ClientOwn,
           Before, InLoop, InHand, Phases, ListenerHeld, Flags
  <1> QED
    BY <1>1, <1>2, <1>3, <1>4, <1>5

(* A connection is accepted. *)
LEMMA AcceptIInv == ASSUME IInv, NEW c \in Conns, Accept(c) PROVE IInv'
  <1> USE Names DEF IInv, osVars
  <1>1. TypeOK'
    BY Names, OpensFree DEF Accept, TypeOK
  <1>2. InHand' /\ Flags' /\ Phases'
    BY Names, OpensFree DEF Accept, TypeOK, InHand, Flags, Phases, ListenerHeld
  <1>3. ListenerHeld' /\ Woken'
    BY Names, OpensFree DEF Accept, TypeOK, ListenerHeld, Phases, Flags, Woken, Own,
           ListenerOwn, Before, InLoop
  <1>4. Own'
    <2>1. ListenerOwn'
      BY Names, OpensFree DEF Accept, TypeOK, Own, ListenerOwn, Before, InLoop, Phases
    <2>2. ClientOwn'
      BY Names, OpensFree DEF Accept, TypeOK, Own, ListenerOwn, ClientOwn, ConnsOwn,
             OthersOwn, Before, InLoop, InHand
    <2>3. ConnsOwn'
      BY Names, OpensFree, Busy DEF Accept, TypeOK, Own, ListenerOwn, ClientOwn,
             ConnsOwn, OthersOwn, Before, InLoop, InHand
    <2>4. OthersOwn'
      BY Names, OpensFree DEF Accept, TypeOK, Own, ListenerOwn, ClientOwn, ConnsOwn,
             OthersOwn, Before, InLoop, InHand
    <2> QED
      BY <2>1, <2>2, <2>3, <2>4 DEF Own
  <1>5. NoLeak'
    BY Names, OpensFree DEF Accept, TypeOK, NoLeak, Own, ListenerOwn, ClientOwn, Before,
           InLoop, InHand, Phases, ListenerHeld, Flags
  <1> QED
    BY <1>1, <1>2, <1>3, <1>4, <1>5

(* Its thread closes it. *)
LEMMA ConnClosesIInv == ASSUME IInv, NEW c \in Conns, ConnCloses(c) PROVE IInv'
  <1> USE Names DEF IInv, osVars
  <1>1. TypeOK'
    BY Names, ClosesOne DEF ConnCloses, Ends, Idle, TypeOK
  <1>2. InHand' /\ Flags' /\ Phases'
    BY Names, ClosesOne DEF ConnCloses, Ends, Idle, TypeOK, InHand, Flags, Phases,
           ListenerHeld
  <1>3. ListenerHeld' /\ Woken'
    BY Names, ClosesOne DEF ConnCloses, Ends, Idle, TypeOK, ListenerHeld, Phases, Flags,
           Woken, Own, ListenerOwn, Before, InLoop
  <1>4. Own'
    <2>1. ListenerOwn'
      BY Names, ClosesOne, Busy DEF ConnCloses, Ends, Idle, TypeOK, Own, ListenerOwn,
             Before, InLoop, ConnsOwn
    <2>2. ClientOwn'
      BY Names, ClosesOne DEF ConnCloses, Ends, Idle, TypeOK, Own, ListenerOwn,
             ClientOwn, ConnsOwn, OthersOwn, Before, InLoop, InHand
    <2>3. ConnsOwn'
      BY Names, ClosesOne, Busy DEF ConnCloses, Ends, Idle, TypeOK, Own, ListenerOwn,
             ClientOwn, ConnsOwn, OthersOwn, Before, InLoop, InHand
    <2>4. OthersOwn'
      BY Names, ClosesOne DEF ConnCloses, Ends, Idle, TypeOK, Own, ListenerOwn,
             ClientOwn, ConnsOwn, OthersOwn, Before, InLoop, InHand
    <2> QED
      BY <2>1, <2>2, <2>3, <2>4 DEF Own
  <1>5. NoLeak'
    BY Names, ClosesOne DEF ConnCloses, Ends, Idle, TypeOK, NoLeak, Own, ListenerOwn,
           ClientOwn, Before, InLoop, InHand, Phases, ListenerHeld, Flags
  <1> QED
    BY <1>1, <1>2, <1>3, <1>4, <1>5

(* Another part of the program opens a socket, ... *)
LEMMA OtherOpensIInv == ASSUME IInv, NEW o \in Others, OtherOpens(o) PROVE IInv'
  <1> USE Names DEF IInv, osVars
  <1>1. TypeOK'
    BY Names, OpensFree DEF OtherOpens, TypeOK
  <1>2. InHand' /\ Flags' /\ Phases'
    BY Names, OpensFree DEF OtherOpens, TypeOK, InHand, Flags, Phases, ListenerHeld
  <1>3. ListenerHeld' /\ Woken'
    BY Names, OpensFree DEF OtherOpens, TypeOK, ListenerHeld, Phases, Flags, Woken, Own,
           ListenerOwn, Before, InLoop
  <1>4. Own'
    <2>1. ListenerOwn'
      BY Names, OpensFree DEF OtherOpens, TypeOK, Own, ListenerOwn, Before, InLoop, Phases
    <2>2. ClientOwn'
      BY Names, OpensFree DEF OtherOpens, TypeOK, Own, ListenerOwn, ClientOwn, ConnsOwn,
             OthersOwn, Before, InLoop, InHand
    <2>3. ConnsOwn'
      BY Names, OpensFree, Busy DEF OtherOpens, TypeOK, Own, ListenerOwn, ClientOwn,
             ConnsOwn, OthersOwn, Before, InLoop, InHand
    <2>4. OthersOwn'
      BY Names, OpensFree DEF OtherOpens, TypeOK, Own, ListenerOwn, ClientOwn, ConnsOwn,
             OthersOwn, Before, InLoop, InHand
    <2> QED
      BY <2>1, <2>2, <2>3, <2>4 DEF Own
  <1>5. NoLeak'
    BY Names, OpensFree DEF OtherOpens, TypeOK, NoLeak, Own, ListenerOwn, ClientOwn,
           Before, InLoop, InHand, Phases, ListenerHeld, Flags
  <1> QED
    BY <1>1, <1>2, <1>3, <1>4, <1>5

(* ... and closes it. *)
LEMMA OtherClosesIInv == ASSUME IInv, NEW o \in Others, OtherCloses(o) PROVE IInv'
  <1> USE Names DEF IInv, osVars
  <1>1. TypeOK'
    BY Names, ClosesOne DEF OtherCloses, TypeOK
  <1>2. InHand' /\ Flags' /\ Phases'
    BY Names, ClosesOne DEF OtherCloses, TypeOK, InHand, Flags, Phases, ListenerHeld
  <1>3. ListenerHeld' /\ Woken'
    BY Names, ClosesOne DEF OtherCloses, TypeOK, ListenerHeld, Phases, Flags, Woken, Own,
           ListenerOwn, Before, InLoop
  <1>4. Own'
    <2>1. ListenerOwn'
      BY Names, ClosesOne DEF OtherCloses, TypeOK, Own, ListenerOwn, Before, InLoop,
             OthersOwn
    <2>2. ClientOwn'
      BY Names, ClosesOne DEF OtherCloses, TypeOK, Own, ListenerOwn, ClientOwn, ConnsOwn,
             OthersOwn, Before, InLoop, InHand
    <2>3. ConnsOwn'
      BY Names, ClosesOne, Busy DEF OtherCloses, TypeOK, Own, ListenerOwn, ClientOwn,
             ConnsOwn, OthersOwn, Before, InLoop, InHand
    <2>4. OthersOwn'
      BY Names, ClosesOne DEF OtherCloses, TypeOK, Own, ListenerOwn, ClientOwn, ConnsOwn,
             OthersOwn, Before, InLoop, InHand
    <2> QED
      BY <2>1, <2>2, <2>3, <2>4 DEF Own
  <1>5. NoLeak'
    BY Names, ClosesOne DEF OtherCloses, TypeOK, NoLeak, Own, ListenerOwn, ClientOwn,
           Before, InLoop, InHand, Phases, ListenerHeld, Flags
  <1> QED
    BY <1>1, <1>2, <1>3, <1>4, <1>5

(* A connection is served. *)
LEMMA ConnMovesIInv ==
  ASSUME IInv, NEW c \in Conns, NEW from \in {"check", "read"}, NEW to \in {"check", "read"},
         ConnMoves(c, from, to)
  PROVE  IInv'
  <1> USE Names DEF IInv, osVars
  <1>1. TypeOK'
    BY Names DEF ConnMoves, Idle, TypeOK
  <1>2. InHand' /\ Flags' /\ Phases'
    BY Names DEF ConnMoves, Idle, TypeOK, InHand, Flags, Phases, ListenerHeld
  <1>3. ListenerHeld' /\ Woken'
    BY Names DEF ConnMoves, Idle, TypeOK, ListenerHeld, Phases, Flags, Woken, Own,
           ListenerOwn, Before, InLoop
  <1>4. Own'
    <2>1. ListenerOwn'
      BY Names DEF ConnMoves, Idle, TypeOK, Own, ListenerOwn, Before, InLoop, Phases
    <2>2. ClientOwn'
      BY Names DEF ConnMoves, Idle, TypeOK, Own, ListenerOwn, ClientOwn, ConnsOwn,
             OthersOwn, Before, InLoop, InHand
    <2>3. ConnsOwn'
      BY Names, Busy DEF ConnMoves, Idle, TypeOK, Own, ListenerOwn, ClientOwn, ConnsOwn,
             OthersOwn, Before, InLoop, InHand
    <2>4. OthersOwn'
      BY Names DEF ConnMoves, Idle, TypeOK, Own, ListenerOwn, ClientOwn, ConnsOwn,
             OthersOwn, Before, InLoop, InHand
    <2> QED
      BY <2>1, <2>2, <2>3, <2>4 DEF Own
  <1>5. NoLeak'
    BY Names DEF ConnMoves, Idle, TypeOK, NoLeak, Own, ListenerOwn, ClientOwn, Before,
           InLoop, InHand, Phases, ListenerHeld, Flags
  <1> QED
    BY <1>1, <1>2, <1>3, <1>4, <1>5

-----------------------------------------------------------------------------
(* Every step keeps the invariant. *)
LEMMA NextIInv == IInv /\ [Next]_vars => IInv'
  <1> SUFFICES ASSUME IInv, [Next]_vars PROVE IInv'
    OBVIOUS
  <1>1. CASE UNCHANGED vars
    <2>1. TypeOK' /\ InHand' /\ Flags' /\ ListenerHeld' /\ Phases' /\ Woken'
      BY <1>1 DEF IInv, TypeOK, InHand, Flags, ListenerHeld, Phases, Woken, vars, osVars
    <2>2. Own' /\ NoLeak'
      BY <1>1 DEF IInv, Own, ListenerOwn, ClientOwn, ConnsOwn, OthersOwn, Before, InLoop,
                  NoLeak, vars, osVars
    <2> QED
      BY <2>1, <2>2 DEF IInv
  <1>2. CASE Next
    BY <1>2, ThreadIInv, StopIInv, SocketIInv, BindFailsIInv, SpawnIInv, SpawnFailsIInv,
       CloseIInv, ClearIInv, StopCloseIInv, AcceptIInv, ConnClosesIInv, ConnMovesIInv,
       OtherOpensIInv, OtherClosesIInv DEF Next
  <1> QED
    BY <1>1, <1>2

(* The invariant holds in every reachable state. *)
LEMMA Invariance == Spec => []IInv
  <1>1. Init => IInv
    BY InitIInv
  <1>2. IInv /\ [Next]_vars => IInv'
    BY NextIInv
  <1> QED
    BY <1>1, <1>2, PTL DEF Spec

(* Descriptors and the phases of the threads keep their types: a           *)
(* connection is served exactly while it holds a number (58-66, 210-229).  *)
THEOREM TypeCorrect == Spec => []TypeOK
  <1>1. IInv => TypeOK
    BY DEF IInv
  <1> QED
    BY <1>1, Invariance, PTL

(* While the server runs no descriptor is closed twice, however many       *)
(* sockets the rest of the program opens and closes (58-66, 196-229).      *)
THEOREM NumbersAreOwn == Spec => []OwnNumbers
  <1>1. IInv => OwnNumbers
    BY DEF IInv, OwnNumbers, Own, ListenerOwn, ClientOwn, ConnsOwn, OthersOwn, Before,
           InHand, InLoop
  <1> QED
    BY <1>1, Invariance, PTL

(* Nor does one stay open that nobody holds (58-66, 160-190, 210-229). *)
THEOREM NothingLeaks == Spec => []NoLeak
  <1>1. IInv => NoLeak
    BY DEF IInv
  <1> QED
    BY <1>1, Invariance, PTL

(* modbus_tcp_server_stop returns with the port free (242-252). *)
THEOREM ListenerIsClosed == Spec => []ListenerClosed
  <1>1. IInv => ListenerClosed
    BY DEF IInv, ListenerHeld, Phases, ListenerClosed
  <1> QED
    BY <1>1, Invariance, PTL

(* And it does return: accept does not wait on an open listener when the   *)
(* thread is joined (196, 244-250).                                        *)
THEOREM AcceptIsWoken == Spec => []AcceptWoken
  <1>1. IInv => AcceptWoken
    BY DEF IInv, Woken, AcceptWoken
  <1> QED
    BY <1>1, Invariance, PTL

=============================================================================
