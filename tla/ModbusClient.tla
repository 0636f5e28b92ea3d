---------------------------- MODULE ModbusClient ----------------------------
(***************************************************************************)
(* The Modbus/TCP client of components/modbus_tcp_client, as one polling   *)
(* cycle uses it: connect, one request and one recv per register of the    *)
(* table, disconnect.  The device answers in order, late, with an          *)
(* exception or not at all, and may close or abort the connection.  TCP    *)
(* delivers a stream of bytes, cut anywhere and delayed.                   *)
(***************************************************************************)
EXTENDS Naturals, Sequences, SequencesExt

CONSTANTS
  Quantity,    \* Quantity[r]: number of registers asked for in the r-th request
  MinLength,   \* MB_MIN_RESPONSE_MSG_LENGTH
  BufSize,     \* MB_RECV_BUFFER_SIZE
  Cuts,        \* numbers of bytes a recv may find though an answer goes on
  Prompt,      \* how many requests a device may be behind (a property's bound)
  Never, Mixed \* owner of a block: nothing yet; bytes of several answers

ASSUME TableAssumption == Quantity \in Seq(Nat \ {0}) /\ Quantity # <<>>
ASSUME SizesAssumption == MinLength \in Nat \ {0} /\ BufSize \in Nat /\ BufSize >= MinLength
ASSUME CutsAssumption == Cuts \subseteq Nat \ {0}
ASSUME EntryAssumption == Never # Mixed /\ {Never, Mixed} \cap Nat = {}

Regs == DOMAIN Quantity

VARIABLES
  pc,      \* "connect", "send" or "recv"
  reg,     \* the register being polled
  conn,    \* "closed", "open", "fin" (closed by the device), "late" (a
           \* request was sent after that), "error" (aborted, not yet
           \* reported), "reset" (a further write raises SIGPIPE)
  asked,   \* requests the device has not dealt with
  stream,  \* answers on their way or in the socket: [reg, exc, upto]; there
           \* are upto bytes to take up to the end of this answer
  saved,   \* history: the last block this connection brought to the
           \* cache: the register it was asked for, and whose answer it is
  behind,  \* history: the most requests from the oldest whose answer was
           \* still to come, up to the one just sent, on this connection
  cut,     \* history: a recv of this connection has ended inside an answer
           \* without filling the buffer
  alive    \* the process runs

socket == <<conn, asked, stream>>
vars == <<pc, reg, socket, saved, behind, cut, alive>>

Length(r, exc) == IF exc THEN MinLength ELSE MinLength + 2 * Quantity[r]
Size(a) == Length(a.reg, a.exc)
There == IF stream = <<>> THEN 0 ELSE Last(stream).upto   \* bytes not yet taken
Whole(a) == a.upto = Size(a)             \* an answer nothing has been taken of

Init ==
  /\ pc = "connect" /\ reg = 1 /\ alive = TRUE
  /\ conn = "closed" /\ asked = <<>> /\ stream = <<>>
  /\ saved = [for |-> 1, of |-> Never] /\ behind = 0 /\ cut = FALSE

-----------------------------------------------------------------------------
(* modbus_tcp_client_connect; a failure leaves everything as it is. *)
Connect ==
  /\ alive /\ pc = "connect"
  /\ conn' = "open"
  /\ pc' = "send" /\ reg' = 1
  /\ behind' = 0 /\ cut' = FALSE /\ saved' = [for |-> 1, of |-> Never]
  /\ UNCHANGED <<asked, stream, alive>>

\* mutant: one register too many
MoreRegistersOff == reg <= Len(Quantity)
MoreRegisters == reg < Len(Quantity)

(* On to the next register, with the connection as found; after the last   *)
(* one modbus_tcp_client_disconnect closes the socket and what is in it.   *)
NextRegister(left, found) ==
  IF MoreRegisters
  THEN /\ reg' = reg + 1 /\ pc' = "send"
       /\ stream' = left /\ conn' = found /\ UNCHANGED asked
  ELSE /\ pc' = "connect" /\ UNCHANGED reg
       /\ conn' = "closed" /\ asked' = <<>> /\ stream' = <<>>

(* The oldest request whose answer is still to come, or this one. *)
Oldest == IF stream # <<>> THEN Head(stream).reg
          ELSE IF asked # <<>> THEN Head(asked) ELSE reg

(* send_register_request: nobody has changed the action of SIGPIPE, so a   *)
(* write to a connection that was reset ends the process.                  *)
Send ==
  /\ alive /\ pc = "send"
  /\ \/ /\ conn = "open"
        /\ asked' = Append(asked, reg)
        /\ pc' = "recv" /\ UNCHANGED <<conn, alive>>
     \/ /\ conn \in {"fin", "late"}
        /\ conn' = "late"
        /\ pc' = "recv" /\ UNCHANGED <<asked, alive>>
     \/ /\ conn = "reset"
        /\ alive' = FALSE
        /\ UNCHANGED <<pc, conn, asked>>
  /\ LET open == reg - Oldest + 1
     IN  behind' = IF open > behind THEN open ELSE behind
  /\ UNCHANGED <<reg, stream, saved, cut>>

(* A failing send reports why the connection was aborted; the recv is left *)
(* out.                                                                    *)
SendFails ==
  /\ alive /\ pc = "send" /\ conn = "error"
  /\ NextRegister(stream, "reset")
  /\ UNCHANGED <<saved, behind, cut, alive>>

-----------------------------------------------------------------------------
(* get_register_values: one recv, then three checks.  exception: byte 7 as  *)
(* the first bytes taken show it.                                          *)
\* mutant: the size is not compared with the size expected
AcceptAnySize(n, exception) == n >= MinLength /\ ~exception
Accept(n, exception) ==
  /\ n >= MinLength
  /\ ~exception
  /\ n = MinLength + 2 * Quantity[reg]

(* modbus_tcp_client_read_raw copies what was accepted to the block of reg. *)
ReadRaw(n, exception, owner) ==
  IF Accept(n, exception) THEN [for |-> reg, of |-> owner] ELSE saved

(* What a recv of n bytes leaves in the socket. *)
UsedUp(n) == CHOOSE k \in 0..Len(stream) :
  /\ \A i \in 1..k : stream[i].upto <= n
  /\ k < Len(stream) => stream[k + 1].upto > n
Left(n) == [i \in 1..(Len(stream) - UsedUp(n)) |->
              [stream[UsedUp(n) + i] EXCEPT !.upto = @ - n]]

(* What may have arrived by now: bytes up to the end of some answer, or to *)
(* where TCP has cut it; a recv takes no more than the buffer holds.       *)
Ends == {stream[i].upto : i \in DOMAIN stream}
Amounts == {n \in Ends \cup Cuts \cup {BufSize} : n <= There /\ n <= BufSize}

Recv ==
  /\ alive /\ pc = "recv" /\ stream # <<>>
  /\ \E n \in Amounts :
       LET first == Head(stream)
           owner == IF Whole(first) /\ first.upto = n THEN first.reg ELSE Mixed
       IN  /\ \E exception \in IF Whole(first) THEN {first.exc} ELSE BOOLEAN :
                saved' = ReadRaw(n, exception, owner)
           /\ cut' = (cut \/ n \notin Ends \cup {BufSize})
           /\ NextRegister(Left(n), conn)
  /\ UNCHANGED <<behind, alive>>

(* SO_RCVTIMEO, 3 s: nothing has come, or what there is is still on its way. *)
\* mutant: recv waits as long as the connection is open
NoTimeout == FALSE
Timeout == conn = "open" \/ stream # <<>>

RecvTimeout ==
  /\ alive /\ pc = "recv" /\ Timeout
  /\ NextRegister(stream, conn)
  /\ UNCHANGED <<saved, behind, cut, alive>>

(* The end of the stream, or why the connection was aborted, once. *)
RecvClosed ==
  /\ alive /\ pc = "recv" /\ stream = <<>> /\ conn # "open"
  /\ NextRegister(stream, IF conn = "error" THEN "reset" ELSE conn)
  /\ UNCHANGED <<saved, behind, cut, alive>>

-----------------------------------------------------------------------------
(* The device. *)
Answer ==
  /\ conn = "open" /\ asked # <<>>
  /\ \E exc \in BOOLEAN :
       stream' = Append(stream, [reg |-> Head(asked), exc |-> exc,
                                 upto |-> There + Length(Head(asked), exc)])
  /\ asked' = Tail(asked)
  /\ UNCHANGED <<pc, reg, conn, saved, behind, cut, alive>>

Ignore ==
  /\ conn = "open" /\ asked # <<>>
  /\ asked' = Tail(asked)
  /\ UNCHANGED <<pc, reg, conn, stream, saved, behind, cut, alive>>

Close ==
  /\ conn = "open"
  /\ conn' = "fin" /\ asked' = <<>>
  /\ UNCHANGED <<pc, reg, stream, saved, behind, cut, alive>>

(* It, or the network, gives the connection up: what has arrived stays.   *)
Abort ==
  /\ conn = "open"
  /\ conn' = "error" /\ asked' = <<>>
  /\ stream' \in {stream, <<>>}
  /\ UNCHANGED <<pc, reg, saved, behind, cut, alive>>

(* Its answer to data on a closed connection. *)
Reset ==
  /\ conn = "late"
  /\ conn' = "reset"
  /\ UNCHANGED <<pc, reg, asked, stream, saved, behind, cut, alive>>

Client == Connect \/ Send \/ SendFails \/ Recv \/ RecvTimeout \/ RecvClosed
Device == Answer \/ Ignore \/ Close \/ Abort \/ Reset
Next == Client \/ Device

Spec == Init /\ [][Next]_vars
(* The polling thread runs on; the device owes nothing. *)
FairSpec == Spec /\ WF_vars(Client)

-----------------------------------------------------------------------------
(* Type invariant. *)
TypeOK ==
  /\ pc \in {"connect", "send", "recv"}
  /\ reg \in Regs
  /\ conn \in {"closed", "open", "fin", "late", "error", "reset"}
  /\ asked \in Seq(Regs)
  /\ stream \in Seq([reg : Regs, exc : BOOLEAN, upto : Nat \ {0}])
  /\ stream # <<>> => Head(stream).upto <= Size(Head(stream))
  /\ \A i \in 2..Len(stream) : stream[i].upto = stream[i - 1].upto + Size(stream[i])
  /\ saved \in [for : Regs, of : Regs \cup {Never, Mixed}]
  /\ behind \in Nat /\ cut \in BOOLEAN
  /\ alive \in BOOLEAN

(* document.pdf p. 110: the transmission identifier matches a request with *)
(* its response.  The client sends 0 always and compares only a size       *)
(* (80-108): what is cached for a register should be its own answer.       *)
RightRegister == saved.of \in {Never, saved.for}

(* That holds, wherever TCP cuts the stream, as long as every answer has   *)
(* been taken whole before the next request goes out.  Once one is late,   *)
(* it holds for up to Prompt open requests only if no recv has ended       *)
(* inside an answer, but where the buffer was full: late answers shift the *)
(* stream and several are taken at once, yet none passes for another.      *)
RightWhenPrompt ==
  behind <= 1 \/ (behind <= Prompt /\ ~cut) => RightRegister

(* Tables whose answers each fit in the buffer. *)
Fits(table) == \A r \in DOMAIN table : MinLength + 2 * table[r] <= BufSize

(* Tables where the answers to one register and the next cannot be taken    *)
(* for each other: the quantities differ, and what the two answers make up *)
(* fits in the buffer and has an even size, where one answer with values   *)
(* has an odd one.                                                         *)
Apart(table) ==
  /\ MinLength % 2 = 1
  /\ \A r \in 2..Len(table) :
       /\ table[r - 1] # table[r]
       /\ 2 * (MinLength + table[r - 1] + table[r]) <= BufSize

(* A device that stays silent cannot hold up the cycle (236-250). *)
CycleEnds == []<>(pc = "connect" \/ ~alive)

(* README.md:13: failed requests are retried to maintain consistent        *)
(* communication; the process must survive a device that hangs up.         *)
SurvivesHangUp == alive
=============================================================================
