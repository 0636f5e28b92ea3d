--------------------------- MODULE ModbusRequests ---------------------------
(***************************************************************************)
(* One connection of the Modbus server: handle_modbus_request of           *)
(* components/modbus_tcp_server/modbus_tcp_server.c takes whatever one     *)
(* read returns for one request, while its peer may send requests one      *)
(* after the other and TCP may split and join them between any two bytes.  *)
(***************************************************************************)
EXTENDS RegisterWindows

CONSTANTS
  Asked,      \* the registers this peer asks for
  Functions,  \* function codes it uses
  FirstId,    \* its first transaction identifier; it counts on from there
  MaxSent     \* bound: requests

ASSUME AskedAssumption == Asked \subseteq Requests /\ Functions \subseteq 1..127
ASSUME SentAssumption == FirstId \in Nat /\ MaxSent \in Nat
(* The fields of a request have two bytes. *)
Byte == 0..255
WordSize == 256 * 256
Words == 0..(WordSize - 1)
ASSUME FieldsAssumption == FirstId + MaxSent <= WordSize /\ Asked \subseteq Words \X Words
(* The addresses of the inverter, the only ones served, are beyond these.  *)
ASSUME AddressesAssumption == \A read \in Asked : read[1] # 0 /\ read[1] \div 256 # 3

BufferSize == 256   \* BUFFER_SIZE

VARIABLES
  sent,     \* requests, in order
  stream,   \* bytes under way
  replies,  \* what has been written to the peer
  smooth    \* history: every read has returned one request, and no
            \* allocation has failed

peerVars == <<sent, stream, replies, smooth>>

ServerInit == Init /\ sent = <<>> /\ stream = <<>> /\ replies = <<>> /\ smooth = TRUE

Unit == 1
TwoBytes(n) == <<n \div 256, n % 256>>
Bytes(q) ==
  TwoBytes(q.id) \o TwoBytes(0) \o TwoBytes(6) \o <<Unit, q.function>>
  \o TwoBytes(q.read[1]) \o TwoBytes(q.read[2])

Send(read, function) ==
  LET q == [id |-> FirstId + Len(sent), function |-> function, read |-> read]
  IN  /\ Len(sent) < MaxSent
      /\ sent' = Append(sent, q)
      /\ stream' = stream \o Bytes(q)
      /\ UNCHANGED <<vars, replies, smooth>>

-----------------------------------------------------------------------------
Number(buffer, first) == 256 * buffer[first] + buffer[first + 1]
Wanted(buffer) == <<Number(buffer, 9), Number(buffer, 11)>>

\* mutant: 12 bytes are too few
WholeOff(buffer) == Len(buffer) > 12
Whole(buffer) == Len(buffer) >= 12

\* mutant: the protocol is not looked at
SupportedLax(buffer) == buffer[8] = 3
Supported(buffer) == Number(buffer, 3) = 0 /\ buffer[8] = 3

(* What is written for the registers found; read is history.               *)
Reply(buffer, found) ==
  [id |-> Number(buffer, 1), unit |-> buffer[7], exception |-> found = None,
   read |-> Wanted(buffer)]

Handle(buffer) ==
  IF Whole(buffer) /\ Supported(buffer)
  THEN /\ Serve(Wanted(buffer))
       /\ replies' = Append(replies, Reply(buffer, raw'))
  ELSE UNCHANGED <<vars, replies>>

(* No memory for the registers: exception; none for the reply: no reply.   *)
HandleFails(buffer) ==
  /\ Whole(buffer) /\ Supported(buffer)
  /\ GetRaw(Wanted(buffer)[1], Wanted(buffer)[2]) # None
  /\ replies' \in {replies, Append(replies, Reply(buffer, None))}
  /\ UNCHANGED vars

(* What a read does not take of the buffer's size is read next time; what  *)
(* it takes behind the first request is dropped.                           *)
Read(n) ==
  /\ n <= BufferSize
  /\ stream' = SubSeq(stream, n + 1, Len(stream))
  /\ \/ Handle(SubSeq(stream, 1, n)) /\ smooth' = (smooth /\ n = 12)
     \/ HandleFails(SubSeq(stream, 1, n)) /\ smooth' = FALSE
  /\ UNCHANGED sent

Serving ==
  \/ \E read \in Asked, function \in Functions : Send(read, function)
  \/ \E n \in DOMAIN stream : Read(n)

-----------------------------------------------------------------------------
(* However TCP cuts the stream, a reply carries the identifier of a        *)
(* request that was sent and is about its registers, replies come in the   *)
(* order of their requests, and none comes twice: bytes from the middle of *)
(* requests are not taken for a request (68-88).  For registers like those *)
(* polled: the first byte of an address, were it 3, could be taken for the *)
(* function, and an address 0 for the protocol.                            *)
AnswersOwn ==
  /\ \A p \in DOMAIN replies : \E q \in DOMAIN sent :
       /\ sent[q].id = replies[p].id /\ sent[q].read = replies[p].read
       /\ sent[q].function = 3 /\ replies[p].unit = Unit
  /\ \A p \in DOMAIN replies : p > 1 => replies[p - 1].id < replies[p].id

(* A peer whose requests arrive one by one gets a reply to each that has   *)
(* function 3, whatever comes between them (70-129).                       *)
AnswersAll ==
  smooth /\ stream = <<>> =>
    \A q \in DOMAIN sent : sent[q].function = 3 =>
      \E p \in DOMAIN replies : replies[p].id = sent[q].id
=============================================================================
