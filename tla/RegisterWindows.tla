-------------------------- MODULE RegisterWindows --------------------------
(***************************************************************************)
(* Which cached block answers a request for n registers from address a:    *)
(* the look-ups of components/modbus_tcp_poll/modbus_tcp_poll.c, for the   *)
(* Modbus server (raw) and for the converters (typed), while blocks are    *)
(* polled one after the other, some of them failing, and polled again.     *)
(***************************************************************************)
EXTENDS Integers, Sequences, FiniteSetsExt

CONSTANTS
  Address, Quantity,   \* the register table: first address and size of a block
  Requests,            \* pairs <<a, n>> of clients
  Unlucky,             \* blocks a save of which may find no memory
  None                 \* no data: exception 0x02, or zeros for a converter

Blocks == DOMAIN Address

ASSUME TableAssumption ==
  /\ Address \in Seq(Nat)
  /\ Quantity \in [Blocks -> Nat \ {0}]
ASSUME RequestsAssumption == Requests \subseteq Nat \X Nat /\ Unlucky \subseteq Blocks
ASSUME NoneAssumption == None \notin [block : Blocks, offset : Nat]

VARIABLES
  data,      \* data[i]: there is data of block i
  length,    \* poll_data[i].length
  request,   \* what was asked for last
  gone,      \* history: blocks that had a length and no data then
  raw,       \* what it gets: [block, offset in registers], or None
  typed      \* what a converter would get

vars == <<data, length, request, gone, raw, typed>>

(* What a save is given as the length: a number of BYTES. *)
\* mutant: a length in registers taken for one in bytes and halved
HalfLength(i) == Quantity[i] \div 2
ByteLength(i) == 2 * Quantity[i]

In(a, n, first, size) == first <= a /\ a + n <= first + size

InRaw(i, a, n) == In(a, n, Address[i], length[i])
InTyped(i, a, n) == In(a, n, Address[i], Quantity[i])

\* mutant: the operands of the offset are swapped
FirstOfSwapped(hits, a) ==
  IF hits = {} THEN None
  ELSE LET i == Min(hits)
       IN  IF data[i] THEN [block |-> i, offset |-> Address[i] - a] ELSE None

(* The first block whose window fits decides, even if it has no data. *)
FirstOf(hits, a) ==
  IF hits = {} THEN None
  ELSE LET i == Min(hits)
       IN  IF data[i] THEN [block |-> i, offset |-> a - Address[i]] ELSE None

GetRaw(a, n) == FirstOf({i \in Blocks : InRaw(i, a, n)}, a)

\* mutant: the converters' windows are as wide as those of the server
GetTypedWide(a, n) == FirstOf({i \in Blocks : InRaw(i, a, n)}, a)
GetTyped(a, n) == FirstOf({i \in Blocks : InTyped(i, a, n)}, a)

Init ==
  /\ data = [i \in Blocks |-> FALSE] /\ length = [i \in Blocks |-> 0]
  /\ request = None /\ gone = {}
  /\ raw = None /\ typed = None

(* The old data is freed first; without memory for the new one there is    *)
(* none, and the length stays.                                             *)
Save(i) ==
  /\ \/ /\ data' = [data EXCEPT ![i] = TRUE]
        /\ length' = [length EXCEPT ![i] = ByteLength(i)]
     \/ /\ i \in Unlucky
        /\ data' = [data EXCEPT ![i] = FALSE] /\ UNCHANGED length
  /\ UNCHANGED <<request, gone, raw, typed>>

Gone == {i \in Blocks : length[i] # 0 /\ ~data[i]}

Serve(r) ==
  /\ request' = r /\ gone' = Gone
  /\ raw' = GetRaw(r[1], r[2])
  /\ typed' = GetTyped(r[1], r[2])
  /\ UNCHANGED <<data, length>>

Next == (\E i \in Blocks : Save(i)) \/ (\E r \in Requests : Serve(r))
Spec == Init /\ [][Next]_vars

-----------------------------------------------------------------------------
Replies == [block : Blocks, offset : Nat] \cup {None}

(* Type invariant. *)
TypeOK ==
  /\ data \in [Blocks -> BOOLEAN] /\ gone \subseteq Blocks
  /\ length \in [Blocks -> Nat]
  /\ request \in (Nat \X Nat) \cup {None}
  /\ raw \in Replies /\ typed \in Replies

(* What is served are the registers asked for, within the block they are   *)
(* taken from. *)
Within(reply) ==
  reply # None =>
    /\ Address[reply.block] + reply.offset = request[1]
    /\ reply.offset + request[2] <= Quantity[reply.block]

(* Converters never read past a block (130-160). *)
TypedWithin == Within(typed)

(* A request that a converter could be given is refused to a client only   *)
(* because of a block before: a save has freed its data and found no       *)
(* memory (79-100), and its window, twice as wide as the block, covers the *)
(* request.  Otherwise the two look-ups agree, though their windows differ *)
(* (103-127, 130-160).                                                     *)
RawServesPolled ==
  typed # None /\ raw = None =>
    \E i \in gone : i < typed.block /\ In(request[1], request[2], Address[i], 2 * Quantity[i])

(* document.pdf p. 113: a request past the last register fails with        *)
(* exception 0x02.                                                         *)
RawWithin == Within(raw)
=============================================================================
