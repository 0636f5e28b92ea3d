----------------------------- MODULE DeviceInfo -----------------------------
(***************************************************************************)
(* GET /info: huawei_get_info puts names and identifiers together from     *)
(* cached registers, some of them by modbus_tcp_poll_get_client_data_str,  *)
(* which counts the characters of a text by adding to *len.  No caller     *)
(* initialises it.  The inverter's client is registered (see Snapshot).    *)
(***************************************************************************)
EXTENDS RegisterWindows

CONSTANTS
  Texts,      \* what the device may have in the registers of a text: its
              \* size, and whether a 0 follows
  Leftovers,  \* what may be in *len before a look-up
  LenModulus  \* *len is a uint16_t: 2^16

(* First register and quantity of each text. *)
Field == [model |-> <<30000, 15>>, unique_id |-> <<30015, 10>>,
          battery1 |-> <<37052, 10>>, battery2 |-> <<37700, 10>>]
Fields == DOMAIN Field
StatusOf == [battery1 |-> 37000, battery2 |-> 37741]
Batteries == DOMAIN StatusOf

ASSUME TextsAssumption == Texts \subseteq [size : Nat, nul : BOOLEAN]
ASSUME LeftoversAssumption == LenModulus \in Nat \ {0} /\ Leftovers \subseteq 0..(LenModulus - 1)

VARIABLES
  step,        \* what huawei_get_info reads next
  len,         \* *len of the last look-up of a text
  unique_len,  \* length of the battery's identifier
  found_text,  \* what the last look-up of a text has led to, None if nothing
               \* was copied
  listed       \* batteries named in battery.model, by - without a name

infoVars == <<step, len, unique_len, found_text, listed>>

InfoInit ==
  /\ step = "idle" /\ len = 0 /\ unique_len = 0
  /\ found_text = None /\ listed = {}

-----
\* mutant: the last byte of the field is forgotten
CountedOff(k, text) == IF text.size = 2 * Field[k][2] THEN text.size - 1 ELSE text.size
(* Characters up to a 0, an invalid one or the end of the field.           *)
Counted(k, text) == text.size

(* The text is copied with the length that *len then has; a 0 behind it in *)
(* the block ends it all the same.  Without a block memory is taken as it  *)
(* was allocated, up to *len.  An empty text is not copied.                *)
LookUpText(k, left) ==
  \E text \in Texts :
    LET found == GetTyped(Field[k][1], Field[k][2]) # None
        sum == (left + IF found THEN Counted(k, text) ELSE 0) % LenModulus
        size == IF sum < text.size THEN sum ELSE text.size
        copied == [text |-> text, left |-> left, found |-> found, size |-> IF found THEN size ELSE 0,
                   clean |-> found /\ (sum = size \/ (size = text.size /\ text.nul))]
    IN  /\ text.size <= 2 * Field[k][2]
        /\ len' = sum
        /\ \E c \in {copied, None} :
             /\ sum = 0 \/ (found /\ size = 0 /\ text.nul) => c = None
             /\ sum > 0 /\ found /\ (size > 0 \/ ~text.nul) => c = copied
             /\ found_text' = c

Moves(from, to) == step = from /\ step' = to

InfoBegins ==
  /\ Moves("idle", "model")
  /\ UNCHANGED <<len, unique_len, found_text, listed>>

InverterText(k, to) ==
  /\ Moves(k, to)
  /\ \E left \in Leftovers : LookUpText(k, left)
  /\ UNCHANGED <<unique_len, listed>>

(* A register that is not cached reads as 0: no battery.                   *)
Reads(register) == GetTyped(register, 1) # None
BatteryFound(b, to) ==
  LET from == IF b = "battery1" THEN "status1" ELSE "status2"
  IN  /\ step = from
      /\ step' \in {to} \cup (IF Reads(StatusOf[b]) THEN {b} ELSE {})
      /\ UNCHANGED <<len, unique_len, found_text, listed>>

(* The second battery's identifier is wanted if the first has none; it is  *)
(* looked up with the length the first left behind.  unique_len is of type *)
(* uint8_t.                                                                *)
BatteryRead(b, to) ==
  /\ Moves(b, to)
  /\ listed' = listed \cup {b}
  /\ IF unique_len = 0
     THEN /\ \E left \in IF listed = {} THEN Leftovers ELSE {len} : LookUpText(b, left)
          /\ unique_len' = IF found_text' = None THEN 0 ELSE len' % 256
     ELSE UNCHANGED <<len, unique_len, found_text>>

InfoSent ==
  /\ Moves("done", "idle")
  /\ len' = 0 /\ unique_len' = 0 /\ found_text' = None /\ listed' = {}

Informing ==
  /\ \/ InfoBegins \/ InfoSent
     \/ InverterText("model", "unique_id") \/ InverterText("unique_id", "status1")
     \/ BatteryFound("battery1", "status2") \/ BatteryRead("battery1", "status2")
     \/ BatteryFound("battery2", "done") \/ BatteryRead("battery2", "done")
  /\ UNCHANGED vars

-----------------------------------------------------------------------------
(* A text that is shown is what the device has in its registers, whole and *)
(* with nothing behind it, if *len was 0 before the look-up; and whatever  *)
(* *len was, if a 0 follows the text and the sum does not run over: the    *)
(* additions to *len alone do not spoil it (190-203).                      *)
TextsWhole ==
  LET t == found_text
  IN  t # None /\ (t.left = 0 \/ (t.found /\ t.text.nul)) /\ t.left + t.text.size < LenModulus =>
        t.found /\ t.clean /\ t.size = t.text.size
=============================================================================
