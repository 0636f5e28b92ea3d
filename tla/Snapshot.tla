------------------------------ MODULE Snapshot ------------------------------
(***************************************************************************)
(* All values of all devices at one time are put together from single      *)
(* look-ups: huawei_get_values, nrgkick_get_values and can_ez3_get_values, *)
(* one after the other, for an HTTP request or for the log.  A look-up     *)
(* holds the mutex of one client for one field; between two of them        *)
(* polling threads save blocks, and clients come and go.  One snapshot is  *)
(* followed at a time: snapshots read the cache and do not change it.      *)
(***************************************************************************)
EXTENDS Integers, Sequences, SequencesExt

CONSTANTS
  Days,       \* bound: what the battery and the panels may do, step by step
  Failing,    \* bound: blocks whose polls may fail
  Startable,  \* bound: devices that can always be started
  Modulus,    \* counters are of type uint32_t: 2^32
  ThreePhase, \* the type of the meter, a register of its block
  None,       \* block: nothing saved, or freed
  Zeroed,     \* value: zeros
  Garbage,    \* value: the buffer of the caller was left as it was
  Unread, Mixed,   \* origin of a snapshot's values: none yet, several polls
  Nobody

Devices == <<"HUAWEI", "NRGKICK", "CAN_EZ3">>

(* Registers polled: first address and quantity of each block. *)
HuaweiRegisters ==
  << <<30000, 25>>, <<30073, 4>>, <<32016, 100>>, <<37000, 62>>,
     <<37100, 38>>, <<37700, 88>>, <<47000, 1>>, <<47086, 4>> >>
NrgkickRegisters == << <<194, 69>>, <<1, 1>> >>
CanRegisters == << <<1, 4>> >>
Table == [HUAWEI |-> HuaweiRegisters, NRGKICK |-> NrgkickRegisters, CAN_EZ3 |-> CanRegisters]

(* Look-ups of the converters: first register and quantity, in order. *)
HuaweiReads ==
  << <<32016, 1>>, <<32017, 1>>, <<32018, 1>>, <<32019, 1>>, <<32064, 2>>,
     <<32080, 2>>, <<32106, 2>>, <<32114, 2>>, <<37765, 2>>, <<37760, 1>>,
     <<47086, 1>>, <<37780, 2>>, <<37782, 2>>, <<37784, 2>>, <<37786, 2>>,
     <<37101, 37>> >>
\* mutant: the status registers are read in another order
NrgkickReadsSwapped ==
  << <<194, 1>>, <<203, 2>>, <<206, 1>>, <<210, 2>>, <<220, 1>>, <<259, 1>>,
     <<221, 1>>, <<260, 1>>, <<222, 1>>, <<261, 1>>,
     <<253, 1>>, <<251, 1>>, <<256, 1>>, <<257, 1>>, <<258, 1>> >>
NrgkickReads ==
  << <<194, 1>>, <<203, 2>>, <<206, 1>>, <<210, 2>>, <<220, 1>>, <<259, 1>>,
     <<221, 1>>, <<260, 1>>, <<222, 1>>, <<261, 1>>,
     <<251, 1>>, <<253, 1>>, <<256, 1>>, <<257, 1>>, <<258, 1>> >>
CanReads == << <<1, 1>>, <<2, 1>>, <<3, 1>>, <<4, 1>> >>

(* The first block whose registers include those asked for. *)
BlockOf(k, read) ==
  <<k, SelectInSeq(Table[k], LAMBDA b : b[1] <= read[1] /\ read[1] + read[2] <= b[1] + b[2])>>
Reads(k, reads) == [p \in DOMAIN reads |-> [register |-> reads[p][1], block |-> BlockOf(k, reads[p])]]
Plan == Reads("HUAWEI", HuaweiReads) \o Reads("NRGKICK", NrgkickReads) \o Reads("CAN_EZ3", CanReads)
Used == {r.block : r \in ToSet(Plan)}

(* Blocks of which several fields are compared: the inverter's yield is in *)
(* one, the counters of the battery are in the other.                      *)
Inverter == BlockOf("HUAWEI", <<32114, 2>>)
Battery == BlockOf("HUAWEI", <<37784, 2>>)
Compared == {Inverter, Battery}

ASSUME DaysAssumption == Days \subseteq Seq({"produce", "charge", "discharge"})
ASSUME BoundsAssumption == Failing \subseteq Used /\ Startable \subseteq ToSet(Devices)
(* Counters of a day, and the sum of two of them, do not run over. *)
ASSUME ModulusAssumption ==
  Modulus \in Nat \ {0} /\ (\A d \in Days : 2 * Len(d) < Modulus) /\ ThreePhase \in BOOLEAN
ASSUME SpecialAssumption ==
  /\ \A special \in {None, Zeroed, Garbage, Unread, Mixed} : special \notin Nat
  /\ None # Zeroed /\ Garbage # Zeroed /\ Mixed \notin {Zeroed, Garbage, Unread}
  /\ Nobody \notin {"http", "log"}

VARIABLES
  day, now,   \* environment: what this day brings, how much of it has come
  client,     \* per device, its polling client
  next,       \* the block the Huawei thread polls next
  cache,      \* per block, the moment it was polled at
  by,         \* who takes a snapshot
  got         \* the snapshot so far:
              \*   at: how many look-ups are done
              \*   origin: moment the values of a compared block are of
              \*   counter: what was read of the daily counters
              \*   status: bytes of nrgkick_values_t from cp_status on
              \*   phases: register shown as current, power, voltage of a phase
              \*   blind: history, devices a look-up has not found
              \*   ready: history, it was begun after all were started

envVars == <<day, now>>
snapVars == <<by, got>>
vars == <<envVars, client, next, cache, snapVars>>

(* Daily energies at moment m.  All the battery is charged with is         *)
(* produced; what it gives leaves through the inverter.                    *)
Count(m, kinds) == Cardinality({i \in 1..m : day[i] \in kinds})
Produced(m) == Count(m, {"produce", "charge"})
Yield(m) == Count(m, {"produce", "discharge"})
Charged(m) == Count(m, {"charge"})
Discharged(m) == Count(m, {"discharge"})

Tick == now < Len(day) /\ now' = now + 1 /\ UNCHANGED <<day, client, next, cache, snapVars>>

-----------------------------------------------------------------------------
(* Registry and polling threads *)
Earlier(k) == {Devices[j] : j \in 1..(SelectInSeq(Devices, LAMBDA d : d = k) - 1)}
Alive(k) == client[k] \in {"created", "registered"}

(* modbus_tcp_poll_start: the thread runs before its client is registered. *)
Create(k) ==
  /\ client[k] = "none" /\ \A d \in Earlier(k) : client[d] \notin {"none", "created"}
  /\ \/ client' = [client EXCEPT ![k] = "created"]
     \/ k \notin Startable /\ client' = [client EXCEPT ![k] = "failed"]
  /\ UNCHANGED <<envVars, next, cache, snapVars>>
Register(k) ==
  /\ client[k] = "created"
  /\ client' = [client EXCEPT ![k] = "registered"]
  /\ UNCHANGED <<envVars, next, cache, snapVars>>

(* All are started; the signal may come. *)
Started == \A d \in ToSet(Devices) : client[d] \notin {"none", "created"}

(* modbus_tcp_poll_stop_all: the thread is joined, its client freed.       *)
\* mutant: the device started last is stopped first
StopsAnyOrder(k) == \A d \in ToSet(Devices) : d \notin Earlier(k) /\ d # k => ~Alive(d)
Stops(k) == \A d \in Earlier(k) : ~Alive(d)
Stop(k) ==
  /\ Started /\ Alive(k) /\ Stops(k)
  /\ k = "HUAWEI" => next = 1     \* the loop of the thread has come to its end
  /\ client' = [client EXCEPT ![k] = "gone"]
  /\ cache' = [b \in Used |-> IF b[1] = k THEN None ELSE cache[b]]
  /\ UNCHANGED <<envVars, next, snapVars>>

(* A block is saved as of now.  A failed poll keeps it or, from the limit  *)
(* on, zeroes it; without memory to save it there is none.                 *)
PollBlock(b) ==
  \/ b \in Used /\ cache' = [cache EXCEPT ![b] = IF b \in Compared THEN now ELSE 0]
  \/ b \in Failing /\ cache' \in {[cache EXCEPT ![b] = v] : v \in {cache[b], Zeroed, None}}
  \/ b \notin Used /\ UNCHANGED cache

\* mutant: the loop runs one block past the table
BlocksLeftPast == next <= Len(Table.HUAWEI) + 1
BlocksLeft == next <= Len(Table.HUAWEI)
(* The Huawei thread sleeps a second before it polls; nothing makes it      *)
(* wait until main has started all of them.                                *)
PollHuawei ==
  /\ Alive("HUAWEI")
  /\ BlocksLeft /\ next' = next + 1
  /\ PollBlock(<<"HUAWEI", next>>)
  /\ UNCHANGED <<envVars, client, snapVars>>
(* Of the other threads only the blocks that are read matter. *)
PollOther(b) ==
  /\ b[1] # "HUAWEI" /\ Alive(b[1])
  /\ PollBlock(b)
  /\ UNCHANGED <<envVars, client, next, snapVars>>

-----------------------------------------------------------------------------
(* The meter's block in the order of huawei_em_request_t, register by      *)
(* register; the block is copied into it back to front.                    *)
\* mutant: phases in the order of the registers
EmLayoutForward ==
  <<"power_l1", "power_l1", "power_l2", "power_l2", "power_l3", "power_l3",
     "line_voltages", "line_voltages", "line_voltages", "line_voltages", "line_voltages",
     "line_voltages", "meter_type", "energies", "energies", "energies", "energies",
     "energies", "energies", "grid_freq", "power_sf", "total_powers", "total_powers",
     "total_powers", "total_powers", "current_l1", "current_l1",
     "current_l2", "current_l2", "current_l3", "current_l3",
     "voltage_l1", "voltage_l1", "voltage_l2", "voltage_l2", "voltage_l3", "voltage_l3">>
EmLayout ==
  <<"power_l3", "power_l3", "power_l2", "power_l2", "power_l1", "power_l1",
     "line_voltages", "line_voltages", "line_voltages", "line_voltages", "line_voltages",
     "line_voltages", "meter_type", "energies", "energies", "energies", "energies",
     "energies", "energies", "grid_freq", "power_sf", "total_powers", "total_powers",
     "total_powers", "total_powers", "current_l3", "current_l3",
     "current_l2", "current_l2", "current_l1", "current_l1",
     "voltage_l3", "voltage_l3", "voltage_l2", "voltage_l2", "voltage_l1", "voltage_l1">>
EmRegister(name) ==
  37101 + Len(EmLayout) - SelectLastInSeq(EmLayout, LAMBDA field : field = name)

(* What is shown for L1, L2 and L3. *)
PhaseFields ==
  [current |-> <<"current_l1", "current_l2", "current_l3">>,
   power |-> <<"power_l1", "power_l2", "power_l3">>,
   voltage |-> <<"voltage_l1", "voltage_l2", "voltage_l1">>]
Phases(value) ==
  [q \in DOMAIN PhaseFields |-> [p \in 1..3 |->
     IF value \in {Zeroed, Garbage} THEN value
     ELSE IF p = 1 \/ ThreePhase THEN EmRegister(PhaseFields[q][p]) ELSE Zeroed]]
NoPhases == [q \in DOMAIN PhaseFields |-> [p \in 1..3 |-> Garbage]]

(* A register read into one byte of nrgkick_values_t: its low byte goes    *)
(* there, its high byte into the next field.                               *)
StatusByte ==
  [r \in {251, 253, 256, 257} |-> CASE r = 251 -> 1 [] r = 253 -> 2 [] r = 256 -> 3 [] r = 257 -> 4]
MaxCurrent == 5     \* first byte of max_current_to_ev, read from 206
Stored(register, value) ==
  IF value = Garbage THEN got.status ELSE
  CASE register = 206 -> [got.status EXCEPT ![MaxCurrent] = <<206, "low">>]
    [] register \in DOMAIN StatusByte ->
         LET j == StatusByte[register]
             byte(half) == IF value = Zeroed THEN Zeroed ELSE <<register, half>>
         IN  [got.status EXCEPT ![j] = byte("low"), ![j + 1] = byte("high")]
    [] OTHER -> got.status

-----------------------------------------------------------------------------
(* Taking a snapshot *)
Counters == {32114, 37784, 37786}    \* yield, charged, discharged today

Fresh ==
  [at |-> 0, origin |-> [b \in Compared |-> Unread], counter |-> [r \in Counters |-> Garbage],
   status |-> [j \in 1..MaxCurrent |-> Garbage], phases |-> NoPhases, blind |-> {},
   ready |-> FALSE]

Init ==
  /\ day \in Days /\ now = 0
  /\ client = [k \in ToSet(Devices) |-> "none"]
  /\ next = 1
  /\ cache = [b \in Used |-> None]
  /\ by = Nobody /\ got = Fresh

(* The HTTP server is started after the devices. *)
HttpBegins ==
  /\ by = Nobody /\ Started /\ by' = "http"
  /\ got' = [got EXCEPT !.ready = Started]
  /\ UNCHANGED <<envVars, client, next, cache>>

(* After its cycle the Huawei thread takes a snapshot for the log.         *)
\* mutant: a sample is taken as soon as the inverter's block is polled
CycleDoneEarly == next > Inverter[2]
CycleDone == next > Len(Table.HUAWEI)
LogBegins ==
  /\ by = Nobody /\ CycleDone /\ by' = "log"
  /\ got' = [got EXCEPT !.ready = Started]
  /\ UNCHANGED <<envVars, client, next, cache>>
(* A snapshot for the log that is not followed. *)
LogUnseen ==
  /\ by # "log" /\ CycleDone
  /\ next' = 1
  /\ UNCHANGED <<envVars, client, cache, snapVars>>

(* modbus_tcp_poll_get_client_data: without a client the caller's buffer   *)
(* stays as it was, without a block it is zeroed.                          *)
\* mutant: the buffer is not zeroed
FoundUnset(b) == IF client[b[1]] # "registered" \/ cache[b] = None THEN Garbage ELSE cache[b]
Found(b) ==
  IF client[b[1]] # "registered" THEN Garbage
  ELSE IF cache[b] = None THEN Zeroed ELSE cache[b]

LookUp ==
  LET r == Plan[got.at + 1]
      value == Found(r.block)
  IN  /\ by # Nobody /\ got.at < Len(Plan)
      /\ got' = [at |-> got.at + 1,
           origin |-> [b \in Compared |->
             IF b # r.block \/ got.origin[b] = value THEN got.origin[b]
             ELSE IF got.origin[b] = Unread THEN value ELSE Mixed],
           counter |-> [c \in Counters |-> IF r.register = c THEN value ELSE got.counter[c]],
           status |-> Stored(r.register, value),
           phases |-> IF r.register = 37101 THEN Phases(value) ELSE got.phases,
           blind |-> IF value = Garbage THEN got.blind \cup {r.block[1]} ELSE got.blind,
           ready |-> got.ready]
      /\ UNCHANGED <<envVars, client, next, cache, by>>

Done == got.at = Len(Plan)
(* The reply is sent, or the values are posted to the logger. *)
Finish ==
  /\ Done /\ by' = Nobody /\ got' = Fresh
  /\ next' = IF by = "log" THEN 1 ELSE next
  /\ UNCHANGED <<envVars, client, cache>>

Next ==
  \/ Tick \/ HttpBegins \/ LogBegins \/ LogUnseen \/ LookUp \/ Finish \/ PollHuawei
  \/ \E k \in ToSet(Devices) : Create(k) \/ Register(k) \/ Stop(k)
  \/ \E b \in Used : PollOther(b)

Spec == Init /\ [][Next]_vars

-----------------------------------------------------------------------------
Moments == UNION {0..Len(d) : d \in Days}
Value == Moments \cup {Zeroed, Garbage}
(* Type invariant. *)
TypeOK ==
  /\ day \in Days /\ now \in 0..Len(day)
  /\ client \in [ToSet(Devices) -> {"none", "created", "failed", "registered", "gone"}]
  /\ next \in 1..(Len(Table.HUAWEI) + 1)
  /\ cache \in [Used -> Moments \cup {None, Zeroed}]
  /\ by \in {"http", "log", Nobody} /\ got.at \in 0..Len(Plan)
  /\ got.origin \in [Compared -> Value \cup {Unread, Mixed}]
  /\ got.counter \in [Counters -> Value]
  /\ DOMAIN got.status = 1..MaxCurrent /\ DOMAIN got.phases = DOMAIN PhaseFields
  /\ got.blind \subseteq ToSet(Devices) /\ got.ready \in BOOLEAN

(* The cycle of the inverter has ended when all were started.              *)
Logged == by = "log" /\ Done /\ got.ready

(* A sample has no value that no look-up has filled in, unless its device  *)
(* could not be started, or it was begun for the log before all were: the  *)
(* code has nothing against that but the second its first cycle sleeps.    *)
(* For the log, since the inverter's thread takes it and is stopped before *)
(* the other clients go (379-387); for a request, as long as the process   *)
(* is not stopping, since the HTTP server comes last.  A client without a  *)
(* block brings zeros (155-158).                                           *)
Complete ==
  Done /\ got.ready /\ (by = "log" \/ \A k \in ToSet(Devices) : client[k] # "gone") =>
    \A k \in got.blind : client[k] = "failed"

(* The values of a block in a logged sample are of one poll, since the     *)
(* thread that saves them takes the snapshot (258-268).                    *)
LoggedCoherent == Logged => \A b \in Compared : got.origin[b] # Mixed

(* daily_pv_energy_wh (huawei_modbus_converter.c:168), modulo 2^32; what   *)
(* is zeroed counts as the 0 of the beginning of the day.                  *)
Shown(c) == IF got.counter[c] \in Moments THEN got.counter[c] ELSE 0
\* mutant: charge and discharge swapped
DailyPvSwapped ==
  (Yield(Shown(32114)) + Discharged(Shown(37786)) - Charged(Shown(37784))) % Modulus
DailyPv ==
  (Yield(Shown(32114)) - Discharged(Shown(37786)) + Charged(Shown(37784))) % Modulus

(* The daily energy of the panels that is logged, in every case.  Its      *)
(* operands are of two polls, 32016 for the yield and 37700 for what the   *)
(* battery took and gave; both counters of the latter are of the same one. *)
(* It is what the panels had produced at the poll of the battery, less     *)
(* what the yield has moved in between, and wraps exactly where that would *)
(* be below 0: the code does not exclude it, at night for instance, when   *)
(* the battery starts to discharge between the two polls.  When it neither *)
(* took nor gave anything in between, it is exact for the inverter's poll. *)
DailyPvLogged ==
  Logged /\ (\A c \in Counters : got.counter[c] \in Moments) =>
    LET y == got.counter[32114]
        b == got.counter[37786]
        value == Produced(b) - (Yield(b) - Yield(y))
    IN  /\ DailyPv = IF value < 0 THEN value + Modulus ELSE value
        /\ Charged(b) = Charged(y) /\ Discharged(b) = Discharged(y) => DailyPv = Produced(y)

(* A status byte of the charger is the low byte of its own register, since *)
(* each read repairs what the one before it has spilled; only              *)
(* max_current_to_ev, read before, is left with the spill of error_code    *)
(* (nrgkick_modbus_converter.c:27-72).                                     *)
StatusBytesOwn ==
  Done /\ "NRGKICK" \notin got.blind =>
    /\ \A r \in DOMAIN StatusByte : got.status[StatusByte[r]] \in {Zeroed, <<r, "low">>}
    /\ got.status[MaxCurrent] \in {Zeroed, <<257, "high">>}

(* Current, power and voltage of each phase come from the registers that   *)
(* document.pdf p. 71 gives for them, but the voltage of L3: what is shown *)
(* for it is that of L1 (186).  Without a block all are zeros, with a      *)
(* meter of one phase those of the others (174-197).                       *)
PhasesShown ==
  Done /\ got.phases # NoPhases =>
    \/ got.phases = Phases(Zeroed)
    \/ \A p \in 1..3 :
         IF p = 1 \/ ThreePhase
         THEN /\ got.phases.current[p] = 37105 + 2 * p
              /\ got.phases.power[p] = 37130 + 2 * p
              /\ got.phases.voltage[p] = IF p = 3 THEN 37101 ELSE 37099 + 2 * p
         ELSE \A quantity \in DOMAIN PhaseFields : got.phases[quantity][p] = Zeroed
=============================================================================
