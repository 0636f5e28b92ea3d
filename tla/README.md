# Verification of modbus_proxy

TLA+ models of modbus_proxy, model-checked with TLC, with proofs checked by
TLAPS. The program polls solar inverter, wallbox and heating element over
Modbus/TCP, serves the cached registers as a Modbus/TCP server and over HTTP,
and logs the values to InfluxDB with an offline buffer. Paths below are relative
to the root of the repository.

## The system

| part | state | operations | talks to |
|---|---|---|---|
| solar logger, `src/components/solar_logger` | a ring of samples with `cache_index`, `upload_index`, `cache_overflow`, a flag `uploaded` per slot; `send_live_mode`, `cached_values_local`, `cached_values_info` | `solar_logger_post_data` (record, then upload in chunks), init, deinit | called by the Huawei polling thread; calls the database handler |
| database handler, `db_handler` | none | one connection and one HTTP request per chunk | InfluxDB |
| Modbus poller, `modbus_tcp_poll` | the registry `polling_clients`; per client the cached blocks `poll_data` behind `data_mutex`, failure counters in the register tables | one thread per device; look-ups raw (server), typed and string (converters) | Modbus client; converters and logger at the end of a Huawei cycle |
| Modbus client, `modbus_tcp_client` | a socket | connect, request and receive, disconnect | the devices |
| Modbus server, `modbus_tcp_server` | `server_running`, `server_fd`, detached threads per client | accept, answer from the cache, stop | poller's raw look-up |
| HTTP server, `http_server` | `running`, `server_sock`, detached threads per request | GET of values and info as JSON | converters |
| converters (Huawei, NRGkick, CAN-EZ3) | none | one look-up per field | poller's typed look-up |
| main | `running` | start and stop of all parts, SIGINT/SIGTERM | all |
| Fronius client, `fronius_solar_api` | the response of the request under way | three HTTP requests per call | an inverter's web interface; nothing in the program calls it at present |
| logging, system, cJSON | none of interest | helpers | |

Hard to get right, and hard to test: a ring whose equal indices mean both empty
and full, with a writer that overtakes the reader while uploads fail half-way;
answers of a device that come late, merge in the socket or never come; a cache
that has to live through failing reads and vanish after enough of them while
other threads copy it; failing allocations and connections in each of these;
threads that outlive what they use at shutdown; a snapshot of all values that is
taken field by field while the cache moves on; requests that TCP cuts and joins;
descriptors that two threads close. `PROJECT.json` lists the hazards
line by line with the property that covers each.

What makes each part correct:

* logger: nothing is lost but by a full ring or a restart, samples leave in
  order and only when stored, a backlog is worked off;
* poller: a cached value lives exactly as long as the retry limit says, readers
  see whole blocks, values come back when the device does;
* client: a block is cached for the register it was read from, a cycle ends;
* look-ups: what is served are the registers asked for, or nothing;
* converters: a sample has no value nobody wrote, its blocks are of one poll each, and
  fields show the registers the documentation gives for them, one apart;
* Modbus server: a reply belongs to its request, a request that arrives whole and alone
  gets one, every socket has one owner who closes it;
* Fronius client: success means that all values are new;
* servers, registry, main: no thread uses a client or a socket that is gone, and
  the program stops.

## Modules

| module | models | checked by |
|---|---|---|
| `UploadQueue` | abstract: a bounded FIFO of samples and the set of stored ones | refined by `SolarLogger` |
| `SolarLogger` | `solar_logger.c` with the steps of `db_handler.c`; InfluxDB is the environment | `MCSolarLogger`, one run |
| `PollCache` | abstract: values stored and read in one step, expiring after enough failed polls | refined by `ModbusPoll` |
| `ModbusPoll` | `polling_thread`, `modbus_tcp_save_poll_data`, `modbus_tcp_get_poll_data_raw`, `data_mutex`, readers | `MCModbusPoll`, two runs |
| `ModbusClient` | `modbus_tcp_client.c` along one cycle over a register table; device and TCP are the environment | `MCModbusClient`, three runs |
| `RegisterWindows` | which block answers a request: raw and typed look-up over a register table | `MCRegisterWindows`, one run |
| `ModbusRequests` | `handle_modbus_request` on the byte stream of one connection; extends `RegisterWindows` | `MCCacheReaders` |
| `DeviceInfo` | `huawei_get_info` and the look-up of texts; extends `RegisterWindows` | `MCCacheReaders` |
| `CacheReaders` | composition: converters, a Modbus connection and `/info` on a cache that fills | `MCCacheReaders`, one run |
| `Snapshot` | how the converters put all values together for `/values` and for the log, beside the pollers and the start and stop of clients | `MCSnapshot`, one run |
| `ServerSockets` | `modbus_tcp_server.c` down to the numbers of its descriptors, beside the sockets of other parts | `MCServerSockets`, one run |
| `Fronius` | `fronius_solar_api.c` | `Fronius`, one run |
| `Proxy` | `main`, the registry of clients, `modbus_tcp_server.c` and `http_server.c` with all their threads, from start to stop | `MCProxy`, one run |
| `SolarLoggerProofs`, `ModbusPollProofs`, `ModbusClientProofs`, `CacheReadersProofs`, `SnapshotProofs`, `ServerSocketsProofs`, `FroniusProofs`, `ProxyProofs` | inductive invariants and theorems about the module of that name | TLAPS |

Definitions commented `mutant` next to a definition are plausible mistakes in
it. No specification uses them; each breaks one property, which shows that the
property depends on the code.

### SolarLogger

The variables are the statics of `solar_logger.c`, the locals of the upload loop
(`cnt`, `chunk` for `data_strings`) and `pc`, the place in the loop. A sample is
its time stamp, numbered `0..Stamps-1` and reused; `Stamps > N` keeps the stamps
in the ring distinct. `stored` is what InfluxDB holds; a stamp taken again leaves
it.

* `Post(force)` is `solar_logger_post_data` up to its loop, `Record` inside it is
  `update_cached_values` (112-206): slot, indices, overtaken reader, info.
* `Fill` is one turn of the loop (231-414) with the early exit 235-240.
* `ConnectFails`, `Send`, `DbStores`, `DbRefuses` are `db_handler_send_solar_values`:
  failing before anything was sent, stored with its 204 arriving or not, refused.
  `db = "up"` means that connecting and storing succeed.
* `Acknowledged` marks the slots, moves `upload_index` and leaves or goes on
  (377-405); leaving at the time limit is possible after every chunk. `Rejected`
  leaves (406-410).
* `Restart` ends the process anywhere. The memory of the new ring is arbitrary
  (`malloc`), so its flags are.

The refinement of `UploadQueue` (`Refines`): `Restart` is the only step that loses all that waits.
`life` is history, the parity of the number of restarts; `Lose` of the queue changes it and
nothing else does, so that an upload that fails may not clear the ring and still refine.

Abstracted: packing and text of the 50 fields, `time()` failing (the call is then
skipped as a whole), failing allocations in the formatting, the thread that
reads `cached_values_info` (nothing in the program calls the getters).

### ModbusPoll

One client: the polling thread step by step (`pc`), the save split at its lock,
free, malloc, each copied word and unlock, and readers that lock, look up, copy
word by word and unlock. `health = "bad"` lets connects, reads and allocations
fail, each of its own; it changes freely. `Dirty` is memory not written yet or
freed. `num_failed_requests` counts modulo `CounterSize`. `missed`, `unreached`
and `fresh` are history. The reader is the raw look-up used by the Modbus server;
the typed one differs in the window (module `RegisterWindows`) and in answering
zeros for no data. The log entry at the end of a Huawei cycle is one step,
`PostLog`; what happens in it is `Snapshot` and `SolarLogger`.

The refinement of `PollCache` (`Implements`): a save takes effect when its memory is
there, so a block being copied shows the poller's buffer; a look-up takes effect when
its block is found, so a copy under way shows that block; `missed` is the history
variable of both.

### ModbusClient

One action per call of a cycle. `asked` holds requests the device has not dealt with,
`stream` its answers in the socket, each with the number of bytes up to its end; that of
the first is below its size when a receive has taken its beginning. A receive takes up
to 256 bytes of what is there (86) and goes through the checks 87-105; `ReadRaw` notes
in `saved` whose answer was taken for which register. If a receive starts within an
answer, its eighth byte is any byte. `behind` counts from the oldest request whose answer is
still to come to the one just sent, at the most on this connection; a request counts on a closed
connection, too.

TCP delivers the stream in pieces: a receive finds all up to the end of some answer, or up to
a place where an answer is cut (`Amounts`, `Cuts`), and `cut` notes that the latter has happened on
this connection.

A connection is `open`, closed by the device (`fin`), written to after that (`late`), aborted
(`error`), or `reset`. On Linux the first write after a close succeeds and brings the
reset. When the device or the network aborts the connection (`Abort`), answers that have arrived
may be there or be lost; the error is reported once, to a send, which then leaves the
receive out (`SendFails`, 71-74 and 83-85), or to a receive (`RecvClosed`), and the cycle goes on with the next register.
A write after that raises SIGPIPE, whose action nobody has changed.

### RegisterWindows

Blocks are saved in any order, as after a start with some reads failing, and saved again.
A save frees the old data before it allocates the new (82-90): without memory there is no data,
but the length stays as it was (`data`, `length`). `Unlucky` are the blocks this may happen to, any
in the proofs. `GetRaw` uses the window of 103-127, whose length is in bytes and zero before the
first save, `GetTyped` that of 130-160, with the length of the register table. The
first block that fits decides. `Serve` is a look-up by both; `gone` is history, the
blocks with a length and no data at that look-up. A block that has lost its data hides those behind it that its doubled window
covers: a client that asks for 20 registers from 37100 is refused while the block
of 37000 has lost its data, and `RawServesPolled` says that nothing else is. Address arithmetic in the code is
done in `int` and compared with a `uint16_t` end; no block of the tables comes near 65535, so the model uses integers.

### ModbusRequests

`stream` holds the bytes under way to `handle_modbus_request`; `Read(n)` is one `read` that
returns `n` of them and the handling of what it returned: too short (71-74) or not
supported (75-84) is dropped, else the registers are looked up with `Serve` and answered
(85-129). `HandleFails` are its failing allocations. The buffer is larger than what two
requests take, so a read may return all of the stream; what it takes behind the first
request is dropped with it. `smooth` is history: reads and requests have coincided so far.

`AnswersOwn` rests on the addresses that are polled: behind a cut after the first byte of
a request, the first byte of its address stands where the function is expected, so a
request for registers 768 to 1023 could be answered as another one; behind a cut after six
bytes, an address 0 would stand where the protocol is expected. The inverter's table, the only
one the server answers from, has neither, so no peer has a reason to ask for them; one that
does is left out (`AddressesAssumption`).

### DeviceInfo

`step` is the field `huawei_get_info` reads next. A text is its number of characters
before an invalid one or a 0, and whether a 0 follows. `LookUpText` is
`modbus_tcp_get_poll_str` (163-213), which adds the characters it counts to `*len`, 16
bits wide; `Leftovers` is what may be there before, as no caller sets it. The inverter's
client is taken to be registered (its life is in `Snapshot` and `Proxy`).

### CacheReaders

Blocks are saved in any order (`Filling`) while one kind of reader is at work: a
converter (`Converting`), a Modbus connection (`ServingOne`) or a request for `/info`
(`InformingOne`). Readers leave the cache alone, so one of them per behaviour shows all
that a reader can meet.

### Snapshot

`Plan` is the list of look-ups of `huawei_get_values`, `nrgkick_get_values` and
`can_ez3_get_values`, each with the block that answers it; `LookUp` is the next of them,
`Found` what the typed look-up leaves in the caller's buffer: `Garbage` before the client is
registered, zeros without a block. `HttpBegins` to `Finish` is `/values`, `LogBegins` to `Finish`
the log entry at the end of a cycle of the inverter's thread, which polls one block per
`PollHuawei`. `LogUnseen` is a log entry while another snapshot is followed. `Create`,
`Register` and `Stop` are the lives of clients, with the order that `main.c` and
`modbus_tcp_poll_stop_all` give them.

Of the values only what a property tells apart is kept: the moment of the poll for the
two blocks whose fields are compared (`origin`), the three daily counters that
`daily_pv_energy_wh` is made of, the bytes of `nrgkick_values_t` that registers of 16 bits are
read into (`StatusByte`), and the registers shown as values of a phase, by the layout of
`huawei_em_request_t` under a block copied back to front (`EmLayout`, `memcpy_reverse`).
`day` is what battery and panels do. Assumed of the plant: the battery is charged by the
panels only, and twice the events of a day fit in a counter of 32 bits
(`ModulusAssumption`), as the sum of two counters may reach that.

Nothing in the code makes the first cycle of the inverter's thread wait until all devices are started, but
that it begins with a sleep of a second. The model does not rely on it: the thread polls and logs at
once, and `got.ready`, history, says whether all were started when the snapshot was begun. `Complete`,
`LoggedCoherent` and `DailyPvLogged` speak of those; an earlier sample may hold values of devices
nobody has registered yet.

### ServerSockets

`fd` is the system's table of descriptors, which gives the lowest free number; each
number stands for the listener, a connection or a socket of another part. `thread` and
`stop` are the places in `modbus_tcp_server_thread` and `modbus_tcp_server_stop`, statement
by statement where `server_fd` is read or written; `conn` are the client threads. `close`
and `shutdown` act on what their number stands for at that moment. `listening` is the
listener's state, which outlives its number while `accept` is blocked on it.

### Fronius

One call of `fronius_get_values`: for each of three documents `Get` (with the pieces that
`write_callback` forgets), `Status`, `Parse`, the values one after the other (`Store`, `StoreFails`)
and `Exit`. `values` says which call has stored each value.

### Proxy

The life of the process. `main` says which call of `main()` comes next, `i` is its loop
index; `slot` and `num_clients` are the registry; per device `client` says whether
its memory is live, `polling` is `client->running` and `poller` where its thread is.
`Lookers` are the threads that look up clients: the inverter's polling thread (which
reads all devices for the log), the client threads of the Modbus server and the
request threads of the HTTP server. `Find` is a scan of the registry, `Use` what is done
with the client found; a client may be freed between the two.

* Start: `ServerStart`, then `PollCreate` and `PollRegister` per device with its
  thread already running, `HttpStart`; each may fail. A failing `pthread_create` in
  `modbus_tcp_poll_start` may end the process (`PollStartFails`).
* `Signal` comes at any time, also before the event loop. The handler may run in any
  thread; `EventLoop` ends by its own time limit.
* Stop, in the order of `main.c`: `ServerStop`, `ServerShut`, `ServerJoin`; `PollStop` and
  `PollJoin` per client and `PollStopped`; `HttpStop`, `HttpClose`, `HttpJoin`; `LoggerDeinit`.
* The accept thread: `ServerBoot` to `ServerSpawnFails`. It checks `server_running` before
  and after `accept`, not between that and the new thread.

Undefined behaviour and SIGPIPE are steps that may set `main` to `"crashed"`: reading a
freed client, writing to a peer that is gone, `FD_SET` of a closed socket, joining or
detaching an identifier never assigned. When the process has crashed or returned
from `main`, every thread stops. The detached threads of both servers do read freed
clients during the stop: nothing joins them. No text of the repository promises
otherwise, so it is a hazard in `PROJECT.json` and not a finding; `PollersSafe` states
what the order of stopping does achieve.

Abstracted: the scan of three slots is atomic; file descriptors have no numbers
(`ServerSockets` has those of the Modbus server); a polling cycle is one step (`ModbusPoll`
has its details); a connection that has ended is free to be used by the next one.

## Runs

| run | question | result |
|---|---|---|
| `logger_ring` | Do indices, flags and info agree, does the loop only find pending slots, is the logger a FIFO? Does a backlog end once the database stays up? | yes |
| `poll_cache` | Do values live as long as the limit says, do readers see whole blocks, do values come back when the device does? Is it all as if saves and look-ups were single steps? | yes |
| `poll_unreached` | Is a failed connect counted as a failed poll, as the README's picture of service caching shows? | no |
| `client_prompt` | Is every block cached for its own register, with answers cut if none is late, and up to three requests late if none is cut? Does every cycle end, whatever the device does? | yes |
| `client_register` | And without these conditions (the transmission identifier of `docs/document.pdf`)? | no |
| `client_hangup` | Does the process survive a device that closes or aborts the connection (`README.md:13`)? | no |
| `windows_served` | Do converters stay within a block, can a client read what a converter can, but for a block before it without memory? Do replies belong to their requests however TCP cuts them, and is none missing when requests come one by one? Are the texts of `/info` whole, if `*len` was 0 or a 0 follows? | yes |
| `windows_beyond` | Is a request past the end refused with exception 0x02 (`docs/document.pdf` p. 113)? | no |
| `snapshot` | Is every value of a snapshot one that somebody wrote, is each block of a logged one of a single poll, what is the daily energy of the panels that is logged, do status bytes and phases come from their own registers? | yes, but the third voltage; the energy of the poll of the battery less what the yield has moved since, which may wrap |
| `server_sockets` | Does each number of a descriptor stand for its owner's socket, is none leaked, is the port free after the stop, is a blocked accept always woken? | yes |
| `fronius` | What may a failed call leave behind, and does success mean that all is new? | only a prefix of newer values; it does |
| `proxy_life` | Do polling threads outlive what they use? Are all clients found until stopped, and all stopped? Does the server accept after its stop? Does a signal end the process? | no polling thread does; they are; it does not; it does |

The four runs whose answer is a bare "no" are expected violations, recorded as
findings in `PROJECT.json` with the text each contradicts.

### Bounds

The proofs remove the bounds for all invariants, step properties and refinements but those
listed under "Only model-checked".

* `logger_ring`: 4 slots, chunks of 2, 5 time stamps, unforced calls, too, which the
  poller does not make. A chunk can end at the newest
  sample, wrap around the ring, be shorter than the ring and be followed by a
  second one; the ring fills, is overtaken at every position of the reader and is
  restarted; more than one failure in a row is possible.
* `poll_*`: two registers, so that a counter belongs to one of them; limit 3 and a
  counter that runs over at 4, so it passes the limit, overflows and passes it
  again; two words, the least that can be torn; two versions; one reader besides
  the poller. Readers only read, and the mutex excludes two of them like a reader
  and the poller.
* `client_*`: the table of the Huawei inverter as it is, 9 and 256 bytes as in the
  code. Merging answers needs exactly these sizes: three late answers of 59, 17
  and 9 bytes are as long as the answer for the 38 registers of the fifth request, and no such sum is reached
  with four requests open, the device three behind (`Prompt` = 4). An answer may be cut after 42 bytes, which
  leaves of the first one, of 59 bytes, as many as the second has: the least that shows what a cut can do; the proofs
  have any set of cuts. One connection is enough, as it starts anew each cycle.
* `windows_*`: the whole Huawei table, requests at and around the first and last
  addresses of four of its blocks and of their windows. In `windows_served` the blocks 37000 and 37100
  (`Unlucky`), of which the window of the first covers the second, may lose their data in a later save. It adds a connection
  with two requests, which may be cut and joined anywhere, the second with an identifier
  that ends in a function code, so that words taken from the middle would look like a
  request; and texts that are empty, short or fill their field, found with `*len` at 0, small
  or about to run over. One request more adds only another one cut or joined in the same way.
* `snapshot`: the three devices with all their blocks and look-ups; one day of two events,
  discharging and charging, the least in which energy moves between two polls of one cycle, so that
  the daily energy wraps in some behaviours and not in others; the inverter's block, whose
  failure the daily energy depends on, may fail to be polled and `CAN_EZ3` to start;
  counters modulo 16 instead of 2^32, more than a day's events can reach.
* `server_sockets`: five numbers for the listener, two connections and two other sockets:
  enough for all at once, and for another part to be given each number that was closed.
* `fronius`: three calls, so that values of three ages can be mixed.
* `proxy_life`: the three devices and three slots of the code, one connection and one
  request. Connections share nothing with each other but the flag and the registry, which
  they only read.

`client_*` and `proxy_life` do not check for deadlock: after SIGPIPE or at the end of
`main` the process has ended. Nor does `fronius`, which ends with its last call.

### Fairness

* `SolarLogger`: weak fairness of the logger and of the network. The poller calls
  the logger each cycle, and every socket call of `db_handler.c` times out. Nothing
  is assumed of the database but what `BacklogDrains` says in its premise.
* `ModbusPoll`: weak fairness of the polling thread and of a reader that holds the
  mutex; strong fairness of the poller's lock. A pthread mutex promises no order,
  but readers pass a network round trip between two look-ups, so the mutex is free
  again and again for much longer than a look-up takes. Readers need not ask at
  all.
* `ModbusClient`: weak fairness of the client thread alone. The device owes
  nothing: `CycleEnds` rests on the receive timeout.
* `Proxy`: weak fairness of `main`, of each polling thread, of the HTTP loop (its select
  ends after 1 s) and of the accept thread except in `accept`, which waits without a
  limit. Nothing is assumed of connections and requests, and the signal need not come.
  A polling cycle is taken to end: `CycleEnds` and the time limits of `db_handler.c`.

## Proofs

Eight modules, each `EXTENDS` the one it is about. Each has an `IInv` (and `OrderInv`, `InStep`,
`InPairs`, `OwnInv`, `CountersHeld`, `PhasesSoFar` on top of one), lemmas that `Init` establishes it and each
action keeps it, and theorems drawn from it. These invariants hold on the instances of the runs,
too. Nothing is assumed but the assumptions on constants, which TLC evaluates in the runs, and what
two theorems about the client say of a table. Leaves are kept small: all proofs pass with a fraction
of the provers' time limits.

| module | for every | proved |
|---|---|---|
| `SolarLoggerProofs` | ring of more than one slot, chunk, number of stamps above the ring's size | `TypeOK`, `WindowExact`, `LoopFindsPending`, `RingInOrder`, `Refines` |
| `ModbusPollProofs` | number of registers and words, retry limit, counter that can hold it, versions, readers | `TypeOK`, `StaleBound`, `KeptUntilLimit`, `NoTornRead`, `Implements` |
| `ModbusClientProofs` | register table, sizes of an empty answer and of the buffer, set of cuts | `TypeOK`, `RightWhenPrompt` and `RightRegister` on the conditions below |
| `CacheReadersProofs` | register table, requests, set of blocks without memory, texts, width and start of `*len`, number of requests and identifiers that fit two bytes | `ReadersTypeOK`, `TypedWithin`, `RawServesPolled`, `TextsWhole`, `AnswersOwn`, `AnswersAll` |
| `SnapshotProofs` | course of the day, set of failing blocks, set of startable devices, one or three phases, modulus above twice the events of a day | `TypeOK`, `Complete`, `LoggedCoherent`, `DailyPvLogged`, `StatusBytesOwn`, `PhasesShown` |
| `FroniusProofs` | number of calls | `TypeOK`, `MixIsPrefix`, `OkMeansNew` |
| `ServerSocketsProofs` | number of descriptors, connections and other sockets | `TypeOK`, `OwnNumbers`, `NoLeak`, `ListenerClosed`, `AcceptWoken` |
| `ProxyProofs` | number of slots, connections and requests | `TypeOK`, `PollersSafe`, `RegistryComplete`, `NoLateClients` |

Devices, the look-ups of `Snapshot` and the documents of `Fronius` are those of the code and
not parameters.

### Logger

`WindowExact` is not inductive alone. Overtaking compares `next > upload_index`, which
is wrong for a ring that has not wrapped unless the reader is not ahead of the
writer (`NotAhead`); the loop formats and later marks `cnt + 1` slots from
`upload_index` on, which stay within the window only if `cnt` is below the number of
pending slots during the whole upload (`ChunkPending`); the counter of the batch
stays in range because a call starts with an open batch (`BatchOpen`). `NextIInv` has one
step per action, each with a lemma of its own: `RecordWindow` is the heart, with its cases
empty, full, reader behind, reader ahead; `MarkedSlots` says which slots an acknowledged
chunk marks when it wraps.

Order and refinement need more (`OrderInv`): a written slot's stamp is as old as its distance
from the writer says (`Aged`), `cached_values_info` agrees with the indices (`InfoTrue`), the
text under way is that of the first slots of the window (`ChunkIs`), and what the database
has answered for it holds (`AckStored`). `Stamps > N` makes a new stamp differ from all in
the ring (`StampIsFree`), which `Take` of `UploadQueue` asks for. `NextRefines` maps
recording to `Take` (`PostTakes`: at a full ring the front makes room), the database's store
to `Store`, the acknowledgement to `Acknowledge` (`AcknowledgedLeaves`), a restart to `Lose` and all
else to stuttering.

### Poller

`StaleBound` speaks of the number of failures, the code of a counter that runs over; the link
is that the counter is exact below the limit (`CounterExact`) and a block is zeroed only when
the limit has been reached (`BufDeserved`), and then stays zeroed. `NoTornRead` rests on `Exclusive`:
the mutex is held by whoever is between lock and unlock, so the block whose copy a reader
has begun (`ReadProgress`) is not the one being filled (`SaveProgress`), and every other block is
whole (`CacheWhole`). For `Implements` a block being filled shows the poller's buffer
(`Filled`), so that the whole save is the step that allocates it.

### Client

`InOrder` says that what the device has not dealt with are the last requests of the cycle and
what it has answered are earlier ones, in their order; `Recent` that all that is to come while a receive
waits belongs to the last `behind` requests. `Placed`, part of the type invariant, has the answers
lie one behind the other; a receive of any number of bytes keeps that because the answers that end
within them are the first ones (`UsedUpIs`, by the least one that does not).

`InStep` is the strengthening of `RightWhenPrompt` for `behind <= 1`: a receive then begins with the
first byte of an answer, as what an earlier receive has left behind belongs to an earlier request and
would have made the next one count for two. By `Recent` this answer is the own one, so that
whatever part of it has come, and whatever the table, nothing else is cached (`RecvInStep`).

`InPairs` is that for `behind <= 2` while no answer has been cut. The socket then holds one answer or
two (`PairsFound`). One may be that of the register before, of another size by `Apart`, which speaks
of neighbours in the table; two make up an even number of bytes where an answer with values has an odd
one (`Parity`). Each answer has to fit in the buffer (`Fits`), and both together: the rest would be received
for the next register. Cut answers are excluded because they do go wrong: of 59 bytes, cut after 42,
17 are left, the size of the next answer, which is the trace of `client_register`.

A table of two registers never has more than two requests open, so with the tables of the charger and
of the sensors a register gets the answer to another one only after a cut, however late
or lost answers are (`ShortTableIsRight`). TLC evaluates `Fits` and `Apart` for these tables
(`TablesAssumption`).

### Look-ups and connections

`IInv` of `CacheReadersProofs` is the conjunction of what is proved and `Sizes`: a length that is not 0 is that of
the block. `LookUpsAgree` compares the two look-ups: they scan the table for the first block that
fits, with windows in bytes and in registers. What the second accepts lies in the first's window of the
same block, if that has been saved; so where the first finds nothing, it was stopped by an
earlier block with a length and no data, which is what `RawServesPolled` says.
`TextLookedUp` follows `*len` through the additions and the remainder.

`OwnInv` keeps what `AnswersOwn` needs of a byte stream: the bytes under way are the rest of all bytes sent
(`StreamIs`), identifiers count up (`Numbered`), each reply is to a request all of which has been
read (`RepliesOwn`), and in step with the requests none is left out (`AllSoFar`). A read begins
anywhere in a request. `NeverCut` goes through the twelve places: wherever but at the first byte it
begins, either the protocol is not 0 or the function is not 3. That needs of a request
that its address is not 0 and that its first byte is not 3 (`AddressesAssumption`), its function not 0
(`AskedAssumption`) and its unit 1. The assumption that an address is not 0 was not visible
in the run; the proof asked for it.

### Snapshot

A look-up of a snapshot that was begun when all were started (`got.ready`, `Taken`) finds no client
only after the stop of one has begun or when its device could not be started (`BlindLost`), and the
inverter is stopped first (`StoppedFirst`, `CycleHeld`). For `LoggedCoherent`,
values taken so far are those the cache still has (`OneCycle`), because the thread that takes
the snapshot is the one that saves the inverter's blocks. `BytesSoFar` states `StatusBytesOwn` for the
look-ups so far: one spills into the byte of the one before, so their order counts. `PlanIs` expands the
35 look-ups once; nothing else depends on their contents.

For `DailyPvLogged`, the counters looked up so far are those the cache has (`CountersHeld`), so the
two of the battery are of one moment; `Balance` then adds up cardinalities: what is charged or
passes the inverter, less what the battery gives, is what the panels produce. The yield may be of
another moment; the property says what the difference comes to, and that it wraps exactly when
it is below 0 (`Wrapped`, `MomentsFit`: it stays within one modulus of 0).
For `PhasesShown`, the phases shown are those of one look-up (`PhasesSoFar`), and `LastIs` finds
the register of a field from the last place of its name in the layout.

Proving it showed two guards of the model that overlapped in a `CASE` (`Stored`); TLC took the
first. They are now exclusive, in the order of the code.

### Fronius

What the call under way has passed is of this call (`PassedIsNew`) and nothing is of a later one
(`NoneFromLater`), so that each store keeps the mix a prefix. `Passed` says per place in the call what has been
passed, in the order of the documents.

### Server sockets

`Own` extends `OwnNumbers` beyond the beginning of the stop, to the close in `modbus_tcp_server_stop`:
until then each number in a variable is its socket's. `OpensFree` says that a number given is of nobody, `ClosesOne`
that a close touches one number. `Phases` and `Woken` follow how far thread and stop may have come of each other,
with the window in which stop tests `server_fd` before the thread has opened it.

### Life of the process

The registry has no lock; what makes it safe is the order of `main`. `StartOrder` and
`StopOrder` say how `main`'s index, `num_clients` and the slots agree while clients are started
and stopped; `RegistryLive` that who is registered lives and that the inverter, whose thread reads
the others, is in the first slot and so the first to be joined; `HuaweiReads` that this thread
holds a client only while it reads. `LoggerLife` and `ServerDown` do the same for the ring of the logger
and for the accept thread.

### Only model-checked

* All liveness (`BacklogDrains`, `Recovers`, `CycleEnds`, `Terminates`): fairness is out of the
  prover's reach.
* `RightWhenPrompt` for the inverter's table and a device two or three requests behind: which sums of
  sizes, whole or cut at 256 bytes, make up another answer is a matter of that table alone, and
  TLC goes through all of them. The theorems cover any table and one request open, or two
  where neighbours' answers cannot be taken for each other.

## Not modelled

* Packing a sample into bit fields and formatting it (`solar_logger.c` 29-91, 112-168 and
  242-353 but for their control), scaling of single values in the converters: arithmetic
  on one value that no other step can disturb.
* `modbus_tcp_poll_stop_client`, `modbus_tcp_client_read` and `read_str`, `set_nonblocking`,
  which nothing calls.
* Parsing of the request line and the text of replies in `http_server.c`; the bytes of a
  Modbus reply beyond identifier, unit and exception.
* Clocks: the 60 s of an idle connection, the 4000 s of an upload, the time limits of sockets.
* Logging, the clock of `system.c`, and cJSON, a vendored library of half the lines of the
  repository.

## Observed, without a run

Places where the code does something surprising and no text of the repository says
otherwise, or where only the untouched part is checked:

* `huawei_modbus_converter.c:186` shows the voltage of the first phase as the third; `PhasesShown`
  states it.
* `huawei_modbus_converter.c:168` wraps to almost 2^32 Wh when the battery moves between the polls of
  32016 and 37700 and little has been produced; `DailyPvLogged` states when.
* Only the sleep of a second at the beginning of the inverter's first cycle (`modbus_tcp_poll.c:228`) keeps it
  from logging a sample before the other devices are registered; no property covers that sample.
* `solar_logger.c:163` logs `user_set_current` as `max_current_to_ev`.
* The low byte of `max_current_to_ev` holds the high byte of the register of `error_code` after a
  snapshot (`StatusBytesOwn` states it).
* `modbus_tcp_poll.c` 163-213 adds to a `*len` nobody has set. `TextsWhole` states under which
  conditions the text is right all the same; without a block, and with `*len` not 0 by chance,
  memory as it was allocated is shown.
* A second Modbus request that arrives with the first is dropped without a reply
  (`modbus_tcp_server.c` 56-74); `AnswersAll` leaves that case out.
* A reply of more than 127 registers has its byte count cut to eight bits
  (`modbus_tcp_server.c:104`).
* The idle time limit of a connection (137) is tested right after `last_activity` was set, and
  never while `read` waits.
* From the stop on, main and the accept thread may both close `server_fd` (232, 247), and after
  a failed bind the stop acts on whatever has its number then; a connection accepted while
  the server stops is not closed (197). The process is about to end in each case;
  `OwnNumbers` and `NoLeak` speak of the time before, so that no property covers these three.
* `fronius_solar_api.c:20` forgets all pieces of a response but the last, and `cJSON_free` in
  place of `cJSON_Delete` gives back the root of a document only.

## Plan

In this order:

1. `SamplePacking`: saturation and width of the packed fields of a sample.
2. `PollClients`: `stop_client` and the holes it leaves, with the scan slot by slot.
3. Parsing of requests in `http_server.c`.
