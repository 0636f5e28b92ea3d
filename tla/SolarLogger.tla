---------------------------- MODULE SolarLogger ----------------------------
(***************************************************************************)
(* The offline buffer of the solar logger and its upload to InfluxDB:      *)
(* components/solar_logger/solar_logger.c with the request/answer steps of *)
(* components/db_handler/db_handler.c.  One thread (the Huawei poller)     *)
(* calls solar_logger_post_data; the database is the environment.          *)
(***************************************************************************)
EXTENDS Naturals, Sequences, SequencesExt

CONSTANTS
  N,          \* MAX_AMOUNT_OF_CACHED_DATA, slots of the ring
  Chunk,      \* DEBUG_POST_CHUNK_SIZE, samples of one request
  Stamps,     \* time stamps are numbered 0 .. Stamps-1, then reused
  Forces,     \* values of the parameter "force" of solar_logger_post_data
  NoTs        \* content of a slot never written

ASSUME RingAssumption == N \in Nat /\ N > 1
ASSUME ChunkAssumption == Chunk \in Nat \ {0}
ASSUME StampsAssumption == Stamps \in Nat /\ Stamps > N
ASSUME ForcesAssumption == Forces \subseteq BOOLEAN
ASSUME NoTsAssumption == NoTs \notin Nat

VARIABLES
  cache_index,          \* next slot to write
  cache_overflow,       \* the ring has wrapped once
  upload_index,         \* next slot to upload
  ts,                   \* ts[s]: the sample in slot s
  uploaded,             \* uploaded[s]: acknowledged (arbitrary until written)
  send_live_mode,       \* the last upload ran into its time limit
  cached_values_local,  \* samples taken since the last upload
  info,                 \* cached_values_info
  pc,                   \* where solar_logger_post_data is
  cnt,                  \* samples formatted for the chunk being built
  chunk,                \* data_strings: the samples of the chunk
  answer,               \* what the response to the last request says
  db,                   \* environment: "up" or "down"
  stored,               \* history: samples the database holds
  clock,                \* the next time stamp
  life                  \* history: which life of the process, modulo 2

ringVars == <<cache_index, cache_overflow, ts, info>>
markVars == <<upload_index, uploaded>>
loopVars == <<cnt, chunk>>
vars == <<ringVars, markVars, loopVars, send_live_mode, cached_values_local,
          pc, answer, db, stored, clock, life>>

Slots == 0..(N - 1)
Sample == 0..(Stamps - 1)
Written(s) == cache_overflow \/ s < cache_index

(* Index arithmetic of the ring, as the code writes it. *)
\* mutant: the index wraps one slot late
WrapLate(i) == IF i > N THEN i - N ELSE i
Wrap(i) == IF i >= N THEN i - N ELSE i
Before(i) == IF i = 0 THEN N - 1 ELSE i - 1

-----------------------------------------------------------------------------
(* A fresh process: solar_logger_init on zeroed statics.  The ring comes   *)
(* from malloc, so its flags hold anything.                                *)
Fresh ==
  /\ cache_index = 0
  /\ cache_overflow = FALSE
  /\ upload_index = 0
  /\ ts = [s \in Slots |-> NoTs]
  /\ uploaded \in [Slots -> BOOLEAN]
  /\ send_live_mode = FALSE
  /\ cached_values_local = 0
  /\ info = [num |-> 0, oldest |-> 0]
  /\ pc = "idle"
  /\ cnt = 0
  /\ chunk = <<>>
  /\ answer = "none"

Init == Fresh /\ db \in {"up", "down"} /\ stored = {} /\ clock = 0 /\ life = 0

-----------------------------------------------------------------------------
(* update_cached_values: the slot, the indices, the overtaken reader.      *)
\* mutant: the case of a reader in the last slot is forgotten
OvertakenNoWrap(next, flags) == ~flags[next] /\ next > upload_index
Overtaken(next, flags) ==
  /\ ~flags[next]
  /\ next > upload_index \/ (next = 0 /\ upload_index = N - 1)

\* mutant: the oldest sample is always taken to be in slot 0
InfoNoWrap(next, full) == [num |-> IF full THEN N ELSE next, oldest |-> 0]
Info(next, full) ==
  IF full THEN [num |-> N, oldest |-> next] ELSE [num |-> next, oldest |-> 0]

Record(s, t) ==
  LET next == Wrap(s + 1)
      flags == [uploaded EXCEPT ![s] = FALSE]
      full == cache_overflow \/ next = 0
  IN  /\ ts' = [ts EXCEPT ![s] = t]
      /\ uploaded' = flags
      /\ cache_index' = next
      /\ cache_overflow' = full
      /\ upload_index' = IF full /\ Overtaken(next, flags) THEN next ELSE upload_index
      /\ info' = Info(next, full)

(* solar_logger_post_data up to its loop.  A failing time() skips the call *)
(* as a whole.                                                             *)
Post(force) ==
  LET local == cached_values_local + 1
      due == force \/ send_live_mode \/ local >= Chunk
  IN  /\ pc = "idle"
      /\ Record(cache_index, clock)
      /\ clock' = IF clock = Stamps - 1 THEN 0 ELSE clock + 1
      /\ stored' = stored \ {clock}
      /\ cached_values_local' = local
      /\ pc' = IF due THEN "fill" ELSE "idle"
      /\ send_live_mode' = IF due THEN FALSE ELSE send_live_mode
      /\ cnt' = 0
      /\ chunk' = <<>>
      /\ UNCHANGED <<answer, db, life>>

(* Leaving the loop: the code after it resets the counter. *)
Leave == pc' = "idle" /\ cached_values_local' = 0

-----------------------------------------------------------------------------
(* One turn of the loop.  The early exit frees data_strings, which on the  *)
(* first turn nobody has initialised.                                      *)
Cursor == Wrap(upload_index + cnt)
EarlyExit == upload_index = cache_index /\ uploaded[Cursor]
\* mutant: the chunk does not end at the newest sample
ChunkEndsFull == cnt = Chunk - 1
ChunkEnds == cnt = Chunk - 1 \/ Cursor = Before(cache_index)

Fill ==
  /\ pc = "fill"
  /\ IF EarlyExit
     THEN Leave /\ UNCHANGED loopVars
     ELSE /\ chunk' = Append(chunk, ts[Cursor])
          /\ cnt' = IF ChunkEnds THEN cnt ELSE cnt + 1
          /\ pc' = IF ChunkEnds THEN "connect" ELSE "fill"
          /\ UNCHANGED cached_values_local
  /\ UNCHANGED <<ringVars, markVars, send_live_mode, answer, db, stored, clock, life>>

-----------------------------------------------------------------------------
(* db_handler_send_solar_values and the database.                          *)
Unmoved == UNCHANGED <<ringVars, markVars, loopVars, send_live_mode,
                       cached_values_local, clock, life>>

Fail == answer' = "none" /\ pc' = "answer"

(* Every error before the request has left: socket, connect, select, send. *)
ConnectFails ==
  /\ pc = "connect" /\ db = "down"
  /\ Fail
  /\ Unmoved /\ UNCHANGED <<db, stored>>

Send ==
  /\ pc = "connect"
  /\ pc' = "request"
  /\ Unmoved /\ UNCHANGED <<answer, db, stored>>

(* The database writes the chunk; its 204 may be lost or late (3 s). *)
DbStores ==
  /\ pc = "request"
  /\ stored' = stored \cup ToSet(chunk)
  /\ answer' \in IF db = "up" THEN {"204"} ELSE {"204", "none"}
  /\ pc' = "answer"
  /\ Unmoved /\ UNCHANGED db

(* It refuses (4xx, 5xx) or never sees the request. *)
DbRefuses ==
  /\ pc = "request" /\ db = "down"
  /\ answer' \in {"error", "none"}
  /\ pc' = "answer"
  /\ Unmoved /\ UNCHANGED <<db, stored>>

\* mutant: any response counts as success
OkAnyResponse(a) == a # "none"
Ok(a) == a = "204"

-----------------------------------------------------------------------------
(* The slots upload_index .. upload_index + cnt are marked one by one. *)
Marked(s) == \E i \in 0..cnt : s = Wrap(upload_index + i)

(* Leaving at upload_timeout makes the next call upload whatever "force". *)
\* mutant: the next call waits for a full batch again
LeaveLateOnly == Leave /\ UNCHANGED send_live_mode
LeaveLate == Leave /\ send_live_mode' = TRUE

Acknowledged ==
  /\ pc = "answer" /\ Ok(answer)
  /\ uploaded' = [s \in Slots |-> Marked(s) \/ uploaded[s]]
  /\ upload_index' = Wrap(upload_index + cnt + 1)
  /\ cnt' = 0
  /\ chunk' = <<>>
  /\ \/ \* everything is uploaded
        /\ upload_index' = cache_index
        /\ Leave /\ UNCHANGED send_live_mode
     \/ \* the upload has lasted too long: go on in the next call
        /\ upload_index' # cache_index
        /\ LeaveLate
     \/ /\ upload_index' # cache_index
        /\ pc' = "fill" /\ UNCHANGED <<cached_values_local, send_live_mode>>
  /\ UNCHANGED <<ringVars, answer, db, stored, clock, life>>

Rejected ==
  /\ pc = "answer" /\ ~Ok(answer)
  /\ Leave
  /\ UNCHANGED <<ringVars, markVars, loopVars, send_live_mode, answer, db, stored, clock, life>>

-----------------------------------------------------------------------------
(* The process ends at any point (signal, power cut) and is started again: *)
(* Fresh, primed.                                                          *)
Restart ==
  /\ cache_index' = 0
  /\ cache_overflow' = FALSE
  /\ upload_index' = 0
  /\ ts' = [s \in Slots |-> NoTs]
  /\ uploaded' \in [Slots -> BOOLEAN]
  /\ send_live_mode' = FALSE
  /\ cached_values_local' = 0
  /\ info' = [num |-> 0, oldest |-> 0]
  /\ pc' = "idle"
  /\ cnt' = 0
  /\ chunk' = <<>>
  /\ answer' = "none"
  /\ life' = 1 - life
  /\ UNCHANGED <<db, stored, clock>>

DbChanges ==
  /\ db' = IF db = "up" THEN "down" ELSE "up"
  /\ Unmoved /\ UNCHANGED <<pc, answer, stored>>

Logger == (\E force \in Forces : Post(force)) \/ Fill \/ Send \/ Acknowledged \/ Rejected
Network == ConnectFails \/ DbStores \/ DbRefuses

Next == Logger \/ Network \/ DbChanges \/ Restart

Spec == Init /\ [][Next]_vars

(* The poller calls again and again and every call runs to its end: the    *)
(* sockets of db_handler.c time out after 3 s.                             *)
Fairness == WF_vars(Logger) /\ WF_vars(Network)
FairSpec == Spec /\ Fairness

-----------------------------------------------------------------------------
(* Type invariant of all the statics and locals. *)
TypeOK ==
  /\ cache_index \in Slots /\ upload_index \in Slots
  /\ cache_overflow \in BOOLEAN /\ send_live_mode \in BOOLEAN
  /\ ts \in [Slots -> Sample \cup {NoTs}]
  /\ uploaded \in [Slots -> BOOLEAN]
  /\ cached_values_local \in 0..Chunk
  /\ info \in [num : 0..N, oldest : Slots]
  /\ pc \in {"idle", "fill", "connect", "request", "answer"}
  /\ cnt \in 0..(Chunk - 1)
  /\ chunk \in Seq(Sample \cup {NoTs})
  /\ answer \in {"204", "error", "none"}
  /\ db \in {"up", "down"}
  /\ stored \subseteq Sample \cup {NoTs}
  /\ clock \in Sample
  /\ life \in {0, 1}

(* The slots waiting for upload: from upload_index up to cache_index. Equal *)
(* indices mean an empty or a full window; the flag of the slot tells.      *)
Full == Written(upload_index) /\ ~uploaded[upload_index]
Pending ==
  IF upload_index = cache_index THEN (IF Full THEN N ELSE 0)
  ELSE IF upload_index < cache_index THEN cache_index - upload_index
  ELSE cache_index + N - upload_index
InWindow(s) ==
  IF upload_index = cache_index THEN Full
  ELSE IF upload_index < cache_index THEN upload_index <= s /\ s < cache_index
  ELSE upload_index <= s \/ s < cache_index

(* The two indices and the flags tell the same story, across every wrap,   *)
(* overtaking and partial upload: a written slot is unacknowledged exactly *)
(* if it lies in the window (solar_logger.c:171-186, 378-389).             *)
WindowExact == \A s \in Slots : Written(s) => (uploaded[s] <=> ~InWindow(s))

(* The loop never takes its early exit (235-240), which would free         *)
(* pointers nobody has initialised, and it formats only slots that wait:   *)
(* never a slot not written yet, never one that is already acknowledged.   *)
LoopFindsPending ==
  pc = "fill" => ~EarlyExit /\ cnt < Pending /\ Written(Cursor) /\ ~uploaded[Cursor]

(* cached_values_info describes the ring: from its oldest slot on, num     *)
(* slots hold the last num samples in the order they were taken (174-205). *)
RingInOrder ==
  \A i \in 1..info.num :
    ts[Wrap(info.oldest + i - 1)] = (clock + Stamps - (info.num - i) - 1) % Stamps

(* Once the database stays up, everything gets uploaded again and again:   *)
(* the backlog of an outage is worked off though every call adds a sample  *)
(* and may run into its time limit (send_live_mode, 396-400).              *)
BacklogDrains == <>[](db = "up") => []<>(Pending = 0)

(* The logger implements the FIFO of UploadQueue: within one life of the   *)
(* process only stored chunks leave it, in order, and only a full ring     *)
(* loses a sample; the rest is lost in no step but a restart.              *)
Waiting == [i \in 1..Pending |-> ts[Wrap(upload_index + i - 1)]]
Queue == INSTANCE UploadQueue WITH
  Samples <- Sample, Capacity <- N, queue <- Waiting
Refines == Queue!Spec
=============================================================================
