------------------------- MODULE SolarLoggerProofs -------------------------
(***************************************************************************)
(* The ring of the solar logger for every size, every chunk and every      *)
(* number of time stamps: types, exactness of the window, a loop that      *)
(* never takes its early exit, the order of the samples, and the           *)
(* implementation of UploadQueue.                                          *)
(***************************************************************************)
EXTENDS SolarLogger, SequenceTheorems, TLAPS

(* Before the ring has wrapped the reader is not ahead of the writer. *)
NotAhead == ~cache_overflow => upload_index <= cache_index

(* A call starts with a batch that is not full. *)
BatchOpen == pc = "idle" => cached_values_local < Chunk

(* In the loop the chunk, with the slot under the cursor, is pending. *)
ChunkPending == pc # "idle" => cnt < Pending

IInv == TypeOK /\ WindowExact /\ NotAhead /\ BatchOpen /\ ChunkPending

-----------------------------------------------------------------------------
(* The initial states satisfy the invariant. *)
LEMMA InitIInv == Init => IInv
  <1> SUFFICES ASSUME Init PROVE IInv
    OBVIOUS
  <1>1. TypeOK
    <2>1. /\ cache_index \in Slots /\ upload_index \in Slots /\ clock \in Sample
          /\ cached_values_local \in 0..Chunk /\ cnt \in 0..(Chunk - 1)
      BY RingAssumption, ChunkAssumption, StampsAssumption
      DEF Init, Fresh, Slots, Sample
    <2>2. ts \in [Slots -> Sample \cup {NoTs}] /\ uploaded \in [Slots -> BOOLEAN]
      BY DEF Init, Fresh
    <2>3. info \in [num : 0..N, oldest : Slots]
      BY RingAssumption DEF Init, Fresh, Slots
    <2>4. chunk \in Seq(Sample \cup {NoTs})
      BY DEF Init, Fresh
    <2> QED
      BY <2>1, <2>2, <2>3, <2>4 DEF Init, Fresh, TypeOK
  <1>2. WindowExact
    BY RingAssumption DEF Init, Fresh, WindowExact, Slots, Written
  <1>3. NotAhead /\ BatchOpen /\ ChunkPending
    BY ChunkAssumption DEF Init, Fresh, NotAhead, BatchOpen, ChunkPending
  <1> QED
    BY <1>1, <1>2, <1>3 DEF IInv

(* The slots marked after an upload are those of the chunk, which may wrap. *)
LEMMA MarkedSlots ==
  ASSUME TypeOK, cnt < N, NEW s \in Slots
  PROVE  Marked(s) <=> IF upload_index + cnt < N
                       THEN upload_index <= s /\ s <= upload_index + cnt
                       ELSE upload_index <= s \/ s <= upload_index + cnt - N
  <1> DEFINE d == IF upload_index <= s THEN s - upload_index ELSE s + N - upload_index
  <1>1. /\ upload_index \in Slots /\ cnt \in Nat
        /\ N \in Nat /\ N > 1 /\ d \in Nat
    BY RingAssumption, ChunkAssumption DEF TypeOK, Slots
  <1>2. s = Wrap(upload_index + d)
    BY <1>1 DEF Slots, Wrap
  <1>3. \A i \in 0..cnt : s = Wrap(upload_index + i) => i = d
    BY <1>1 DEF Slots, Wrap
  <1>4. Marked(s) <=> d \in 0..cnt
    BY <1>2, <1>3 DEF Marked
  <1>5. d <= cnt <=> IF upload_index + cnt < N
                     THEN upload_index <= s /\ s <= upload_index + cnt
                     ELSE upload_index <= s \/ s <= upload_index + cnt - N
    BY <1>1 DEF Slots
  <1> QED
    BY <1>1, <1>4, <1>5

(* A slot at a distance below Pending from upload_index is in the window. *)
LEMMA CursorInWindow ==
  ASSUME TypeOK, NotAhead, cnt < Pending
  PROVE  /\ Cursor \in Slots
         /\ InWindow(Cursor)
         /\ Written(Cursor)
         /\ cnt < N /\ Pending <= N
  BY RingAssumption, ChunkAssumption
  DEF TypeOK, NotAhead, Pending, Cursor, InWindow, Written, Full, Slots, Wrap

(* Where the indices differ something is pending. *)
LEMMA ApartPending ==
  ASSUME cache_index' \in Slots, upload_index' \in Slots, upload_index' # cache_index'
  PROVE  0 < Pending'
  <1>1. PICK c \in Slots, u \in Slots :
               c = cache_index' /\ u = upload_index' /\ c # u
    OBVIOUS
  <1>2. Pending' = IF u < c THEN c - u ELSE c + N - u
    BY <1>1 DEF Pending
  <1>3. 0 < IF u < c THEN c - u ELSE c + N - u
    <2>1. c \in 0..(N - 1) /\ u \in 0..(N - 1) /\ c # u
      BY <1>1 DEF Slots
    <2> QED
      BY <2>1, RingAssumption
  <1> QED
    BY <1>2, <1>3

(* Writing a sample keeps the window exact, also when it overtakes the     *)
(* reader, and leaves something to upload.                                 *)
LEMMA RecordWindow ==
  ASSUME IInv, Record(cache_index, clock)
  PROVE  /\ WindowExact' /\ NotAhead'
         /\ 0 < Pending'
         /\ upload_index' = IF upload_index = cache_index /\ Full
                            THEN Wrap(cache_index + 1) ELSE upload_index
         /\ cache_index' \in Slots /\ upload_index' \in Slots
         /\ cache_overflow' \in BOOLEAN
         /\ ts' \in [Slots -> Sample \cup {NoTs}]
         /\ uploaded' \in [Slots -> BOOLEAN]
         /\ info' \in [num : 0..N, oldest : Slots]
  <1> DEFINE next == Wrap(cache_index + 1)
             flags == [uploaded EXCEPT ![cache_index] = FALSE]
             full == cache_overflow \/ next = 0
  <1>1. /\ cache_index' = next /\ uploaded' = flags /\ cache_overflow' = full
        /\ ts' = [ts EXCEPT ![cache_index] = clock]
        /\ upload_index' = IF full /\ Overtaken(next, flags) THEN next ELSE upload_index
        /\ info' = Info(next, full)
    BY DEF Record
  <1>2. /\ cache_index \in Slots /\ upload_index \in Slots /\ next \in Slots
        /\ uploaded \in [Slots -> BOOLEAN] /\ flags \in [Slots -> BOOLEAN]
        /\ cache_overflow \in BOOLEAN /\ full \in BOOLEAN
    BY RingAssumption DEF IInv, TypeOK, Slots, Wrap
  <1>3. /\ cache_index' \in Slots /\ upload_index' \in Slots
        /\ cache_overflow' \in BOOLEAN
        /\ ts' \in [Slots -> Sample \cup {NoTs}]
        /\ uploaded' \in [Slots -> BOOLEAN]
        /\ info' \in [num : 0..N, oldest : Slots]
    BY <1>1, <1>2, RingAssumption DEF IInv, TypeOK, Info, Slots
  <1>4. upload_index' = IF upload_index = cache_index /\ Full THEN next ELSE upload_index
    <2>1. flags[next] <=> uploaded[next]
      BY <1>2, RingAssumption DEF Slots, Wrap
    <2>2. CASE upload_index = cache_index /\ Full
      <3>1. ~uploaded[next] /\ full
        BY <1>2, <2>2, RingAssumption
        DEF IInv, WindowExact, InWindow, Written, Full, Slots, Wrap
      <3> QED
        BY <1>1, <1>2, <2>1, <2>2, <3>1, RingAssumption DEF Overtaken, Slots, Wrap
    <2>3. CASE upload_index = cache_index /\ ~Full
      <3>1. full => uploaded[next]
        BY <1>2, <2>3, RingAssumption
        DEF IInv, WindowExact, InWindow, Written, Slots, Wrap
      <3> QED
        BY <1>1, <2>1, <2>3, <3>1 DEF Overtaken
    <2>4. CASE upload_index # cache_index
      <3>1. full => uploaded[next] \/ next <= upload_index
        BY <1>2, <2>4, RingAssumption
        DEF IInv, WindowExact, NotAhead, InWindow, Written, Slots, Wrap
      <3>2. full /\ next = 0 /\ upload_index = N - 1 => FALSE \/ uploaded[next]
        BY <1>2, <2>4, RingAssumption
        DEF IInv, WindowExact, NotAhead, InWindow, Written, Slots, Wrap
      <3> QED
        BY <1>1, <1>2, <2>1, <2>4, <3>1, <3>2 DEF Overtaken, Slots
    <2> QED
      BY <2>2, <2>3, <2>4
  <1>5. NotAhead'
    <2>1. ASSUME ~full PROVE upload_index <= next
      BY <1>2, <2>1, RingAssumption DEF IInv, NotAhead, Slots, Wrap
    <2>2. ~full => upload_index' = upload_index
      BY <1>2, <1>4 DEF Full, Written, Slots
    <2> QED
      BY <1>1, <2>1, <2>2 DEF NotAhead
  <1>6. WindowExact'
    <2> SUFFICES ASSUME NEW s \in Slots, Written(s)'
                 PROVE  uploaded'[s] <=> ~InWindow(s)'
      BY DEF WindowExact
    <2>1. Written(s)' <=> full \/ s < next
      BY <1>1 DEF Written
    <2>2. uploaded'[s] <=> s # cache_index /\ uploaded[s]
      BY <1>1, <1>2
    <2>3. s # cache_index => Written(s)
      BY <1>1, <1>2, <2>1, RingAssumption DEF Written, Slots, Wrap
    <2>4. CASE upload_index = cache_index /\ Full
      BY <1>1, <1>2, <1>4, <2>1, <2>2, <2>3, <2>4, RingAssumption
      DEF IInv, WindowExact, InWindow, Written, Full, Slots, Wrap
    <2>5. CASE upload_index = cache_index /\ ~Full
      BY <1>1, <1>2, <1>4, <2>1, <2>2, <2>3, <2>5, RingAssumption
      DEF IInv, WindowExact, InWindow, Written, Full, Slots, Wrap
    <2>6. CASE upload_index < cache_index
      BY <1>1, <1>2, <1>4, <2>1, <2>2, <2>3, <2>6, RingAssumption
      DEF IInv, WindowExact, InWindow, Written, Full, Slots, Wrap
    <2>7. CASE upload_index > cache_index
      BY <1>1, <1>2, <1>4, <2>1, <2>2, <2>3, <2>7, RingAssumption
      DEF IInv, WindowExact, NotAhead, InWindow, Written, Full, Slots, Wrap
    <2> QED
      BY <1>2, <2>4, <2>5, <2>6, <2>7 DEF Slots
  <1>7. 0 < Pending'
    <2>1. PICK s \in Slots : s = cache_index
      BY <1>2
    <2>2. ~uploaded'[s]
      BY <1>1, <1>2, <2>1
    <2>3. s < next \/ next = 0
      BY <1>2, <2>1, RingAssumption DEF Slots, Wrap
    <2>4. Written(s)'
      BY <1>1, <2>3 DEF Written
    <2>5. InWindow(s)'
      BY <1>6, <2>2, <2>4 DEF WindowExact
    <2>6. CASE upload_index' = cache_index'
      BY <2>5, <2>6, RingAssumption DEF InWindow, Pending
    <2>7. CASE upload_index' # cache_index'
      BY <1>3, <2>7, ApartPending
    <2> QED
      BY <2>6, <2>7
  <1> QED
    BY <1>3, <1>4, <1>5, <1>6, <1>7

-----------------------------------------------------------------------------
(* Steps that leave ring and window alone keep what is said of them. *)
LEMMA SameWindow ==
  ASSUME IInv, UNCHANGED <<ringVars, markVars>>
  PROVE  WindowExact' /\ NotAhead' /\ Pending' = Pending
  BY DEF IInv, WindowExact, NotAhead, Pending, InWindow, Written, Full, ringVars, markVars

(* A call takes a sample and enters the loop with something to upload. *)
LEMMA PostInv ==
  ASSUME IInv, NEW force \in Forces, Post(force)
  PROVE  IInv'
  <1> DEFINE local == cached_values_local + 1
             due == force \/ send_live_mode \/ local >= Chunk
  <1>1. /\ Record(cache_index, clock) /\ pc = "idle"
        /\ clock' = (IF clock = Stamps - 1 THEN 0 ELSE clock + 1)
        /\ stored' = stored \ {clock}
        /\ cached_values_local' = local
        /\ pc' = (IF due THEN "fill" ELSE "idle")
        /\ send_live_mode' = (IF due THEN FALSE ELSE send_live_mode)
        /\ cnt' = 0 /\ chunk' = <<>> /\ answer' = answer /\ db' = db /\ life' = life
    BY DEF Post
  <1>2. cached_values_local \in 0..(Chunk - 1)
    BY <1>1, ChunkAssumption DEF IInv, TypeOK, BatchOpen
  <1>3. TypeOK'
    <2>1. clock' \in Sample
      BY <1>1, StampsAssumption DEF IInv, TypeOK, Sample
    <2>2. cached_values_local' \in 0..Chunk /\ cnt' \in 0..(Chunk - 1)
      BY <1>1, <1>2, ChunkAssumption
    <2>3. chunk' \in Seq(Sample \cup {NoTs})
      BY <1>1
    <2>4. /\ pc' \in {"idle", "fill", "connect", "request", "answer"}
          /\ send_live_mode' \in BOOLEAN
          /\ stored' \subseteq Sample \cup {NoTs}
          /\ answer' \in {"204", "error", "none"} /\ db' \in {"up", "down"} /\ life' \in {0, 1}
      BY <1>1 DEF IInv, TypeOK
    <2> QED
      BY <1>1, <2>1, <2>2, <2>3, <2>4, RecordWindow DEF TypeOK
  <1>4. WindowExact' /\ NotAhead' /\ 0 < Pending'
    BY <1>1, RecordWindow
  <1>5. BatchOpen'
    <2>1. ~due => local < Chunk
      BY <1>2, ChunkAssumption
    <2> QED
      BY <1>1, <2>1 DEF BatchOpen
  <1>6. ChunkPending'
    BY <1>1, <1>4 DEF ChunkPending
  <1> QED
    BY <1>3, <1>4, <1>5, <1>6 DEF IInv

(* A turn of the loop formats a pending slot and stops at the newest. *)
LEMMA FillInv ==
  ASSUME IInv, Fill
  PROVE  IInv'
  <1>1. /\ pc = "fill" /\ cnt < Pending
        /\ UNCHANGED <<ringVars, markVars, send_live_mode, answer, db, stored, clock, life>>
    BY DEF Fill, IInv, ChunkPending
  <1>2. WindowExact' /\ NotAhead' /\ Pending' = Pending
    BY <1>1, SameWindow
  <1>3. /\ Cursor \in Slots /\ Written(Cursor) /\ InWindow(Cursor)
        /\ cnt < N /\ Pending <= N
    BY <1>1, CursorInWindow DEF IInv
  <1>4. ~EarlyExit
    BY <1>3 DEF EarlyExit, IInv, WindowExact
  <1>5. /\ chunk' = Append(chunk, ts[Cursor])
        /\ cnt' = (IF ChunkEnds THEN cnt ELSE cnt + 1)
        /\ pc' = (IF ChunkEnds THEN "connect" ELSE "fill")
        /\ cached_values_local' = cached_values_local
    BY <1>4 DEF Fill
  <1>6. ~ChunkEnds => cnt + 1 < Pending /\ cnt + 1 \in 0..(Chunk - 1)
    BY <1>1, RingAssumption, ChunkAssumption DEF IInv, TypeOK, NotAhead, ChunkEnds,
           Cursor, Before, Wrap, Pending, Full, Written, Slots
  <1>7. TypeOK'
    <2>1. chunk' \in Seq(Sample \cup {NoTs})
      BY <1>3, <1>5 DEF IInv, TypeOK
    <2>2. cnt' \in 0..(Chunk - 1)
      BY <1>5, <1>6 DEF IInv, TypeOK
    <2>3. pc' \in {"idle", "fill", "connect", "request", "answer"}
      BY <1>5
    <2> QED
      BY <1>1, <1>5, <2>1, <2>2, <2>3 DEF IInv, TypeOK, ringVars, markVars
  <1>8. BatchOpen' /\ ChunkPending'
    BY <1>1, <1>2, <1>5, <1>6 DEF BatchOpen, ChunkPending
  <1> QED
    BY <1>2, <1>7, <1>8 DEF IInv

(* Steps of the network and the environment only move pc, the answer, the  *)
(* database and what it holds.                                             *)
LEMMA NetworkInv ==
  ASSUME IInv, Unmoved,
         pc' = pc \/ (pc # "idle" /\ pc' \in {"request", "answer"}),
         answer' \in {"204", "error", "none"}, db' \in {"up", "down"},
         stored' = stored \/ stored' = stored \cup ToSet(chunk)
  PROVE  IInv'
  <1>1. UNCHANGED <<ringVars, markVars>> /\ cnt' = cnt /\ chunk' = chunk
        /\ cached_values_local' = cached_values_local
        /\ send_live_mode' = send_live_mode /\ clock' = clock /\ life' = life
    BY DEF Unmoved, loopVars
  <1>2. WindowExact' /\ NotAhead' /\ Pending' = Pending
    BY <1>1, SameWindow
  <1>3. BatchOpen' /\ ChunkPending'
    BY <1>1, <1>2 DEF IInv, BatchOpen, ChunkPending
  <1>4. stored' \subseteq Sample \cup {NoTs}
    <2>1. ToSet(chunk) \subseteq Sample \cup {NoTs}
      BY DEF ToSet, IInv, TypeOK
    <2> QED
      BY <2>1 DEF IInv, TypeOK
  <1>5. TypeOK'
    BY <1>1, <1>4 DEF IInv, TypeOK, ringVars, markVars
  <1> QED
    BY <1>2, <1>3, <1>5 DEF IInv

(* An acknowledged chunk leaves the window, and nothing else does. *)
LEMMA AcknowledgedInv ==
  ASSUME IInv, Acknowledged
  PROVE  IInv'
  <1> DEFINE next == Wrap(upload_index + cnt + 1)
             Left(s) == IF next = cache_index THEN FALSE
                        ELSE IF next < cache_index THEN next <= s /\ s < cache_index
                        ELSE next <= s \/ s < cache_index
  <1>1. /\ pc = "answer"
        /\ uploaded' = [s \in Slots |-> Marked(s) \/ uploaded[s]]
        /\ upload_index' = next
        /\ cnt' = 0 /\ chunk' = <<>>
        /\ UNCHANGED <<ringVars, answer, db, stored, clock, life>>
    BY DEF Acknowledged
  <1>2. \/ /\ pc' = "idle" /\ cached_values_local' = 0
           /\ send_live_mode' \in BOOLEAN
        \/ /\ pc' = "fill" /\ upload_index' # cache_index
           /\ cached_values_local' = cached_values_local
           /\ send_live_mode' = send_live_mode
    BY DEF Acknowledged, Leave, LeaveLate, IInv, TypeOK
  <1>3. cnt < Pending /\ Pending <= N /\ cnt < N
    BY <1>1, CursorInWindow DEF IInv, ChunkPending
  <1>4. cache_index \in Slots /\ upload_index \in Slots /\ next \in Slots /\ cnt \in Nat
    BY <1>3, RingAssumption, ChunkAssumption DEF IInv, TypeOK, Slots, Wrap
  <1>5. uploaded' \in [Slots -> BOOLEAN]
    BY <1>1 DEF IInv, TypeOK, Marked
  <1>6. \A s \in Slots : Written(s) => (uploaded'[s] <=> ~Left(s))
    <2> SUFFICES ASSUME NEW s \in Slots, Written(s)
                 PROVE  uploaded'[s] <=> ~Left(s)
      OBVIOUS
    <2>1. uploaded'[s] <=> Marked(s) \/ ~InWindow(s)
      BY <1>1 DEF IInv, WindowExact
    <2>2. Marked(s) <=> IF upload_index + cnt < N
                        THEN upload_index <= s /\ s <= upload_index + cnt
                        ELSE upload_index <= s \/ s <= upload_index + cnt - N
      BY <1>3, MarkedSlots DEF IInv
    <2>3. CASE upload_index = cache_index
      BY <1>3, <1>4, <2>1, <2>2, <2>3, RingAssumption DEF Pending, InWindow, Slots, Wrap
    <2>4. CASE upload_index < cache_index
      BY <1>3, <1>4, <2>1, <2>2, <2>4, RingAssumption DEF Pending, InWindow, Slots, Wrap
    <2>5. CASE upload_index > cache_index
      BY <1>3, <1>4, <2>1, <2>2, <2>5, RingAssumption DEF Pending, InWindow, Slots, Wrap
    <2> QED
      BY <1>4, <2>3, <2>4, <2>5 DEF Slots
  <1>7. NotAhead'
    <2>1. ~cache_overflow => next <= cache_index
      BY <1>3, <1>4, RingAssumption
      DEF IInv, NotAhead, Pending, Full, Written, Slots, Wrap
    <2> QED
      BY <1>1, <2>1 DEF NotAhead, ringVars
  <1>8. WindowExact'
    <2>1. \A s \in Slots : Written(s)' <=> Written(s)
      BY <1>1 DEF Written, ringVars
    <2>2. \A s \in Slots : InWindow(s)' <=> Left(s)
      <3>1. CASE next = cache_index
        <4>1. ~Full'
          BY <1>1, <1>4, <1>6, <3>1 DEF Full, Written, ringVars
        <4> QED
          BY <1>1, <3>1, <4>1 DEF InWindow, ringVars
      <3>2. CASE next # cache_index
        BY <1>1, <3>2 DEF InWindow, ringVars
      <3> QED
        BY <3>1, <3>2
    <2> QED
      BY <1>6, <2>1, <2>2 DEF WindowExact
  <1>9. TypeOK'
    <2>1. chunk' \in Seq(Sample \cup {NoTs}) /\ cnt' \in 0..(Chunk - 1)
      BY <1>1, ChunkAssumption
    <2>2. /\ cached_values_local' \in 0..Chunk /\ send_live_mode' \in BOOLEAN
          /\ pc' \in {"idle", "fill", "connect", "request", "answer"}
      BY <1>2, ChunkAssumption DEF IInv, TypeOK
    <2> QED
      BY <1>1, <1>4, <1>5, <2>1, <2>2 DEF IInv, TypeOK, ringVars
  <1>10. BatchOpen'
    BY <1>2, ChunkAssumption DEF BatchOpen
  <1>11. ChunkPending'
    <2>1. CASE pc' = "fill"
      <3>1. 0 < Pending'
        BY <1>1, <1>2, <1>4, <2>1, ApartPending DEF ringVars
      <3> QED
        BY <1>1, <3>1 DEF ChunkPending
    <2> QED
      BY <1>2, <2>1 DEF ChunkPending
  <1> QED
    BY <1>7, <1>8, <1>9, <1>10, <1>11 DEF IInv

(* After a failed upload the call ends; the window stays as it is. *)
LEMMA RejectedInv ==
  ASSUME IInv, Rejected
  PROVE  IInv'
  <1>1. /\ pc' = "idle" /\ cached_values_local' = 0
        /\ UNCHANGED <<ringVars, markVars, loopVars, send_live_mode, answer, db, stored, clock, life>>
    BY DEF Rejected, Leave
  <1>2. WindowExact' /\ NotAhead'
    BY <1>1, SameWindow
  <1>3. TypeOK'
    <2>1. cached_values_local' \in 0..Chunk
      BY <1>1, ChunkAssumption
    <2> QED
      BY <1>1, <2>1 DEF IInv, TypeOK, ringVars, markVars, loopVars
  <1>4. BatchOpen' /\ ChunkPending'
    BY <1>1, ChunkAssumption DEF BatchOpen, ChunkPending
  <1> QED
    BY <1>2, <1>3, <1>4 DEF IInv

(* A restart leads back to the state of a fresh process. *)
LEMMA RestartInv ==
  ASSUME IInv, Restart
  PROVE  IInv'
  <1>1. TypeOK'
    <2>1. /\ cache_index' \in Slots /\ upload_index' \in Slots
          /\ cached_values_local' \in 0..Chunk /\ cnt' \in 0..(Chunk - 1)
      BY RingAssumption, ChunkAssumption DEF Restart, Slots
    <2>2. ts' \in [Slots -> Sample \cup {NoTs}] /\ uploaded' \in [Slots -> BOOLEAN]
      BY DEF Restart
    <2>3. info' \in [num : 0..N, oldest : Slots]
      BY RingAssumption DEF Restart, Slots
    <2>4. chunk' \in Seq(Sample \cup {NoTs})
      BY DEF Restart
    <2>5. life' \in {0, 1}
      BY DEF Restart, IInv, TypeOK
    <2> QED
      BY <2>1, <2>2, <2>3, <2>4, <2>5 DEF Restart, IInv, TypeOK
  <1>2. WindowExact'
    <2>1. \A s \in Slots : ~Written(s)'
      <3>1. \A s \in Slots : ~(s < 0)
        BY RingAssumption DEF Slots
      <3> QED
        BY <3>1 DEF Restart, Written
    <2> QED
      BY <2>1 DEF WindowExact
  <1>3. NotAhead' /\ BatchOpen' /\ ChunkPending'
    BY ChunkAssumption DEF Restart, NotAhead, BatchOpen, ChunkPending
  <1> QED
    BY <1>1, <1>2, <1>3 DEF IInv

-----------------------------------------------------------------------------
(* Every step preserves the invariant. *)
LEMMA NextIInv ==
  ASSUME IInv, [Next]_vars
  PROVE  IInv'
  <1>1. CASE \E force \in Forces : Post(force)
    BY <1>1, PostInv
  <1>2. CASE Fill
    BY <1>2, FillInv
  <1>3. CASE Send
    BY <1>3, NetworkInv DEF Send, IInv, TypeOK
  <1>4. CASE Acknowledged
    BY <1>4, AcknowledgedInv
  <1>5. CASE Rejected
    BY <1>5, RejectedInv
  <1>6. CASE ConnectFails
    BY <1>6, NetworkInv DEF ConnectFails, Fail, IInv, TypeOK
  <1>7. CASE DbStores
    BY <1>7, NetworkInv DEF DbStores, IInv, TypeOK
  <1>8. CASE DbRefuses
    BY <1>8, NetworkInv DEF DbRefuses, IInv, TypeOK
  <1>9. CASE DbChanges
    BY <1>9, NetworkInv DEF DbChanges, IInv, TypeOK
  <1>10. CASE Restart
    BY <1>10, RestartInv
  <1>11. CASE UNCHANGED vars
    BY <1>11, NetworkInv DEF vars, Unmoved, IInv, TypeOK
  <1> QED
    BY <1>1, <1>2, <1>3, <1>4, <1>5, <1>6, <1>7, <1>8, <1>9, <1>10, <1>11
    DEF Next, Logger, Network

(* The invariant holds throughout. *)
LEMMA AlwaysIInv == Spec => []IInv
  <1>1. Init => IInv
    BY InitIInv
  <1>2. IInv /\ [Next]_vars => IInv'
    BY NextIInv
  <1> QED
    BY <1>1, <1>2, PTL DEF Spec

(* All statics and locals of solar_logger.c keep their ranges: the indices *)
(* stay in the ring, the batch counter never passes the chunk size.        *)
THEOREM TypeCorrect == Spec => []TypeOK
  <1>1. IInv => TypeOK
    BY DEF IInv
  <1> QED
    BY <1>1, AlwaysIInv, PTL

(* For every size of ring and chunk: whatever mixture of wraps, overtaken  *)
(* uploads, partial uploads, failures and restarts, a written slot is      *)
(* flagged as not uploaded exactly if it lies between upload_index and     *)
(* cache_index (solar_logger.c:171-183, 378-389).                          *)
THEOREM WindowIsExact == Spec => []WindowExact
  <1>1. IInv => WindowExact
    BY DEF IInv
  <1> QED
    BY <1>1, AlwaysIInv, PTL

(* The early exit of the loop (solar_logger.c:235-240), which frees        *)
(* pointers that may be uninitialised, is dead code, and the loop formats  *)
(* only written slots that still wait.                                     *)
THEOREM LoopAlwaysFindsPending == Spec => []LoopFindsPending
  <1>1. IInv => LoopFindsPending
    <2> SUFFICES ASSUME IInv, pc = "fill"
                 PROVE  ~EarlyExit /\ cnt < Pending /\ Written(Cursor) /\ ~uploaded[Cursor]
      BY DEF LoopFindsPending
    <2>1. cnt < Pending
      BY DEF IInv, ChunkPending
    <2>2. Cursor \in Slots /\ InWindow(Cursor) /\ Written(Cursor)
      BY <2>1, CursorInWindow DEF IInv
    <2>3. ~uploaded[Cursor]
      BY <2>2 DEF IInv, WindowExact
    <2> QED
      BY <2>1, <2>2, <2>3 DEF EarlyExit
  <1> QED
    BY <1>1, AlwaysIInv, PTL

-----------------------------------------------------------------------------
(* The order of the samples.  The k-th last time stamp, and how many       *)
(* samples ago slot s was written.                                         *)
Ago(k) == IF k <= clock THEN clock - k ELSE clock + Stamps - k
Age(s) == IF s < cache_index THEN cache_index - s ELSE cache_index + N - s
Aged == \A s \in Slots : Written(s) => ts[s] = Ago(Age(s))

InfoTrue == info = Info(cache_index, cache_overflow)

(* What is formatted is what waits, from the front on; and what has been   *)
(* acknowledged is stored.                                                 *)
ChunkIs ==
  /\ pc = "fill" => chunk = [i \in 1..cnt |-> ts[Wrap(upload_index + i - 1)]]
  /\ pc \in {"connect", "request", "answer"} =>
       chunk = [i \in 1..(cnt + 1) |-> ts[Wrap(upload_index + i - 1)]]
AckStored == pc = "answer" /\ Ok(answer) => ToSet(chunk) \subseteq stored

OrderInv == IInv /\ Aged /\ InfoTrue /\ ChunkIs /\ AckStored

(* Ages run through the ring. *)
LEMMA AgesAre ==
  ASSUME TypeOK, NEW s \in Slots
  PROVE  Age(s) \in 1..N /\ (s # cache_index => Age(s) \in 1..(N - 1))
  <1>1. s \in 0..(N - 1) /\ cache_index \in 0..(N - 1) /\ N \in Nat
    BY RingAssumption DEF TypeOK, Slots
  <1> QED
    BY <1>1 DEF Age

(* A new sample is the last one, and all others are one step older. *)
LEMMA RecordAged ==
  ASSUME IInv, Aged, Record(cache_index, clock),
         clock' = IF clock = Stamps - 1 THEN 0 ELSE clock + 1
  PROVE  Aged' /\ InfoTrue'
  <1> DEFINE next == Wrap(cache_index + 1)
  <1>1. /\ cache_index' = next /\ ts' = [ts EXCEPT ![cache_index] = clock]
        /\ cache_overflow' = (cache_overflow \/ next = 0)
        /\ info' = Info(next, cache_overflow \/ next = 0)
    BY DEF Record
  <1>2. /\ cache_index \in 0..(N - 1) /\ N \in Nat /\ N > 1 /\ Stamps \in Nat /\ Stamps > N
        /\ clock \in 0..(Stamps - 1) /\ ts \in [Slots -> Sample \cup {NoTs}] /\ cache_index \in Slots
    BY RingAssumption, StampsAssumption DEF IInv, TypeOK, Slots, Sample
  <1>3. next = IF cache_index = N - 1 THEN 0 ELSE cache_index + 1
    BY <1>2 DEF Wrap
  <1> HIDE DEF next
  <1>4. InfoTrue'
    BY <1>1 DEF InfoTrue, Info
  <1>5. ASSUME NEW s \in Slots, Written(s)' PROVE ts'[s] = Ago(Age(s))'
    <2>1. s \in 0..(N - 1)
      BY DEF Slots
    <2>2. CASE s = cache_index
      <3>1. Age(s)' = 1
        BY <1>1, <1>2, <1>3, <2>2 DEF Age
      <3>2. Ago(1)' = clock
        BY <1>2 DEF Ago
      <3> QED
        BY <1>1, <1>2, <2>2, <3>1, <3>2 DEF Ago
    <2>3. CASE s # cache_index
      <3>0. ts'[s] = ts[s]
        BY <1>1, <1>2, <2>1, <2>3
      <3>9. cache_overflow \/ next = 0 \/ s < next
        BY <1>1, <1>5 DEF Written
      <3>1. Written(s)
        BY <1>2, <1>3, <2>1, <2>3, <3>9 DEF Written
      <3>2. Age(s)' = Age(s) + 1 /\ Age(s) \in 1..(N - 1)
        BY <1>1, <1>2, <1>3, <2>1, <2>3 DEF Age
      <3>3. \A k \in 1..(N - 1) :
              (IF k + 1 <= clock' THEN clock' - (k + 1) ELSE clock' + Stamps - (k + 1)) = Ago(k)
        BY <1>2 DEF Ago
      <3>4. Ago(Age(s))' = Ago(Age(s))
        BY <3>2, <3>3 DEF Ago
      <3> QED
        BY <3>0, <3>1, <3>4 DEF Aged
    <2> QED
      BY <2>2, <2>3
  <1> QED
    BY <1>4, <1>5 DEF Aged

(* Steps that leave the ring and the clock alone keep its order. *)
LEMMA RingKept ==
  ASSUME Aged, InfoTrue, UNCHANGED <<ringVars, clock>>
  PROVE  Aged' /\ InfoTrue'
  BY DEF Aged, InfoTrue, Written, Age, Ago, ringVars

(* An empty ring is in order. *)
LEMMA InitOrder == Init => OrderInv
  <1> SUFFICES ASSUME Init PROVE OrderInv
    OBVIOUS
  <1>1. IInv
    BY InitIInv
  <1>2. \A s \in Slots : ~Written(s)
    <2>1. \A s \in Slots : ~(s < 0)
      BY RingAssumption DEF Slots
    <2> QED
      BY <2>1 DEF Init, Fresh, Written
  <1>3. Aged /\ InfoTrue
    BY <1>2 DEF Aged, InfoTrue, Info, Init, Fresh
  <1>4. ChunkIs /\ AckStored
    BY DEF ChunkIs, AckStored, Init, Fresh
  <1> QED
    BY <1>1, <1>3, <1>4 DEF OrderInv

(* Every step keeps the order, by what it does to ring and chunk. *)
LEMMA NextOrder ==
  ASSUME OrderInv, [Next]_vars PROVE OrderInv'
  <1>1. IInv'
    BY NextIInv DEF OrderInv
  <1> USE DEF OrderInv
  <1>2. CASE \E force \in Forces : Post(force)
    <2>1. PICK force \in Forces : Post(force)
      BY <1>2
    <2>2. /\ Record(cache_index, clock) /\ clock' = IF clock = Stamps - 1 THEN 0 ELSE clock + 1
          /\ pc' \in {"fill", "idle"} /\ cnt' = 0 /\ chunk' = <<>>
      BY <2>1 DEF Post
    <2>3. Aged' /\ InfoTrue'
      BY <2>2, RecordAged
    <2>4. ChunkIs' /\ AckStored'
      BY <2>2 DEF ChunkIs, AckStored
    <2> QED
      BY <1>1, <2>3, <2>4
  <1>3. CASE Fill
    <2>1. pc = "fill" /\ UNCHANGED <<ringVars, markVars, answer, stored, clock>>
      BY <1>3 DEF Fill
    <2>2. Aged' /\ InfoTrue'
      BY <2>1, RingKept
    <2>3. CASE EarlyExit
      <3>1. pc' = "idle"
        BY <1>3, <2>3 DEF Fill, Leave
      <3> QED
        BY <1>1, <2>2, <3>1 DEF ChunkIs, AckStored
    <2>4. CASE ~EarlyExit
      <3>1. /\ chunk' = Append(chunk, ts[Cursor])
            /\ \/ ChunkEnds /\ cnt' = cnt /\ pc' = "connect"
               \/ ~ChunkEnds /\ cnt' = cnt + 1 /\ pc' = "fill"
        BY <1>3, <2>4 DEF Fill
      <3>2. chunk = [i \in 1..cnt |-> ts[Wrap(upload_index + i - 1)]] /\ cnt \in Nat
        BY <2>1, ChunkAssumption DEF ChunkIs, IInv, TypeOK
      <3>3. chunk' = [i \in 1..(cnt + 1) |-> ts[Wrap(upload_index + i - 1)]]
        <4>1. Len(chunk) = cnt
          BY <3>2
        <4>2. chunk' = [i \in 1..(cnt + 1) |-> IF i = cnt + 1 THEN ts[Cursor] ELSE chunk[i]]
          BY <3>1, <3>2, <4>1 DEF IInv, TypeOK
        <4>3. upload_index + (cnt + 1) - 1 = upload_index + cnt
          BY <3>2 DEF IInv, TypeOK, Slots
        <4> QED
          BY <3>2, <4>2, <4>3 DEF Cursor
      <3>4. ChunkIs' /\ AckStored'
        BY <2>1, <3>1, <3>3 DEF ChunkIs, AckStored, ringVars, markVars
      <3> QED
        BY <1>1, <2>2, <3>4
    <2> QED
      BY <2>3, <2>4
  <1>4. ASSUME Unmoved, AckStored',
               \/ pc' = pc
               \/ pc \in {"connect", "request", "answer"} /\ pc' \in {"connect", "request", "answer"}
        PROVE  OrderInv'
    <2>1. UNCHANGED <<ringVars, markVars, loopVars, clock>>
      BY <1>4 DEF Unmoved
    <2>2. Aged' /\ InfoTrue'
      BY <2>1, RingKept
    <2>3. ChunkIs'
      BY <1>4, <2>1 DEF ChunkIs, ringVars, markVars, loopVars
    <2> QED
      BY <1>1, <1>4, <2>2, <2>3
  <1>5. CASE Send
    BY <1>4, <1>5 DEF Send, AckStored
  <1>6. CASE ConnectFails
    BY <1>4, <1>6 DEF ConnectFails, Fail, AckStored, Ok
  <1>7. CASE DbStores
    <2>1. AckStored'
      BY <1>7 DEF DbStores, AckStored, Unmoved, loopVars
    <2> QED
      BY <1>4, <1>7, <2>1 DEF DbStores
  <1>8. CASE DbRefuses
    BY <1>4, <1>8 DEF DbRefuses, AckStored, Ok
  <1>9. CASE DbChanges
    <2>1. AckStored'
      BY <1>9 DEF DbChanges, AckStored, Unmoved, loopVars
    <2> QED
      BY <1>4, <1>9, <2>1 DEF DbChanges
  <1>10. CASE UNCHANGED vars
    <2>1. AckStored' /\ Unmoved /\ pc' = pc
      BY <1>10 DEF vars, AckStored, Unmoved, loopVars
    <2> QED
      BY <1>4, <2>1
  <1>11. CASE Acknowledged
    <2>1. /\ cnt' = 0 /\ chunk' = <<>> /\ pc' \in {"idle", "fill"} /\ UNCHANGED <<ringVars, clock>>
      BY <1>11 DEF Acknowledged, Leave, LeaveLate
    <2>2. Aged' /\ InfoTrue'
      BY <2>1, RingKept
    <2>3. ChunkIs' /\ AckStored'
      BY <2>1 DEF ChunkIs, AckStored
    <2> QED
      BY <1>1, <2>2, <2>3
  <1>12. CASE Rejected
    <2>1. pc' = "idle" /\ UNCHANGED <<ringVars, clock>>
      BY <1>12 DEF Rejected, Leave
    <2> QED
      BY <1>1, <2>1, RingKept DEF ChunkIs, AckStored
  <1>13. CASE Restart
    <2>1. \A s \in Slots : ~Written(s)'
      <3>1. \A s \in Slots : ~(s < 0)
        BY RingAssumption DEF Slots
      <3> QED
        BY <1>13, <3>1 DEF Restart, Written
    <2>2. Aged' /\ InfoTrue' /\ ChunkIs' /\ AckStored'
      BY <1>13, <2>1 DEF Restart, Aged, InfoTrue, Info, ChunkIs, AckStored
    <2> QED
      BY <1>1, <2>2
  <1> QED
    BY <1>2, <1>3, <1>5, <1>6, <1>7, <1>8, <1>9, <1>10, <1>11, <1>12, <1>13
       DEF Next, Logger, Network

(* The ring is in order in every reachable state. *)
LEMMA AlwaysOrder == Spec => []OrderInv
  BY InitOrder, NextOrder, PTL DEF Spec

(* The remainder of a sum of less than two rounds. *)
LEMMA Turned ==
  ASSUME NEW n \in Nat, NEW c \in 0..(n - 1), NEW k \in 1..(n - 1)
  PROVE  (c + n - k) % n = IF k <= c THEN c - k ELSE c + n - k
  OBVIOUS

(* For every size of ring: cached_values_info describes the last samples   *)
(* in the order they were taken (174-205).                                 *)
THEOREM RingIsInOrder == Spec => []RingInOrder
  <1>1. OrderInv => RingInOrder
    <2> SUFFICES ASSUME OrderInv, NEW i \in 1..info.num
                 PROVE  ts[Wrap(info.oldest + i - 1)] = (clock + Stamps - (info.num - i) - 1) % Stamps
      BY DEF RingInOrder
    <2> DEFINE s == Wrap(info.oldest + i - 1)
    <2>1. /\ cache_index \in 0..(N - 1) /\ N \in Nat /\ N > 1 /\ Stamps \in Nat /\ Stamps > N
          /\ clock \in 0..(Stamps - 1) /\ info.num \in 0..N
      BY RingAssumption, StampsAssumption DEF OrderInv, IInv, TypeOK, Slots, Sample
    <2>2. info = IF cache_overflow THEN [num |-> N, oldest |-> cache_index]
                 ELSE [num |-> cache_index, oldest |-> 0]
      BY DEF OrderInv, InfoTrue, Info
    <2>3. s \in Slots /\ Written(s) /\ Age(s) = info.num - i + 1
      <3>1. CASE cache_overflow
        <4>1. info.num = N /\ info.oldest = cache_index
          BY <2>2, <3>1
        <4> QED
          BY <2>1, <3>1, <4>1 DEF Wrap, Slots, Written, Age
      <3>2. CASE ~cache_overflow
        <4>1. info.num = cache_index /\ info.oldest = 0
          BY <2>2, <3>2
        <4> QED
          BY <2>1, <3>2, <4>1 DEF Wrap, Slots, Written, Age
      <3> QED
        BY <3>1, <3>2
    <2>4. ts[s] = Ago(info.num - i + 1)
      BY <2>3 DEF OrderInv, Aged
    <2>5. PICK k \in 1..(Stamps - 1) : k = info.num - i + 1
      BY <2>1
    <2>6. clock + Stamps - (info.num - i) - 1 = clock + Stamps - k
      BY <2>1, <2>5
    <2> QED
      BY <2>1, <2>4, <2>5, <2>6, Turned DEF Ago
  <1> QED
    BY <1>1, AlwaysOrder, PTL

-----------------------------------------------------------------------------
(* The refinement of UploadQueue.  The slots of the window, in the order   *)
(* they are uploaded, are written, and the window ends at the writer.      *)
LEMMA WindowSlots ==
  ASSUME IInv
  PROVE  /\ Pending \in 0..N
         /\ upload_index # cache_index => Pending \in 1..(N - 1)
         /\ Wrap(upload_index + Pending) = cache_index
         /\ \A i \in 1..Pending : /\ Wrap(upload_index + i - 1) \in Slots
                                  /\ Written(Wrap(upload_index + i - 1))
  <1>1. /\ cache_index \in 0..(N - 1) /\ upload_index \in 0..(N - 1) /\ N \in Nat /\ N > 1
        /\ ~cache_overflow => upload_index <= cache_index
    BY RingAssumption DEF IInv, TypeOK, NotAhead, Slots
  <1>2. Pending = IF upload_index = cache_index THEN (IF Full THEN N ELSE 0)
                  ELSE IF upload_index < cache_index THEN cache_index - upload_index
                  ELSE cache_index + N - upload_index
    BY DEF Pending
  <1>3. Full /\ upload_index = cache_index => cache_overflow
    BY <1>1 DEF Full, Written
  <1>4. /\ Pending \in 0..N
        /\ upload_index # cache_index => Pending \in 1..(N - 1)
        /\ Wrap(upload_index + Pending) = cache_index
    BY <1>1, <1>2 DEF Wrap
  <1>5. ASSUME NEW i \in 1..Pending
        PROVE  Wrap(upload_index + i - 1) \in Slots /\ Written(Wrap(upload_index + i - 1))
    BY <1>1, <1>2, <1>3, <1>4 DEF Wrap, Written, Slots
  <1> QED
    BY <1>4, <1>5

(* What waits is a sequence with one element per slot of the window. *)
LEMMA WaitingIs ==
  ASSUME IInv
  PROVE  /\ Waiting \in Seq(Sample \cup {NoTs})
         /\ Len(Waiting) = Pending
         /\ \A i \in 1..Pending : Waiting[i] = ts[Wrap(upload_index + i - 1)]
  <1>1. Pending \in Nat
    BY WindowSlots, RingAssumption
  <1>2. \A i \in 1..Pending : ts[Wrap(upload_index + i - 1)] \in Sample \cup {NoTs}
    BY WindowSlots DEF IInv, TypeOK
  <1>3. Waiting \in [1..Pending -> Sample \cup {NoTs}]
    BY <1>2 DEF Waiting
  <1> QED
    BY <1>1, <1>3, IsASeq, LenProperties DEF Waiting

(* The chunk of a request is the front of what waits. *)
LEMMA ChunkIsFront ==
  ASSUME OrderInv, pc \in {"connect", "request", "answer"}
  PROVE  cnt + 1 \in 1..Chunk /\ cnt + 1 <= Len(Waiting) /\ chunk = SubSeq(Waiting, 1, cnt + 1)
  <1>1. cnt \in Nat /\ cnt + 1 \in 1..Chunk
    BY ChunkAssumption DEF OrderInv, IInv, TypeOK
  <1>2. Pending \in Nat /\ cnt < Pending
    BY WindowSlots, RingAssumption DEF OrderInv, IInv, ChunkPending
  <1>3. /\ Waiting \in Seq(Sample \cup {NoTs}) /\ Len(Waiting) = Pending
        /\ \A i \in 1..Pending : Waiting[i] = ts[Wrap(upload_index + i - 1)]
    BY WaitingIs DEF OrderInv
  <1>4. chunk = [i \in 1..(cnt + 1) |-> Waiting[i]]
    BY <1>1, <1>2, <1>3 DEF OrderInv, ChunkIs
  <1>5. SubSeq(Waiting, 1, cnt + 1) = [i \in 1..(cnt + 1) |-> Waiting[i]]
    BY <1>1, <1>2, <1>3
  <1> QED
    BY <1>1, <1>2, <1>3, <1>4, <1>5

(* The stamp of a new sample is not in use. *)
LEMMA StampIsFree ==
  ASSUME OrderInv
  PROVE  clock \notin ToSet(Waiting) /\ clock \in Sample
  <1>1. /\ clock \in 0..(Stamps - 1) /\ N \in Nat /\ Stamps \in Nat /\ N < Stamps
    BY RingAssumption, StampsAssumption DEF OrderInv, IInv, TypeOK, Sample
  <1>2. \A k \in 1..N : Ago(k) # clock
    BY <1>1 DEF Ago
  <1>3. ASSUME NEW i \in 1..Pending PROVE Waiting[i] # clock
    <2> DEFINE s == Wrap(upload_index + i - 1)
    <2>1. s \in Slots /\ Written(s)
      BY WindowSlots DEF OrderInv
    <2>2. ts[s] = Ago(Age(s))
      BY <2>1 DEF OrderInv, Aged
    <2>3. Age(s) \in 1..N
      BY <2>1, AgesAre DEF OrderInv, IInv
    <2> QED
      BY <1>2, <2>2, <2>3, WaitingIs DEF OrderInv
  <1>4. ToSet(Waiting) = {Waiting[i] : i \in 1..Pending}
    BY WaitingIs DEF OrderInv, ToSet, Waiting
  <1>5. clock \notin ToSet(Waiting)
    BY <1>3, <1>4
  <1>6. clock \in Sample
    BY DEF OrderInv, IInv, TypeOK
  <1> QED
    BY <1>5, <1>6

(* An element more, as a function of the position. *)
LEMMA Appended ==
  \A q \in Seq(Sample \cup {NoTs}), x \in Sample :
    Append(q, x) = [i \in 1..(Len(q) + 1) |-> IF i = Len(q) + 1 THEN x ELSE q[i]]
  <1> SUFFICES ASSUME NEW q \in Seq(Sample \cup {NoTs}), NEW x \in Sample
               PROVE  Append(q, x) =
                        [i \in 1..(Len(q) + 1) |-> IF i = Len(q) + 1 THEN x ELSE q[i]]
    OBVIOUS
  <1> DEFINE a == Append(q, x)
  <1>1. x \in Sample \cup {NoTs} /\ Len(q) \in Nat
    OBVIOUS
  <1>2. /\ a \in Seq(Sample \cup {NoTs}) /\ Len(a) = Len(q) + 1
        /\ \A i \in 1..Len(q) : a[i] = q[i]
        /\ a[Len(q) + 1] = x
    BY <1>1, AppendProperties
  <1>3. a = [i \in 1..Len(a) |-> a[i]]
    BY <1>2, LenProperties
  <1> HIDE DEF a
  <1>4. \A i \in 1..(Len(q) + 1) : a[i] = IF i = Len(q) + 1 THEN x ELSE q[i]
    BY <1>1, <1>2
  <1>5. a = [i \in 1..(Len(q) + 1) |-> IF i = Len(q) + 1 THEN x ELSE q[i]]
    BY <1>2, <1>3, <1>4
  <1> QED
    BY <1>5 DEF a

(* A new sample joins the queue at its end, in a full one instead of the   *)
(* oldest sample (solar_logger.c:171-186).                                 *)
LEMMA PostTakes ==
  ASSUME OrderInv, NEW force \in Forces, Post(force)
  PROVE  Queue!Take(clock)
  <1> DEFINE next == Wrap(cache_index + 1)
             rest == IF Pending = N THEN Tail(Waiting) ELSE Waiting
  <1>1. Record(cache_index, clock) /\ stored' = stored \ {clock} /\ life' = life
    BY DEF Post
  <1>2. IInv /\ IInv'
    BY PostInv DEF OrderInv
  <1>3. /\ cache_index \in 0..(N - 1) /\ upload_index \in 0..(N - 1) /\ N \in Nat /\ N > 1
        /\ ts \in [Slots -> Sample \cup {NoTs}]
    BY RingAssumption DEF OrderInv, IInv, TypeOK, Slots
  <1>4. /\ Pending \in 0..N
        /\ upload_index # cache_index => Pending \in 1..(N - 1)
        /\ Wrap(upload_index + Pending) = cache_index
    BY <1>2, WindowSlots
  <1>5. /\ cache_index' = next
        /\ ts' = [ts EXCEPT ![cache_index] = clock]
        /\ upload_index' = IF Pending = N THEN next ELSE upload_index
    <2>1. upload_index = cache_index => (Full <=> Pending = N)
      BY <1>3 DEF Pending
    <2> QED
      BY <1>1, <1>2, <1>3, <1>4, <2>1, RecordWindow DEF Record
  <1>6. next = (IF cache_index = N - 1 THEN 0 ELSE cache_index + 1) /\ next \in 0..(N - 1)
    BY <1>3 DEF Wrap
  <1>7. 0 < Pending'
    BY <1>1, <1>2, RecordWindow
  <1>8. Pending' = IF Pending = N THEN N ELSE Pending + 1
    <2>1. CASE Pending = N
      <3>1. upload_index' = cache_index'
        BY <1>5, <2>1
      <3> QED
        BY <1>7, <2>1, <3>1 DEF Pending
    <2>2. CASE Pending # N /\ upload_index = next
      <3>1. upload_index' = cache_index'
        BY <1>5, <2>2
      <3>2. Pending' = N
        BY <1>7, <3>1 DEF Pending
      <3>3. Pending = N - 1
        BY <1>3, <1>6, <2>2 DEF Pending
      <3> QED
        BY <1>3, <2>2, <3>2, <3>3
    <2>3. CASE Pending # N /\ upload_index # next
      <3>1. Pending' = IF upload_index < next THEN next - upload_index ELSE next + N - upload_index
        BY <1>5, <2>3 DEF Pending
      <3>2. Pending = IF upload_index = cache_index THEN 0
                      ELSE IF upload_index < cache_index THEN cache_index - upload_index
                      ELSE cache_index + N - upload_index
        BY <2>3 DEF Pending
      <3> QED
        BY <1>3, <1>6, <2>3, <3>1, <3>2
    <2> QED
      BY <2>1, <2>2, <2>3
  <1>9. /\ Waiting \in Seq(Sample \cup {NoTs}) /\ Len(Waiting) = Pending
        /\ \A i \in 1..Pending : Waiting[i] = ts[Wrap(upload_index + i - 1)]
    BY <1>2, WaitingIs
  <1>10. Waiting' = [i \in 1..Pending' |-> ts'[Wrap(upload_index' + i - 1)]]
    BY DEF Waiting, Wrap
  <1>11. clock \in Sample
    BY StampIsFree
  <1>12. CASE Pending = N
    <2>1. /\ Tail(Waiting) \in Seq(Sample \cup {NoTs}) /\ Len(Tail(Waiting)) = N - 1
          /\ \A i \in 1..(N - 1) : Tail(Waiting)[i] = Waiting[i + 1]
      BY <1>3, <1>9, <1>12
    <2>2. Append(Tail(Waiting), clock) =
            [i \in 1..N |-> IF i = N THEN clock ELSE ts[Wrap(upload_index + i)]]
      <3>1. \A i \in 1..(N - 1) : Tail(Waiting)[i] = ts[Wrap(upload_index + i)]
        <4>1. ASSUME NEW i \in 1..(N - 1) PROVE Tail(Waiting)[i] = ts[Wrap(upload_index + i)]
          <5>1. i + 1 \in 1..Pending /\ upload_index + (i + 1) - 1 = upload_index + i
            BY <1>3, <1>12
          <5> QED
            BY <1>9, <2>1, <5>1
        <4> QED
          BY <4>1
      <3>2. Append(Tail(Waiting), clock) =
              [i \in 1..N |-> IF i = N THEN clock ELSE Tail(Waiting)[i]]
        <4>1. Len(Tail(Waiting)) + 1 = N
          BY <1>3, <2>1
        <4>2. Append(Tail(Waiting), clock) =
                [i \in 1..(Len(Tail(Waiting)) + 1) |->
                   IF i = Len(Tail(Waiting)) + 1 THEN clock ELSE Tail(Waiting)[i]]
          BY <1>11, <2>1, Appended
        <4> QED
          BY <4>1, <4>2
      <3> QED
        BY <1>3, <3>1, <3>2
    <2>3. Waiting' = [i \in 1..N |-> ts'[Wrap(next + i - 1)]]
      BY <1>5, <1>8, <1>10, <1>12
    <2>4. ASSUME NEW i \in 1..N
          PROVE  ts'[Wrap(next + i - 1)] = IF i = N THEN clock ELSE ts[Wrap(upload_index + i)]
      <3>1. upload_index = cache_index
        BY <1>3, <1>4, <1>12
      <3>2. i = N => Wrap(next + i - 1) = cache_index
        BY <1>3, <1>6 DEF Wrap
      <3>3. i # N => /\ Wrap(next + i - 1) = Wrap(upload_index + i)
                     /\ Wrap(next + i - 1) # cache_index
                     /\ Wrap(next + i - 1) \in Slots
        BY <1>3, <1>6, <3>1 DEF Wrap, Slots
      <3>4. cache_index \in Slots
        BY <1>3 DEF Slots
      <3> QED
        BY <1>3, <1>5, <3>2, <3>3, <3>4
    <2>5. Waiting' = Append(Tail(Waiting), clock)
      BY <2>2, <2>3, <2>4
    <2> QED
      BY <1>1, <1>9, <1>12, <2>5, StampIsFree DEF Queue!Take, Queue!ToSet, ToSet
  <1>13. CASE Pending # N
    <2>1. Append(Waiting, clock) =
            [i \in 1..(Pending + 1) |-> IF i = Pending + 1 THEN clock ELSE Waiting[i]]
      BY <1>9, <1>11, Appended
    <2>2. Waiting' = [i \in 1..(Pending + 1) |-> ts'[Wrap(upload_index + i - 1)]]
      BY <1>5, <1>8, <1>10, <1>13
    <2>3. ASSUME NEW i \in 1..(Pending + 1)
          PROVE  ts'[Wrap(upload_index + i - 1)] = IF i = Pending + 1 THEN clock ELSE Waiting[i]
      <3>1. i = Pending + 1 => Wrap(upload_index + i - 1) = cache_index
        <4>1. i = Pending + 1 => upload_index + i - 1 = upload_index + Pending
          BY <1>3, <1>4
        <4> QED
          BY <1>4, <4>1
      <3>2. i # Pending + 1 => /\ i \in 1..Pending
                               /\ Wrap(upload_index + i - 1) # cache_index
                               /\ Wrap(upload_index + i - 1) \in Slots
        BY <1>3, <1>4, <1>13 DEF Wrap, Slots
      <3>3. cache_index \in Slots
        BY <1>3 DEF Slots
      <3> QED
        BY <1>3, <1>5, <1>9, <3>1, <3>2, <3>3
    <2>4. Waiting' = Append(Waiting, clock)
      BY <2>1, <2>2, <2>3
    <2>5. Len(Waiting) # N
      BY <1>9, <1>13
    <2> QED
      BY <1>1, <2>4, <2>5, StampIsFree DEF Queue!Take, Queue!ToSet, ToSet
  <1> QED
    BY <1>12, <1>13

(* The acknowledged chunk, stored by the database, leaves the queue at its *)
(* front (378-389).                                                        *)
LEMMA AcknowledgedLeaves ==
  ASSUME OrderInv, Acknowledged
  PROVE  Queue!Acknowledge(cnt + 1) /\ cnt + 1 \in 1..Chunk
  <1> DEFINE k == cnt + 1
             next == Wrap(upload_index + cnt + 1)
  <1>1. /\ pc = "answer" /\ Ok(answer) /\ upload_index' = next
        /\ UNCHANGED <<ringVars, stored, life>>
        /\ uploaded' = [s \in Slots |-> Marked(s) \/ uploaded[s]]
    BY DEF Acknowledged
  <1>2. k \in 1..Chunk /\ k <= Len(Waiting) /\ chunk = SubSeq(Waiting, 1, k)
    BY <1>1, ChunkIsFront
  <1>3. ToSet(SubSeq(Waiting, 1, k)) \subseteq stored
    BY <1>1, <1>2 DEF OrderInv, AckStored
  <1>4. /\ cache_index \in 0..(N - 1) /\ upload_index \in 0..(N - 1) /\ N \in Nat /\ N > 1
        /\ k \in Nat /\ k > 0
        /\ Pending \in 0..N
        /\ upload_index # cache_index => Pending \in 1..(N - 1)
        /\ Wrap(upload_index + Pending) = cache_index
    BY <1>2, RingAssumption, ChunkAssumption, WindowSlots DEF OrderInv, IInv, TypeOK, Slots
  <1>5. /\ Waiting \in Seq(Sample \cup {NoTs}) /\ Len(Waiting) = Pending
        /\ \A i \in 1..Pending : Waiting[i] = ts[Wrap(upload_index + i - 1)]
    BY WaitingIs DEF OrderInv
  <1>6. k <= Pending
    BY <1>2, <1>5
  <1>7. next = (IF upload_index + k >= N THEN upload_index + k - N ELSE upload_index + k)
        /\ next \in 0..(N - 1)
    BY <1>4, <1>6 DEF Wrap, OrderInv, IInv, TypeOK
  <1>8. cache_index' = cache_index
    BY <1>1 DEF ringVars
  <1>9. Pending' = Pending - k
    <2>1. CASE next = cache_index
      <3>1. Pending = k
        BY <1>4, <1>6, <1>7, <2>1 DEF Wrap
      <3>2. next \in Slots
        BY <1>7 DEF Slots
      <3>3. ~Written(next) \/ uploaded'[next]
        <4>1. CASE upload_index = cache_index
          <5>1. k = N
            BY <1>4, <3>1, <4>1 DEF Pending
          <5>2. next = Wrap(upload_index + 0) /\ 0 \in 0..cnt
            BY <1>4, <2>1, <4>1 DEF Wrap, OrderInv, IInv, TypeOK
          <5> QED
            BY <1>1, <3>2, <5>2 DEF Marked
        <4>2. CASE upload_index # cache_index
          <5>1. ~InWindow(next)
            BY <1>4, <2>1, <4>2 DEF InWindow
          <5> QED
            BY <1>1, <3>2, <5>1 DEF OrderInv, IInv, WindowExact
        <4> QED
          BY <4>1, <4>2
      <3>4. ~Full' /\ upload_index' = cache_index'
        BY <1>1, <1>8, <2>1, <3>3 DEF Full, Written, ringVars
      <3>5. Pending' = 0
        BY <3>4 DEF Pending
      <3> QED
        BY <1>4, <3>1, <3>5
    <2>2. CASE next # cache_index
      <3>1. Pending' = IF next < cache_index THEN cache_index - next ELSE cache_index + N - next
        BY <1>1, <1>8, <2>2 DEF Pending
      <3>2. Pending - k = IF next < cache_index THEN cache_index - next ELSE cache_index + N - next
        BY <1>4, <1>6, <1>7, <2>2 DEF Wrap
      <3> QED
        BY <3>1, <3>2
    <2> QED
      BY <2>1, <2>2
  <1>10. Waiting' = [i \in 1..(Pending - k) |-> ts[Wrap(next + i - 1)]]
    <2>1. Waiting' = [i \in 1..Pending' |-> ts'[Wrap(upload_index' + i - 1)]]
      BY DEF Waiting, Wrap
    <2>2. ts' = ts
      BY <1>1 DEF ringVars
    <2> QED
      BY <1>1, <1>9, <2>1, <2>2
  <1>11. SubSeq(Waiting, k + 1, Pending) = [i \in 1..(Pending - k) |-> Waiting[i + k]]
    <2> DEFINE m == k + 1
               d == SubSeq(Waiting, m, Pending)
    <2>1. m \in Int /\ Pending \in Int /\ m <= Pending + 1
      BY <1>4, <1>6
    <2>2. \A i \in m..Pending : Waiting[i] \in Sample \cup {NoTs}
      BY <1>4, <1>5
    <2>3. /\ d \in Seq(Sample \cup {NoTs})
          /\ Len(d) = IF m <= Pending THEN Pending - m + 1 ELSE 0
          /\ \A i \in 1..(Pending - m + 1) : d[i] = Waiting[m + i - 1]
      <3> HIDE DEF m
      <3> QED
        BY <2>1, <2>2, SubSeqProperties
    <2>4. d = [i \in 1..Len(d) |-> d[i]]
      BY <2>3, LenProperties
    <2> HIDE DEF d
    <2>5. Pending - m + 1 = Pending - k /\ Len(d) = Pending - k
      BY <1>4, <1>6, <2>3
    <2>6. \A i \in 1..(Pending - k) : d[i] = Waiting[m + i - 1] /\ m + i - 1 = i + k
      BY <1>4, <2>3, <2>5
    <2>7. d = [i \in 1..(Pending - k) |-> Waiting[i + k]]
      BY <2>4, <2>5, <2>6
    <2> QED
      BY <2>7 DEF d
  <1>12. ASSUME NEW i \in 1..(Pending - k)
         PROVE  Waiting[i + k] = ts[Wrap(next + i - 1)]
    <2>1. i + k \in 1..Pending
      BY <1>4, <1>6
    <2>2. Wrap(upload_index + (i + k) - 1) = Wrap(next + i - 1)
      BY <1>4, <1>6, <1>7 DEF Wrap
    <2> QED
      BY <1>5, <2>1, <2>2
  <1>13. Waiting' = SubSeq(Waiting, k + 1, Len(Waiting))
    BY <1>5, <1>10, <1>11, <1>12
  <1> QED
    BY <1>1, <1>2, <1>3, <1>13
    DEF Queue!Acknowledge, Queue!Oldest, Queue!Drop, Queue!ToSet, ToSet

(* A restart loses what waits. *)
LEMMA RestartLoses ==
  ASSUME Restart
  PROVE  Queue!Lose
  <1>1. upload_index' = 0 /\ cache_index' = 0 /\ cache_overflow' = FALSE /\ stored' = stored
        /\ life' = 1 - life
    BY DEF Restart
  <1>2. ~Full'
    BY <1>1 DEF Full, Written
  <1>3. Pending' = 0
    BY <1>1, <1>2 DEF Pending
  <1>4. Waiting' = [i \in 1..0 |-> ts'[Wrap(upload_index' + i - 1)]]
    BY <1>3 DEF Waiting, Wrap
  <1>5. Waiting' = <<>>
    BY <1>4
  <1> QED
    BY <1>1, <1>5 DEF Queue!Lose

(* Steps that leave ring and window alone leave the queue alone. *)
LEMMA QueueKept ==
  ASSUME UNCHANGED <<ringVars, markVars>>
  PROVE  Waiting' = Waiting
  BY DEF Waiting, Pending, Full, Written, Wrap, ringVars, markVars

(* Every step of the logger is a step of the queue or stutters. *)
LEMMA NextRefines ==
  ASSUME OrderInv, [Next]_vars
  PROVE  [Queue!Next]_(Queue!vars)
  <1>1. CASE \E force \in Forces : Post(force)
    <2>1. Queue!Take(clock) /\ clock \in Sample
      BY <1>1, PostTakes, StampIsFree
    <2> QED
      BY <2>1 DEF Queue!Next
  <1>2. CASE Acknowledged
    <2>1. Queue!Acknowledge(cnt + 1) /\ cnt + 1 \in 1..Chunk
      BY <1>2, AcknowledgedLeaves
    <2> QED
      BY <2>1 DEF Queue!Next
  <1>3. CASE DbStores
    <2>1. pc = "request" /\ stored' = stored \cup ToSet(chunk)
        /\ UNCHANGED <<ringVars, markVars, life>>
      BY <1>3 DEF DbStores, Unmoved
    <2>2. /\ cnt + 1 \in 1..Chunk /\ cnt + 1 <= Len(Waiting)
          /\ chunk = SubSeq(Waiting, 1, cnt + 1)
      BY <2>1, ChunkIsFront
    <2>3. Waiting' = Waiting
      BY <2>1, QueueKept
    <2>4. Queue!Store(cnt + 1)
      BY <2>1, <2>2, <2>3 DEF Queue!Store, Queue!Oldest, Queue!ToSet, ToSet
    <2> QED
      BY <2>2, <2>4 DEF Queue!Next
  <1>4. CASE Restart
    BY <1>4, RestartLoses DEF Queue!Next
  <1>5. ASSUME UNCHANGED <<ringVars, markVars, stored, life>>
        PROVE  [Queue!Next]_(Queue!vars)
    <2>1. Waiting' = Waiting /\ stored' = stored /\ life' = life
      BY <1>5, QueueKept
    <2> QED
      BY <2>1 DEF Queue!vars
  <1>6. CASE Fill
    BY <1>5, <1>6 DEF Fill
  <1>7. CASE Send
    BY <1>5, <1>7 DEF Send, Unmoved
  <1>8. CASE Rejected
    BY <1>5, <1>8 DEF Rejected
  <1>9. CASE ConnectFails
    BY <1>5, <1>9 DEF ConnectFails, Unmoved
  <1>10. CASE DbRefuses
    BY <1>5, <1>10 DEF DbRefuses, Unmoved
  <1>11. CASE DbChanges
    BY <1>5, <1>11 DEF DbChanges, Unmoved
  <1>12. CASE UNCHANGED vars
    BY <1>5, <1>12 DEF vars
  <1> QED
    BY <1>1, <1>2, <1>3, <1>4, <1>6, <1>7, <1>8, <1>9, <1>10, <1>11, <1>12
    DEF Next, Logger, Network

(* The queue starts empty. *)
LEMMA InitRefines == Init => Queue!Init
  <1> SUFFICES ASSUME Init PROVE Queue!Init
    OBVIOUS
  <1>1. ~Full /\ upload_index = cache_index /\ stored = {} /\ life = 0
    BY DEF Init, Fresh, Full, Written
  <1>2. Pending = 0
    BY <1>1 DEF Pending
  <1>3. Waiting = <<>>
    BY <1>2 DEF Waiting
  <1> QED
    BY <1>1, <1>3 DEF Queue!Init

(* For every size of ring and chunk the logger implements UploadQueue: a   *)
(* sample leaves the ring only with a chunk the database holds, in the     *)
(* order it came, and within one life of the process it is lost only to a  *)
(* newer sample in a full ring (solar_logger.c:171-186, 230-389).          *)
THEOREM ImplementsQueue == Spec => Refines
  <1>1. Init => Queue!Init
    BY InitRefines
  <1>2. OrderInv /\ [Next]_vars => [Queue!Next]_(Queue!vars)
    BY NextRefines
  <1> QED
    BY <1>1, <1>2, AlwaysOrder, PTL DEF Spec, Refines, Queue!Spec

=============================================================================
