-------------------------- MODULE ModbusPollProofs --------------------------
(***************************************************************************)
(* The cache of a polling client for every register table, retry limit,    *)
(* counter width, block size and number of readers: how long values live,  *)
(* that no reader sees half a block, and that saves and look-ups act like  *)
(* the single steps of PollCache.                                          *)
(***************************************************************************)
EXTENDS ModbusPoll, TLAPS

Known == Versions \cup {0}
InLock == {"free", "malloc", "copy", "unlock"}

(* data_mutex is held by whoever is between lock and unlock. *)
Exclusive ==
  /\ mutex = Poller <=> pc \in InLock
  /\ \A t \in Readers : mutex = t <=> rpc[t] # "idle"

(* The block to be saved is one version, or zeros. *)
BufWhole == \E v \in Known : buf = Block(v)

(* It is zeroed exactly when the limit has been reached. *)
BufDeserved ==
  pc = "lock" \/ pc \in InLock =>
    /\ buf = Zero => missed[reg] >= MaxFailed
    /\ buf # Zero => missed[reg] = 0

(* Below the limit num_failed_requests is the number of failures, though   *)
(* it may have run over at or above it.                                    *)
CounterExact == \A r \in Regs : missed[r] < MaxFailed => fails[r] = missed[r]

Whole(block) == block = Null \/ \E v \in Known : block = Block(v)
(* Only the block being filled may be torn. *)
CacheWhole == \A r \in Regs : ~Filled(r) => Whole(cache[r])

(* How far a save has come. *)
SaveProgress ==
  /\ pc = "malloc" => cache[reg] = Null
  /\ pc = "copy" =>
       /\ word[Poller] < Words /\ cache[reg] \in [1..Words -> Word]
       /\ \A w \in 1..Words : w <= word[Poller] => cache[reg][w] = buf[w]
  /\ pc = "unlock" => cache[reg] = Null \/ cache[reg] = buf

(* How far a look-up has come. *)
ReadProgress ==
  \A t \in Readers :
    /\ rpc[t] = "lookup" => copy[t] = Null
    /\ rpc[t] = "copy" =>
         /\ word[t] < Words /\ copy[t] \in [1..Words -> Word] /\ cache[want[t]] # Null
         /\ \A w \in 1..Words : w <= word[t] => copy[t][w] = cache[want[t]][w]
    /\ rpc[t] = "unlock" => copy[t] \in {Null, cache[want[t]]}

IInv ==
  /\ TypeOK /\ Exclusive /\ BufWhole /\ BufDeserved /\ CounterExact
  /\ CacheWhole /\ SaveProgress /\ ReadProgress
  /\ StaleBound /\ KeptUntilLimit /\ NoTornRead

-----------------------------------------------------------------------------
(* Blocks of one value are told apart by that value. *)
LEMMA Blocks ==
  /\ 1 \in 1..Words /\ Dirty \notin Known
  /\ \A v \in Known : Block(v) \in [1..Words -> Word] /\ Block(v)[1] = v
  /\ Block(Dirty) \in [1..Words -> Word]
  /\ Null \notin [1..Words -> Word]
  <1>1. 1 \in 1..Words /\ Dirty \notin Known
    <2>1. 1 \in 1..Words
      BY TableAssumption
    <2>2. Versions \subseteq Nat \ {0} /\ Dirty \notin Nat
      BY VersionsAssumption, MarksAssumption, Zenon
    <2>3. Dirty \notin Versions
      BY <2>2, Zenon
    <2>4. Dirty # 0
      BY MarksAssumption, SMT
    <2> QED
      BY <2>1, <2>3, <2>4 DEF Known
  <1>2. \A v \in Known : Block(v) \in [1..Words -> Word] /\ Block(v)[1] = v
    BY <1>1 DEF Block, Known, Word
  <1>3. Block(Dirty) \in [1..Words -> Word]
    BY DEF Block, Word
  <1> QED
    BY <1>1, <1>2, <1>3, MarksAssumption

(* Blocks that agree in every word are equal; a function stays typed when  *)
(* one value changes.                                                      *)
LEMMA Extensional ==
  ASSUME NEW f \in [1..Words -> Word], NEW g \in [1..Words -> Word],
         \A i \in 1..Words : f[i] = g[i]
  PROVE  f = g
  <1>1. f = [i \in 1..Words |-> f[i]] /\ g = [i \in 1..Words |-> g[i]]
    OBVIOUS
  <1>2. [i \in 1..Words |-> f[i]] = [i \in 1..Words |-> g[i]]
    BY Zenon
  <1> QED
    BY <1>1, <1>2, Zenon

(* A function changed at one place keeps its type. *)
LEMMA ExceptTyped ==
  ASSUME NEW S, NEW T, NEW f \in [S -> T], NEW x, NEW y \in T
  PROVE  [f EXCEPT ![x] = y] \in [S -> T]
  OBVIOUS

(* The initial states satisfy the invariant. *)
LEMMA InitIInv == Init => IInv
  <1> SUFFICES ASSUME Init PROVE IInv
    OBVIOUS
  <1>1. TypeOK
    BY Blocks, TableAssumption, CounterAssumption, ThreadsAssumption
    DEF Init, TypeOK, Regs, Threads, Zero, Known
  <1>2. Exclusive
    BY ThreadsAssumption DEF Init, Exclusive, InLock
  <1>3. BufWhole /\ BufDeserved /\ CounterExact
    BY DEF Init, BufWhole, BufDeserved, InLock, CounterExact, Zero, Known
  <1>4. CacheWhole /\ SaveProgress /\ ReadProgress /\ NoTornRead
    BY DEF Init, CacheWhole, Whole, SaveProgress, ReadProgress, NoTornRead
  <1>5. StaleBound /\ KeptUntilLimit
    BY Blocks, CounterAssumption DEF Init, StaleBound, KeptUntilLimit, Value, Zero, Known
  <1> QED
    BY <1>1, <1>2, <1>3, <1>4, <1>5 DEF IInv

(* Outside a save, a step that moves only the polling thread, the health   *)
(* of the environment or the count of failed connects changes nothing.     *)
LEMMA QuietStep ==
  ASSUME IInv, pc \in {"connect", "poll", "log"}, pc' \in {"connect", "poll", "log"},
         UNCHANGED <<fails, buf, cache, mutex, word, readVars, missed>>
  PROVE  /\ Exclusive' /\ BufWhole' /\ BufDeserved' /\ CounterExact'
         /\ CacheWhole' /\ SaveProgress' /\ ReadProgress'
         /\ StaleBound' /\ KeptUntilLimit' /\ NoTornRead'
  <1>1. Exclusive' /\ BufWhole' /\ BufDeserved' /\ CounterExact'
    BY DEF IInv, Exclusive, BufWhole, BufDeserved, CounterExact, InLock, readVars
  <1>2. CacheWhole' /\ SaveProgress' /\ ReadProgress' /\ NoTornRead'
    BY DEF IInv, CacheWhole, Whole, Filled, SaveProgress, ReadProgress, NoTornRead, readVars
  <1>3. StaleBound' /\ KeptUntilLimit'
    BY DEF IInv, StaleBound, KeptUntilLimit, Saving, Value
  <1> QED
    BY <1>1, <1>2, <1>3

(* Going on with the next register stays within the table. *)
LEMMA NextRegisterTyped ==
  ASSUME NextRegister, reg \in Regs
  PROVE  reg' \in Regs /\ pc' \in {"poll", "log"}
  BY TableAssumption DEF NextRegister, Regs

(* The steps of the polling thread outside the cache. *)
LEMMA OutsideIInv ==
  ASSUME IInv, Connect \/ ConnectFails \/ NoBuffer \/ PostLog
  PROVE  IInv'
  <1>1. TypeOK'
    <2>1. CASE Connect
      BY <2>1, TableAssumption DEF IInv, TypeOK, Connect, readVars, histVars, Regs
    <2>2. CASE ConnectFails
      <3>1. unreached' \in [Regs -> 0..MaxFailed]
        BY <2>2, CounterAssumption DEF IInv, TypeOK, ConnectFails, Capped
      <3> QED
        BY <2>2, <3>1 DEF IInv, TypeOK, ConnectFails, pollVars, readVars
    <2>3. CASE NoBuffer
      BY <2>3, NextRegisterTyped DEF IInv, TypeOK, NoBuffer, readVars, histVars
    <2>4. CASE PostLog
      BY <2>4 DEF IInv, TypeOK, PostLog, readVars, histVars
    <2> QED
      BY <2>1, <2>2, <2>3, <2>4
  <1>2. /\ pc \in {"connect", "poll", "log"} /\ pc' \in {"connect", "poll", "log"}
        /\ UNCHANGED <<fails, buf, cache, mutex, word, readVars, missed>>
    BY NextRegisterTyped
    DEF IInv, TypeOK, Connect, ConnectFails, NoBuffer, PostLog, pollVars, histVars
  <1> QED
    BY <1>1, <1>2, QuietStep DEF IInv

(* The environment changes. *)
LEMMA HealthIInv == ASSUME IInv, HealthChanges PROVE IInv'
  <1>1. TypeOK'
    BY DEF IInv, TypeOK, HealthChanges, pollVars, readVars, histVars
  <1>2. Exclusive' /\ BufWhole' /\ BufDeserved' /\ CounterExact'
    BY DEF IInv, HealthChanges, Exclusive, BufWhole, BufDeserved, CounterExact, InLock,
           pollVars, readVars, histVars
  <1>3. CacheWhole' /\ SaveProgress' /\ ReadProgress' /\ NoTornRead'
    BY DEF IInv, HealthChanges, CacheWhole, Whole, Filled, SaveProgress, ReadProgress,
           NoTornRead, pollVars, readVars
  <1>4. StaleBound' /\ KeptUntilLimit'
    BY DEF IInv, HealthChanges, StaleBound, KeptUntilLimit, Saving, Value, pollVars,
           histVars
  <1> QED
    BY <1>1, <1>2, <1>3, <1>4 DEF IInv

(* A poll that is answered: the counter starts again, the value is ready. *)
LEMMA ReadOkIInv == ASSUME IInv, ReadOk PROVE IInv'
  <1>1. TypeOK'
    BY Blocks, CounterAssumption
    DEF IInv, TypeOK, ReadOk, Success, readVars, Known
  <1>2. Exclusive' /\ CounterExact'
    BY DEF IInv, TypeOK, ReadOk, Success, Exclusive, InLock, CounterExact, readVars
  <1>3. BufWhole' /\ BufDeserved'
    <2>1. PICK v \in Versions : buf' = Block(v)
      BY DEF ReadOk
    <2>2. v \in Known /\ 0 \in Known /\ v # 0
      BY VersionsAssumption DEF Known
    <2>3. Block(v) # Zero
      BY <2>2, Blocks DEF Zero
    <2> QED
      BY <2>1, <2>2, <2>3 DEF IInv, TypeOK, ReadOk, BufWhole, BufDeserved
  <1>4. CacheWhole' /\ SaveProgress' /\ ReadProgress' /\ NoTornRead'
    BY DEF IInv, ReadOk, CacheWhole, Whole, Filled, SaveProgress, ReadProgress,
           NoTornRead, readVars
  <1>5. StaleBound' /\ KeptUntilLimit'
    BY DEF IInv, TypeOK, ReadOk, StaleBound, KeptUntilLimit, Saving, Value
  <1> QED
    BY <1>1, <1>2, <1>3, <1>4, <1>5 DEF IInv

(* A poll that fails: below the limit the cache stays, at the limit zeros  *)
(* are ready, and the counter may run over from there on.                  *)
LEMMA ReadFailsIInv == ASSUME IInv, ReadFails PROVE IInv'
  <1>1. /\ fails' \in [Regs -> 0..(CounterSize - 1)]
        /\ missed' \in [Regs -> 0..MaxFailed] /\ unreached' \in [Regs -> 0..MaxFailed]
    BY CounterAssumption DEF IInv, TypeOK, ReadFails, Capped
  <1>2. CounterExact'
    <2> SUFFICES ASSUME NEW r \in Regs, missed'[r] < MaxFailed
                 PROVE  fails'[r] = missed'[r]
      BY DEF CounterExact
    <2>1. missed[r] < MaxFailed /\ fails[r] = missed[r] /\ missed[r] \in Nat
      BY CounterAssumption DEF IInv, TypeOK, ReadFails, Capped, CounterExact
    <2>2. CASE r # reg
      BY <2>1, <2>2 DEF IInv, TypeOK, ReadFails
    <2>3. CASE r = reg
      <3>1. missed'[r] = missed[r] + 1 /\ missed[r] + 1 < CounterSize
        BY <2>1, <2>3, CounterAssumption DEF IInv, TypeOK, ReadFails, Capped
      <3>2. fails'[r] = (missed[r] + 1) % CounterSize
        BY <2>1, <2>3 DEF IInv, TypeOK, ReadFails
      <3>3. \A n \in Nat : n < CounterSize => n % CounterSize = n
        BY CounterAssumption
      <3> QED
        BY <2>1, <3>1, <3>2, <3>3
    <2> QED
      BY <2>2, <2>3
  <1>3. Exclusive'
    BY NextRegisterTyped DEF IInv, TypeOK, ReadFails, Exclusive, InLock, readVars
  <1>4. CacheWhole' /\ SaveProgress' /\ ReadProgress' /\ NoTornRead'
    BY NextRegisterTyped
    DEF IInv, TypeOK, ReadFails, CacheWhole, Whole, Filled, SaveProgress, ReadProgress,
        NoTornRead, readVars
  <1>5. CASE Retry(fails[reg])
    <2>1. TypeOK'
      BY <1>1, <1>5, NextRegisterTyped DEF IInv, TypeOK, ReadFails, readVars
    <2>2. BufWhole' /\ BufDeserved'
      BY <1>5, NextRegisterTyped DEF IInv, TypeOK, ReadFails, BufWhole, BufDeserved, InLock
    <2>3. missed'[reg] < MaxFailed \/ missed[reg] >= MaxFailed
      BY CounterAssumption, <1>5 DEF IInv, TypeOK, ReadFails, Capped, CounterExact, Retry
    <2>4. \A r \in Regs : ~Saving(r) /\ (missed'[r] >= MaxFailed <=> missed[r] >= MaxFailed)
      BY <1>5, <2>3, CounterAssumption DEF IInv, TypeOK, ReadFails, Capped, Saving
    <2>5. StaleBound' /\ KeptUntilLimit'
      BY <2>4, <1>5 DEF IInv, ReadFails, StaleBound, KeptUntilLimit, Value
    <2> QED
      BY <1>2, <1>3, <1>4, <2>1, <2>2, <2>5 DEF IInv
  <1>6. CASE ~Retry(fails[reg])
    <2>1. TypeOK'
      BY <1>1, <1>6, Blocks DEF IInv, TypeOK, ReadFails, readVars, Zero, Known
    <2>2. missed'[reg] >= MaxFailed
      BY CounterAssumption, <1>6 DEF IInv, TypeOK, ReadFails, Capped, CounterExact, Retry
    <2>3. BufWhole' /\ BufDeserved'
      BY <1>6, <2>2 DEF ReadFails, BufWhole, BufDeserved, Zero, Known
    <2>4. StaleBound' /\ KeptUntilLimit'
      BY <1>6, <2>2
      DEF IInv, TypeOK, ReadFails, StaleBound, KeptUntilLimit, Saving, Value
    <2> QED
      BY <1>2, <1>3, <1>4, <2>1, <2>3, <2>4 DEF IInv
  <1> QED
    BY <1>5, <1>6

-----------------------------------------------------------------------------
(* While the poller is inside the lock, every reader is outside of it. *)
LEMMA ReadersWait ==
  ASSUME IInv, pc \in InLock
  PROVE  mutex = Poller /\ \A t \in Readers : rpc[t] = "idle"
  BY ThreadsAssumption DEF IInv, Exclusive

(* modbus_tcp_save_poll_data takes the mutex. *)
LEMMA SaveLockIInv == ASSUME IInv, SaveLock PROVE IInv'
  <1>1. TypeOK'
    BY DEF IInv, TypeOK, SaveLock, Lock, Threads, readVars, histVars
  <1>2. Exclusive'
    BY ThreadsAssumption DEF IInv, SaveLock, Lock, Exclusive, InLock, readVars
  <1>3. BufWhole' /\ BufDeserved' /\ CounterExact'
    BY DEF IInv, SaveLock, BufWhole, BufDeserved, InLock, CounterExact, histVars
  <1>4. CacheWhole' /\ SaveProgress' /\ ReadProgress' /\ NoTornRead'
    BY DEF IInv, SaveLock, CacheWhole, Whole, Filled, SaveProgress, ReadProgress,
           NoTornRead, readVars
  <1>5. StaleBound' /\ KeptUntilLimit'
    BY DEF IInv, SaveLock, StaleBound, KeptUntilLimit, Saving, Value, histVars
  <1> QED
    BY <1>1, <1>2, <1>3, <1>4, <1>5 DEF IInv

(* It frees the old block. *)
LEMMA SaveFreeIInv == ASSUME IInv, SaveFree PROVE IInv'
  <1>1. TypeOK'
    BY DEF IInv, TypeOK, SaveFree, readVars, histVars
  <1>2. Exclusive' /\ BufWhole' /\ BufDeserved' /\ CounterExact'
    BY DEF IInv, SaveFree, Exclusive, BufWhole, BufDeserved, InLock, CounterExact,
           readVars, histVars
  <1>3. CacheWhole' /\ SaveProgress'
    BY DEF IInv, TypeOK, SaveFree, CacheWhole, Whole, Filled, SaveProgress
  <1>4. ReadProgress' /\ NoTornRead'
    BY ReadersWait DEF IInv, SaveFree, InLock, ReadProgress, NoTornRead, readVars
  <1>5. StaleBound' /\ KeptUntilLimit'
    BY DEF IInv, TypeOK, SaveFree, StaleBound, KeptUntilLimit, Saving, Value, histVars
  <1> QED
    BY <1>1, <1>2, <1>3, <1>4, <1>5 DEF IInv

(* It gets memory for the new block, or none. *)
LEMMA SaveMallocIInv == ASSUME IInv, SaveMalloc PROVE IInv'
  <1>1. pc = "malloc" /\ pc' \in {"copy", "unlock"} /\ cache[reg] = Null
    BY DEF IInv, SaveMalloc, SaveProgress
  <1>2. TypeOK'
    <2>1. cache' \in [Regs -> [1..Words -> Word] \cup {Null}]
      BY Blocks DEF IInv, TypeOK, SaveMalloc
    <2>2. word' \in [Threads -> 0..Words]
      <3>1. 0 \in 0..Words /\ word \in [Threads -> 0..Words]
        BY TableAssumption DEF IInv, TypeOK
      <3>2. [word EXCEPT ![Poller] = 0] \in [Threads -> 0..Words]
        BY <3>1
      <3>3. word' = word \/ word' = [word EXCEPT ![Poller] = 0]
        BY DEF SaveMalloc
      <3> QED
        BY <3>1, <3>2, <3>3
    <2>3. UNCHANGED <<reg, fails, buf, mutex, rpc, want, copy, health, missed, unreached>>
      BY DEF SaveMalloc, readVars, histVars
    <2>4. TypeOK
      BY DEF IInv
    <2> QED
      BY <1>1, <2>1, <2>2, <2>3, <2>4 DEF TypeOK
  <1>3. Exclusive' /\ BufWhole' /\ BufDeserved' /\ CounterExact'
    BY <1>1 DEF IInv, SaveMalloc, Exclusive, BufWhole, BufDeserved, InLock, CounterExact,
                readVars, histVars
  <1>4. CacheWhole'
    BY <1>1 DEF IInv, TypeOK, SaveMalloc, CacheWhole, Whole, Filled
  <1>5. SaveProgress'
    BY <1>1, Blocks, TableAssumption
    DEF IInv, TypeOK, SaveMalloc, SaveProgress, Threads
  <1>6. ReadProgress' /\ NoTornRead'
    BY <1>1, ReadersWait DEF IInv, SaveMalloc, InLock, ReadProgress, NoTornRead, readVars
  <1>7. StaleBound' /\ KeptUntilLimit'
    BY <1>1 DEF IInv, TypeOK, SaveMalloc, StaleBound, KeptUntilLimit, Saving, Value,
           histVars
  <1> QED
    BY <1>2, <1>3, <1>4, <1>5, <1>6, <1>7 DEF IInv

(* It copies a word; with the last one the block is whole again. *)
LEMMA SaveCopyIInv == ASSUME IInv, SaveCopy PROVE IInv'
  <1> DEFINE w == word[Poller] + 1
  <1>1. /\ pc = "copy" /\ pc' \in {"copy", "unlock"} /\ reg \in Regs
        /\ w \in 1..Words /\ word' = [word EXCEPT ![Poller] = w]
        /\ pc' = IF w = Words THEN "unlock" ELSE "copy"
    BY TableAssumption DEF IInv, TypeOK, SaveCopy, SaveProgress, Threads
  <1>2. /\ cache[reg] \in [1..Words -> Word]
        /\ cache' = [cache EXCEPT ![reg] = [cache[reg] EXCEPT ![w] = buf[w]]]
    BY DEF IInv, SaveCopy, SaveProgress
  <1>3. cache'[reg] \in [1..Words -> Word]
    BY <1>1, <1>2 DEF IInv, TypeOK
  <1>4. TypeOK'
    <2>1. cache' \in [Regs -> [1..Words -> Word] \cup {Null}]
      BY <1>1, <1>2, <1>3 DEF IInv, TypeOK
    <2>2. word' \in [Threads -> 0..Words]
      <3>1. w \in 0..Words
        BY <1>1
      <3> QED
        BY <1>1, <3>1, ExceptTyped DEF IInv, TypeOK
    <2> QED
      BY <1>1, <2>1, <2>2 DEF IInv, TypeOK, SaveCopy, readVars, histVars
  <1>5. Exclusive' /\ BufWhole' /\ BufDeserved' /\ CounterExact'
    BY <1>1 DEF IInv, SaveCopy, Exclusive, BufWhole, BufDeserved, InLock, CounterExact,
                readVars, histVars
  <1>6. \A i \in 1..Words : i <= w => cache'[reg][i] = buf[i]
    BY <1>1, <1>2 DEF IInv, TypeOK, SaveProgress, Threads
  <1>7. w = Words => cache'[reg] = buf
    <2> SUFFICES ASSUME w = Words PROVE cache'[reg] = buf
      OBVIOUS
    <2>1. \A i \in 1..Words : cache'[reg][i] = buf[i]
      BY <1>6
    <2> QED
      BY <1>3, <2>1, Extensional DEF IInv, TypeOK
  <1>8. SaveProgress'
    <2>1. buf' = buf /\ reg' = reg /\ word'[Poller] = w
      BY <1>1 DEF IInv, TypeOK, SaveCopy, Threads
    <2> QED
      BY <1>1, <1>3, <1>6, <1>7, <2>1, TableAssumption DEF SaveProgress
  <1>9. CacheWhole'
    BY <1>1, <1>2, <1>7
    DEF IInv, TypeOK, SaveCopy, CacheWhole, Whole, Filled, BufWhole
  <1>10. ReadProgress' /\ NoTornRead'
    BY <1>1, ReadersWait DEF IInv, SaveCopy, InLock, ReadProgress, NoTornRead, readVars
  <1>11. StaleBound' /\ KeptUntilLimit'
    BY <1>1, <1>2
    DEF IInv, TypeOK, SaveCopy, StaleBound, KeptUntilLimit, Saving, Value, histVars
  <1> QED
    BY <1>4, <1>5, <1>8, <1>9, <1>10, <1>11 DEF IInv

(* It unlocks: what is in the cache now is what the counter deserves. *)
LEMMA SaveUnlockIInv == ASSUME IInv, SaveUnlock PROVE IInv'
  <1>1. /\ pc = "unlock" /\ reg \in Regs /\ reg' \in Regs /\ pc' \in {"poll", "log"}
        /\ cache[reg] = Null \/ cache[reg] = buf
    BY NextRegisterTyped DEF IInv, TypeOK, SaveUnlock, SaveProgress
  <1>2. TypeOK'
    BY <1>1 DEF IInv, TypeOK, SaveUnlock, Unlock, readVars, histVars
  <1>3. Exclusive'
    BY <1>1, ReadersWait, ThreadsAssumption
    DEF IInv, SaveUnlock, Unlock, Exclusive, InLock, readVars
  <1>4. BufWhole' /\ BufDeserved' /\ CounterExact'
    BY <1>1 DEF IInv, SaveUnlock, BufWhole, BufDeserved, InLock, CounterExact, histVars
  <1>5. CacheWhole' /\ SaveProgress' /\ ReadProgress' /\ NoTornRead'
    BY <1>1 DEF IInv, SaveUnlock, CacheWhole, Whole, Filled, SaveProgress, ReadProgress,
                NoTornRead, readVars
  <1>6. Null # Zero
    BY Blocks DEF Zero, Known
  <1>7. /\ missed[reg] >= MaxFailed => ~Value(reg)
        /\ cache[reg] = Zero => missed[reg] >= MaxFailed
    BY <1>1, <1>6, CounterAssumption DEF IInv, BufDeserved, InLock, Value
  <1>8. StaleBound' /\ KeptUntilLimit'
    BY <1>1, <1>7 DEF IInv, SaveUnlock, StaleBound, KeptUntilLimit, Saving, Value, histVars
  <1> QED
    BY <1>2, <1>3, <1>4, <1>5, <1>8 DEF IInv

-----------------------------------------------------------------------------
(* What a reader does leaves the poller's side alone. *)
LEMMA ReaderStep ==
  ASSUME IInv, UNCHANGED <<pollVars, histVars, cache>>, word'[Poller] = word[Poller]
  PROVE  /\ BufWhole' /\ BufDeserved' /\ CounterExact' /\ CacheWhole'
         /\ SaveProgress' /\ StaleBound' /\ KeptUntilLimit'
  <1>1. BufWhole' /\ BufDeserved' /\ CounterExact'
    BY DEF IInv, BufWhole, BufDeserved, InLock, CounterExact, pollVars, histVars
  <1>2. CacheWhole' /\ SaveProgress'
    BY DEF IInv, CacheWhole, Whole, Filled, SaveProgress, pollVars
  <1>3. StaleBound' /\ KeptUntilLimit'
    BY DEF IInv, StaleBound, KeptUntilLimit, Saving, Value, pollVars, histVars
  <1> QED
    BY <1>1, <1>2, <1>3

(* A reader takes the mutex. *)
LEMMA ReadLockIInv == ASSUME IInv, NEW t \in Readers, ReadLock(t) PROVE IInv'
  <1>1. TypeOK'
    BY DEF IInv, TypeOK, ReadLock, Lock, Threads, pollVars, histVars
  <1>2. Exclusive'
    BY ThreadsAssumption DEF IInv, TypeOK, ReadLock, Lock, Exclusive, pollVars
  <1>3. ReadProgress' /\ NoTornRead'
    BY DEF IInv, TypeOK, ReadLock, ReadProgress, NoTornRead
  <1> QED
    BY <1>1, <1>2, <1>3, ReaderStep DEF IInv, ReadLock

(* A reader with the mutex is alone with the cache. *)
LEMMA ReaderAlone ==
  ASSUME IInv, NEW t \in Readers, rpc[t] # "idle"
  PROVE  /\ mutex = t /\ pc \notin InLock /\ t \in Threads /\ Poller \in Threads /\ t # Poller
         /\ \A u \in Readers \ {t} : rpc[u] = "idle"
  BY ThreadsAssumption DEF IInv, Exclusive, Threads

(* A reader looks the register up. *)
LEMMA LookupIInv == ASSUME IInv, NEW t \in Readers, Lookup(t) PROVE IInv'
  <1>1. rpc[t] = "lookup" /\ rpc' \in [Readers -> {"idle", "lookup", "copy", "unlock"}]
    BY DEF IInv, TypeOK, Lookup
  <1>2. TypeOK'
    <2>1. word' \in [Threads -> 0..Words]
      <3>1. 0 \in 0..Words /\ word \in [Threads -> 0..Words]
        BY TableAssumption DEF IInv, TypeOK
      <3>2. [word EXCEPT ![t] = 0] \in [Threads -> 0..Words]
        BY <3>1
      <3>3. word' = word \/ word' = [word EXCEPT ![t] = 0]
        BY DEF Lookup
      <3> QED
        BY <3>1, <3>2, <3>3
    <2>2. copy' \in [Readers -> [1..Words -> Word] \cup {Null}]
      BY Blocks DEF IInv, TypeOK, Lookup
    <2>3. UNCHANGED <<pc, reg, fails, buf, cache, mutex, want, health, missed, unreached>>
      BY DEF Lookup, pollVars, histVars
    <2>4. TypeOK
      BY DEF IInv
    <2> QED
      BY <1>1, <2>1, <2>2, <2>3, <2>4 DEF TypeOK
  <1>3. Exclusive'
    BY <1>1 DEF IInv, TypeOK, Lookup, Exclusive, pollVars
  <1>4. word'[Poller] = word[Poller]
    BY <1>1, ReaderAlone DEF IInv, TypeOK, Lookup
  <1>5. \A u \in Readers : rpc'[u] # "lookup" /\ (rpc'[u] = "unlock" => copy'[u] = Null)
    <2> SUFFICES ASSUME NEW u \in Readers
                 PROVE  rpc'[u] # "lookup" /\ (rpc'[u] = "unlock" => copy'[u] = Null)
      OBVIOUS
    <2>1. rpc \in [Readers -> {"idle", "lookup", "copy", "unlock"}] /\ copy[t] = Null
      BY <1>1 DEF IInv, TypeOK, ReadProgress
    <2>2. CASE u = t
      BY <2>1, <2>2 DEF Lookup
    <2>3. CASE u # t
      <3>1. rpc[u] = "idle"
        BY <1>1, <2>3, ReaderAlone
      <3>2. rpc'[u] = rpc[u]
        BY <2>1, <2>3 DEF Lookup
      <3> QED
        BY <3>1, <3>2
    <2> QED
      BY <2>2, <2>3
  <1>6. ReadProgress'
    <2> SUFFICES ASSUME NEW u \in Readers, rpc'[u] = "copy"
                 PROVE  /\ word'[u] < Words /\ copy'[u] \in [1..Words -> Word]
                        /\ cache'[want'[u]] # Null
                        /\ \A w \in 1..Words : w <= word'[u] => copy'[u][w] = cache'[want'[u]][w]
      BY <1>5 DEF ReadProgress
    <2>1. u = t
      BY <1>1, ReaderAlone DEF IInv, TypeOK, Lookup
    <2>2. word'[t] = 0 /\ copy'[t] = Block(Dirty) /\ cache[want[t]] # Null
      BY <1>1, <2>1, ReaderAlone DEF IInv, TypeOK, Lookup
    <2> QED
      BY <2>1, <2>2, Blocks, TableAssumption DEF Lookup
  <1>7. NoTornRead'
    BY <1>5 DEF NoTornRead
  <1> QED
    BY <1>2, <1>3, <1>4, <1>6, <1>7, ReaderStep DEF IInv, Lookup

(* It copies a word of a block that does not change meanwhile. *)
LEMMA CopyWordIInv == ASSUME IInv, NEW t \in Readers, CopyWord(t) PROVE IInv'
  <1> DEFINE w == word[t] + 1
  <1>1. /\ rpc[t] = "copy" /\ want[t] \in Regs
        /\ w \in 1..Words /\ word' = [word EXCEPT ![t] = w]
        /\ rpc' = [rpc EXCEPT ![t] = IF w = Words THEN "unlock" ELSE "copy"]
    BY TableAssumption DEF IInv, TypeOK, CopyWord, ReadProgress, Threads
  <1>2. /\ mutex = t /\ pc \notin InLock /\ t \in Threads /\ Poller \in Threads /\ t # Poller
        /\ \A u \in Readers \ {t} : rpc[u] = "idle"
    BY <1>1, ReaderAlone
  <1>3. PICK v \in Known : cache[want[t]] = Block(v)
    BY <1>1, <1>2 DEF IInv, InLock, CacheWhole, Filled, Whole, ReadProgress
  <1>4. Block(v) \in [1..Words -> Word]
    BY Blocks
  <1>5. copy[t] \in [1..Words -> Word] /\ \A i \in 1..Words : i <= word[t] => copy[t][i] = Block(v)[i]
    BY <1>1, <1>3 DEF IInv, ReadProgress
  <1>6. copy' = [copy EXCEPT ![t] = [copy[t] EXCEPT ![w] = Block(v)[w]]]
    BY <1>1, <1>3, <1>4, Blocks DEF CopyWord
  <1>7. copy'[t] \in [1..Words -> Word] /\ \A i \in 1..Words : i <= w => copy'[t][i] = Block(v)[i]
    <2>1. copy'[t] = [copy[t] EXCEPT ![w] = Block(v)[w]] /\ word[t] \in Nat
      BY <1>2, <1>6 DEF IInv, TypeOK
    <2>2. copy'[t] \in [1..Words -> Word]
      BY <1>1, <1>4, <1>5, <2>1
    <2>3. ASSUME NEW i \in 1..Words, i <= w PROVE copy'[t][i] = Block(v)[i]
      <3>1. i = w \/ i <= word[t]
        BY <2>1, <2>3
      <3> QED
        BY <1>1, <1>5, <2>1, <2>3, <3>1
    <2> QED
      BY <2>2, <2>3
  <1>8. TypeOK'
    <2>1. copy' \in [Readers -> [1..Words -> Word] \cup {Null}]
      BY <1>6, <1>7 DEF IInv, TypeOK
    <2>2. word' \in [Threads -> 0..Words]
      <3>1. w \in 0..Words
        BY <1>1
      <3> QED
        BY <1>1, <3>1, ExceptTyped DEF IInv, TypeOK
    <2>3. rpc' \in [Readers -> {"idle", "lookup", "copy", "unlock"}]
      BY <1>1 DEF IInv, TypeOK
    <2> QED
      BY <2>1, <2>2, <2>3 DEF IInv, TypeOK, CopyWord, pollVars, histVars
  <1>9. Exclusive'
    BY <1>1 DEF IInv, TypeOK, CopyWord, Exclusive, pollVars
  <1>10. word'[Poller] = word[Poller] /\ word'[t] = w
    BY <1>1, <1>2 DEF IInv, TypeOK
  <1>11. \A u \in Readers :
           rpc'[u] # "lookup" /\ (rpc'[u] = "unlock" => u = t /\ copy'[t] = Block(v))
    <2>1. \A u \in Readers : rpc'[u] # "lookup" /\ (rpc'[u] = "unlock" => u = t /\ w = Words)
      BY <1>1, <1>2 DEF IInv, TypeOK
    <2>2. w = Words => \A i \in 1..Words : copy'[t][i] = Block(v)[i]
      BY <1>7
    <2>3. w = Words => copy'[t] = Block(v)
      BY <1>4, <1>7, <2>2, Extensional
    <2> QED
      BY <2>1, <2>3
  <1>12. cache' = cache /\ want' = want /\ Block(v) # Null
    BY <1>4, Blocks DEF CopyWord
  <1>13. ReadProgress'
    <2> SUFFICES ASSUME NEW u \in Readers, rpc'[u] = "copy"
                 PROVE  /\ word'[u] < Words /\ copy'[u] \in [1..Words -> Word]
                        /\ cache'[want'[u]] # Null
                        /\ \A i \in 1..Words : i <= word'[u] => copy'[u][i] = cache'[want'[u]][i]
      BY <1>3, <1>11, <1>12 DEF ReadProgress
    <2>1. u = t /\ w # Words
      BY <1>1, <1>2 DEF IInv, TypeOK
    <2> QED
      BY <1>1, <1>3, <1>7, <1>10, <1>12, <2>1, TableAssumption
  <1>14. NoTornRead'
    BY <1>11 DEF NoTornRead, Known
  <1> QED
    BY <1>8, <1>9, <1>10, <1>13, <1>14, ReaderStep DEF IInv, CopyWord

(* It gives the mutex back. *)
LEMMA ReadUnlockIInv == ASSUME IInv, NEW t \in Readers, ReadUnlock(t) PROVE IInv'
  <1>1. TypeOK'
    BY DEF IInv, TypeOK, ReadUnlock, Unlock, pollVars, histVars
  <1>2. Exclusive'
    BY ReaderAlone, ThreadsAssumption
    DEF IInv, TypeOK, ReadUnlock, Unlock, Exclusive, pollVars
  <1>3. ReadProgress' /\ NoTornRead'
    BY DEF IInv, TypeOK, ReadUnlock, ReadProgress, NoTornRead
  <1> QED
    BY <1>1, <1>2, <1>3, ReaderStep DEF IInv, ReadUnlock

-----------------------------------------------------------------------------
(* Every step preserves the invariant. *)
LEMMA NextIInv == IInv /\ [Next]_vars => IInv'
  <1> SUFFICES ASSUME IInv, [Next]_vars PROVE IInv'
    OBVIOUS
  <1>1. CASE Poll
    BY <1>1, OutsideIInv, ReadOkIInv, ReadFailsIInv, SaveLockIInv, SaveFreeIInv,
       SaveMallocIInv, SaveCopyIInv, SaveUnlockIInv DEF Poll
  <1>2. CASE \E t \in Readers : Read(t)
    BY <1>2, ReadLockIInv, LookupIInv, CopyWordIInv, ReadUnlockIInv DEF Read
  <1>3. CASE HealthChanges
    BY <1>3, HealthIInv
  <1>4. CASE UNCHANGED vars
    <2>1. TypeOK' /\ Exclusive' /\ BufWhole' /\ BufDeserved' /\ CounterExact'
      BY <1>4 DEF IInv, TypeOK, Exclusive, BufWhole, BufDeserved, InLock, CounterExact,
                  vars, pollVars, readVars, histVars
    <2>2. CacheWhole' /\ SaveProgress' /\ ReadProgress' /\ NoTornRead'
      BY <1>4 DEF IInv, CacheWhole, Whole, Filled, SaveProgress, ReadProgress, NoTornRead,
                  vars, pollVars, readVars
    <2>3. StaleBound' /\ KeptUntilLimit'
      BY <1>4 DEF IInv, StaleBound, KeptUntilLimit, Saving, Value, vars, pollVars, histVars
    <2> QED
      BY <2>1, <2>2, <2>3 DEF IInv
  <1> QED
    BY <1>1, <1>2, <1>3, <1>4 DEF Next

(* The invariant holds in every reachable state. *)
LEMMA Invariance == Spec => []IInv
  <1>1. Init => IInv
    BY InitIInv
  <1>2. IInv /\ [Next]_vars => IInv'
    BY NextIInv
  <1> QED
    BY <1>1, <1>2, PTL DEF Spec

(* The counters, blocks and threads keep their types; num_failed_requests  *)
(* stays within a uint8_t (components/modbus_tcp_poll.h).                  *)
THEOREM TypeCorrect == Spec => []TypeOK
  <1>1. IInv => TypeOK
    BY DEF IInv
  <1> QED
    BY <1>1, Invariance, PTL

(* However the counter wraps, a value the device has not confirmed for     *)
(* MAX_NUM_FAILED_REQ polls is not in the cache (modbus_tcp_poll.c 236-248).*)
THEOREM StaleBounded == Spec => []StaleBound
  <1>1. IInv => StaleBound
    BY DEF IInv
  <1> QED
    BY <1>1, Invariance, PTL

(* Below the limit a failure leaves the value alone (237-240). *)
THEOREM KeptUntilTheLimit == Spec => []KeptUntilLimit
  <1>1. IInv => KeptUntilLimit
    BY DEF IInv
  <1> QED
    BY <1>1, Invariance, PTL

(* No number of readers and no size of block makes a reader see a mix of   *)
(* two saves, freed memory or memory not yet written (79-127).             *)
THEOREM NoReadIsTorn == Spec => []NoTornRead
  <1>1. IInv => NoTornRead
    BY DEF IInv
  <1> QED
    BY <1>1, Invariance, PTL

-----------------------------------------------------------------------------
(* The refinement of PollCache.  What readers are shown changes only when  *)
(* a save has got its memory or freed the old block.                       *)
LEMMA ShownBlocks == Shown(Null) = Null /\ \A v \in Known : Shown(Block(v)) = v
  <1>1. Shown(Null) = Null
    BY DEF Shown
  <1>2. ASSUME NEW v \in Known PROVE Shown(Block(v)) = v
    BY Blocks DEF Shown, Known
  <1> QED
    BY <1>1, <1>2

(* The cache starts empty, with nobody reading it. *)
LEMMA InitRefines == Init => Cache!Init
  <1> SUFFICES ASSUME Init PROVE Cache!Init
    OBVIOUS
  <1>1. Cached = [r \in Regs |-> Null]
    BY ShownBlocks DEF Init, Cached, Filled
  <1>2. Given = [t \in Readers |-> Null]
    BY ShownBlocks DEF Init, Given
  <1> QED
    BY <1>1, <1>2 DEF Init, Cache!Init

(* Steps that leave the cache to itself show nothing new. *)
LEMMA SameShown ==
  ASSUME UNCHANGED <<cache, readVars>>,
         \/ pc # "copy" /\ pc' # "copy"
         \/ UNCHANGED <<pc, reg, buf>>
  PROVE  Cached' = Cached /\ Given' = Given
  <1>1. Cached' = Cached
    BY DEF Cached, Filled
  <1> QED
    BY <1>1 DEF Given, readVars

(* The polling thread. *)
LEMMA PollRefines == ASSUME IInv, IInv', Poll PROVE [Cache!Next]_(Cache!vars)
  <1>1. CASE Connect \/ ConnectFails \/ NoBuffer \/ SaveLock \/ SaveUnlock \/ PostLog
    <2>1. UNCHANGED <<cache, readVars, missed>> /\ pc # "copy" /\ pc' # "copy"
      BY <1>1 DEF Connect, ConnectFails, NoBuffer, SaveLock, SaveUnlock, PostLog,
             NextRegister, pollVars, histVars
    <2> QED
      BY <2>1, SameShown DEF Cache!vars
  <1>2. CASE ReadOk
    <2>1. UNCHANGED <<cache, readVars>> /\ pc # "copy" /\ pc' # "copy"
      BY <1>2 DEF ReadOk
    <2>2. Cache!Confirm(reg) /\ reg \in Regs
      BY <1>2, <2>1, SameShown DEF IInv, TypeOK, ReadOk, Cache!Confirm
    <2> QED
      BY <2>2 DEF Cache!Next
  <1>3. CASE ReadFails
    <2>1. UNCHANGED <<cache, readVars>> /\ pc # "copy" /\ pc' # "copy"
      BY <1>3 DEF ReadFails, NextRegister
    <2>2. Cache!Miss(reg) /\ reg \in Regs
      BY <1>3, <2>1, SameShown DEF IInv, TypeOK, ReadFails, Capped, Cache!Miss
    <2> QED
      BY <2>2 DEF Cache!Next
  <1>4. CASE SaveFree
    <2>1. reg \in Regs /\ pc = "free" /\ pc' = "malloc" /\ cache' = [cache EXCEPT ![reg] = Null]
          /\ UNCHANGED <<reg, readVars, missed>>
      BY <1>4 DEF IInv, TypeOK, SaveFree, histVars
    <2>2. Cached' = [Cached EXCEPT ![reg] = Null]
      BY <2>1, ShownBlocks DEF IInv, TypeOK, Cached, Filled
    <2>3. Given' = Given
      BY <2>1, ReadersWait DEF InLock, Given, readVars
    <2> QED
      BY <2>1, <2>2, <2>3 DEF Cache!Lose, Cache!Next
  <1>5. CASE SaveMalloc
    <2>1. reg \in Regs /\ pc = "malloc" /\ UNCHANGED <<reg, buf, readVars, missed>>
      BY <1>5 DEF IInv, TypeOK, SaveMalloc, histVars
    <2>2. CASE pc' = "unlock"
      <3>1. UNCHANGED <<cache, readVars, missed>> /\ pc # "copy" /\ pc' # "copy"
        BY <1>5, <2>1, <2>2 DEF SaveMalloc
      <3> QED
        BY <3>1, SameShown DEF Cache!vars
    <2>3. CASE pc' # "unlock"
      <3>1. cache' = [cache EXCEPT ![reg] = Block(Dirty)] /\ pc' = "copy"
        BY <1>5, <2>3 DEF SaveMalloc
      <3>2. PICK v \in Known : buf = Block(v)
        BY DEF IInv, BufWhole
      <3>3. Cached' = [Cached EXCEPT ![reg] = v]
        BY <2>1, <3>1, <3>2, ShownBlocks DEF IInv, TypeOK, Cached, Filled
      <3>4. Given' = Given
        BY <2>1, ReadersWait DEF InLock, Given, readVars
      <3>5. CASE v = 0
        <4>1. missed[reg] >= MaxFailed
          BY <2>1, <3>2, <3>5 DEF IInv, BufDeserved, InLock, Zero
        <4> QED
          BY <2>1, <3>3, <3>4, <3>5, <4>1 DEF Cache!Expire, Cache!Next
      <3>6. CASE v # 0
        <4>1. v \in Versions
          BY <3>6 DEF Known
        <4>2. Block(v) # Zero
          BY <3>6, Blocks DEF Zero, Known
        <4>3. missed[reg] = 0
          BY <2>1, <3>2, <4>2 DEF IInv, BufDeserved, InLock
        <4> QED
          BY <2>1, <3>3, <3>4, <4>1, <4>3 DEF Cache!Store, Cache!Next
      <3> QED
        BY <3>5, <3>6
    <2> QED
      BY <2>2, <2>3
  <1>6. CASE SaveCopy
    <2>1. reg \in Regs /\ pc = "copy" /\ pc' \in {"copy", "unlock"}
          /\ UNCHANGED <<reg, buf, readVars, missed>>
      BY <1>6 DEF IInv, TypeOK, SaveCopy, histVars
    <2>2. cache'[reg] # Null /\ \A r \in Regs \ {reg} : cache'[r] = cache[r]
      <3>1. cache[reg] \in [1..Words -> Word]
            /\ cache' = [cache EXCEPT ![reg] = [cache[reg] EXCEPT ![word[Poller] + 1] = buf[word[Poller] + 1]]]
        BY <1>6, <2>1 DEF IInv, SaveCopy, SaveProgress
      <3>2. word[Poller] + 1 \in 1..Words /\ buf \in [1..Words -> Word]
        <4>1. word[Poller] \in 0..Words /\ word[Poller] < Words
          BY <2>1 DEF IInv, TypeOK, SaveProgress, Threads
        <4>2. word[Poller] + 1 \in 1..Words
          BY <4>1, TableAssumption
        <4> QED
          BY <4>2 DEF IInv, TypeOK
      <3>3. cache'[reg] \in [1..Words -> Word]
        BY <2>1, <3>1, <3>2 DEF IInv, TypeOK
      <3> QED
        BY <3>1, <3>3, Blocks DEF IInv, TypeOK
    <2>3. pc' = "unlock" => cache'[reg] = buf
      BY <2>1, <2>2 DEF IInv, SaveProgress
    <2>4. Cached' = Cached
      BY <2>1, <2>2, <2>3 DEF Cached, Filled
    <2>5. Given' = Given
      BY <2>1, <2>4 DEF Given, readVars
    <2> QED
      BY <2>1, <2>4, <2>5 DEF Cache!vars
  <1> QED
    BY <1>1, <1>2, <1>3, <1>4, <1>5, <1>6 DEF Poll

(* The readers. *)
LEMMA ReadRefines ==
  ASSUME IInv, IInv', NEW t \in Readers, Read(t)
  PROVE  [Cache!Next]_(Cache!vars)
  <1>1. UNCHANGED <<pollVars, histVars, cache>> /\ Cached' = Cached
    BY DEF Read, ReadLock, Lookup, CopyWord, ReadUnlock, Cached, Filled, pollVars
  <1>2. 1 \in Regs /\ want[t] \in Regs
    BY TableAssumption DEF IInv, TypeOK, Regs
  <1>3. CASE ReadLock(t)
    <2>1. Given' = [Given EXCEPT ![t] = Null]
      BY <1>1, <1>3, ShownBlocks DEF IInv, TypeOK, ReadLock, Given
    <2> QED
      BY <1>1, <1>2, <2>1 DEF Cache!Serve, Cache!Next, histVars
  <1>4. CASE Lookup(t)
    <2>1. CASE rpc'[t] = "unlock"
      <3>1. Given' = Given
        BY <1>1, <1>4, <2>1 DEF IInv, TypeOK, Lookup, Given
      <3> QED
        BY <1>1, <3>1 DEF Cache!vars, histVars
    <2>2. CASE rpc'[t] # "unlock"
      <3>1. Given' = [Given EXCEPT ![t] = Cached[want[t]]]
        BY <1>1, <1>4, <2>2 DEF IInv, TypeOK, Lookup, Given
      <3> QED
        BY <1>1, <1>2, <3>1 DEF Cache!Serve, Cache!Next, histVars
    <2> QED
      BY <2>1, <2>2
  <1>5. CASE CopyWord(t)
    <2>1. rpc[t] = "copy" /\ rpc'[t] \in {"copy", "unlock"} /\ UNCHANGED want
          /\ \A u \in Readers \ {t} : rpc'[u] = rpc[u] /\ copy'[u] = copy[u]
      BY <1>5 DEF IInv, TypeOK, CopyWord
    <2>2. pc # "copy"
      BY <2>1, ReaderAlone DEF InLock
    <2>3. Cached[want[t]] = Shown(cache[want[t]])
      BY <1>2, <2>2 DEF Cached, Filled
    <2>4. rpc'[t] = "unlock" => copy'[t] = cache[want[t]]
      <3>1. copy'[t] # Null
        <4>1. copy[t] \in [1..Words -> Word] /\ cache[want[t]] # Null
              /\ word[t] + 1 \in 1..Words
          <5>1. word[t] \in 0..Words
            BY DEF IInv, TypeOK, Threads
          <5>2. word[t] < Words /\ copy[t] \in [1..Words -> Word] /\ cache[want[t]] # Null
            BY <2>1 DEF IInv, ReadProgress
          <5> QED
            BY <5>1, <5>2, TableAssumption
        <4>2. cache[want[t]] \in [1..Words -> Word]
          BY <1>2, <4>1 DEF IInv, TypeOK
        <4>3. copy'[t] = [copy[t] EXCEPT ![word[t] + 1] = cache[want[t]][word[t] + 1]]
          BY <1>5, <4>1 DEF IInv, TypeOK, CopyWord
        <4>4. copy'[t] \in [1..Words -> Word]
          BY <4>1, <4>2, <4>3
        <4> QED
          BY <4>4, Blocks
      <3> QED
        BY <1>1, <2>1, <3>1 DEF IInv, ReadProgress
    <2>5. Given' = Given
      BY <1>1, <2>1, <2>3, <2>4 DEF Given
    <2> QED
      BY <1>1, <2>5 DEF Cache!vars, histVars
  <1>6. CASE ReadUnlock(t)
    <2>1. Given' = Given
      BY <1>1, <1>6 DEF IInv, TypeOK, ReadUnlock, Given
    <2> QED
      BY <1>1, <2>1 DEF Cache!vars, histVars
  <1> QED
    BY <1>3, <1>4, <1>5, <1>6 DEF Read

(* Every step is one of PollCache or leaves it alone. *)
LEMMA NextRefines == IInv /\ IInv' /\ [Next]_vars => [Cache!Next]_(Cache!vars)
  <1> SUFFICES ASSUME IInv, IInv', [Next]_vars PROVE [Cache!Next]_(Cache!vars)
    OBVIOUS
  <1>1. CASE HealthChanges \/ UNCHANGED vars
    <2>1. UNCHANGED <<cache, readVars, missed>> /\ UNCHANGED <<pc, reg, buf>>
      BY <1>1 DEF HealthChanges, vars, pollVars, histVars
    <2> QED
      BY <2>1, SameShown DEF Cache!vars
  <1> QED
    BY <1>1, PollRefines, ReadRefines DEF Next

(* Seen by its readers, the client with its mutex, buffers and word by     *)
(* word copies (79-127, 233-248) is the cache of PollCache, in which each  *)
(* save and each look-up is one step.                                      *)
THEOREM ImplementsPollCache == Spec => Implements
  <1>1. Init => Cache!Init
    BY InitRefines
  <1>2. IInv /\ IInv' /\ [Next]_vars => [Cache!Next]_(Cache!vars)
    BY NextRefines
  <1> QED
    BY <1>1, <1>2, Invariance, PTL DEF Spec, Implements, Cache!Spec

=============================================================================
