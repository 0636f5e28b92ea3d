----------------------------- MODULE ModbusPoll -----------------------------
(***************************************************************************)
(* One polling client of components/modbus_tcp_poll/modbus_tcp_poll.c: its *)
(* thread, the cached blocks behind data_mutex and the threads that read   *)
(* them (Modbus server clients, HTTP handlers).  A block is copied word by *)
(* word; the device and the memory are the environment.                    *)
(***************************************************************************)
EXTENDS Naturals

CONSTANTS
  NumRegisters,   \* entries of the register table
  MaxFailed,      \* MAX_NUM_FAILED_REQ
  CounterSize,    \* num_failed_requests is a uint8_t: 2^8
  Words,          \* words of a block
  Versions,       \* what the device may report
  Readers,        \* reading threads
  Poller, Free,   \* the polling thread; nobody (holders of the mutex)
  Null, Dirty     \* no block; a word of memory not yet written

ASSUME TableAssumption == NumRegisters \in Nat \ {0} /\ Words \in Nat \ {0}
ASSUME CounterAssumption ==
  MaxFailed \in Nat \ {0} /\ CounterSize \in Nat /\ CounterSize >= MaxFailed
ASSUME VersionsAssumption == Versions \subseteq Nat \ {0}
ASSUME ThreadsAssumption == Poller \notin Readers /\ Free \notin Readers \cup {Poller}
Regs == 1..NumRegisters
Word == Versions \cup {0, Dirty}
ASSUME MarksAssumption == Dirty \notin Nat /\ Null \notin [1..Words -> Word]
Block(v) == [w \in 1..Words |-> v]
Zero == Block(0)

VARIABLES
  pc,        \* where the polling thread is
  reg,       \* the register it polls
  fails,     \* num_failed_requests
  buf,       \* the block to be saved
  cache,     \* poll_data[r].data
  mutex,     \* data_mutex
  word,      \* words copied so far, by the poller and by each reader
  rpc,       \* where each reader is
  want,      \* the register each reader asks for
  copy,      \* what each reader has copied
  health,    \* environment: device and memory are "good" or "bad"
  missed,    \* history: polls of r failed in a row, up to MaxFailed
  unreached  \* history: missed, counting failed connects as well

pollVars == <<pc, reg, fails, buf>>
readVars == <<rpc, want, copy>>
histVars == <<missed, unreached>>
vars == <<pollVars, readVars, histVars, cache, mutex, word, health>>

Threads == Readers \cup {Poller}

Init ==
  /\ pc = "connect" /\ reg = 1 /\ buf = Zero
  /\ fails = [r \in Regs |-> 0]
  /\ cache = [r \in Regs |-> Null]
  /\ mutex = Free
  /\ word = [t \in Threads |-> 0]
  /\ rpc = [t \in Readers |-> "idle"]
  /\ want = [t \in Readers |-> 1]
  /\ copy = [t \in Readers |-> Null]
  /\ health \in {"good", "bad"}
  /\ missed = [r \in Regs |-> 0]
  /\ unreached = [r \in Regs |-> 0]

Capped(n) == IF n < MaxFailed THEN n + 1 ELSE n

-----------------------------------------------------------------------------
(* data_mutex *)
\* mutant: the lock is not taken
LockIgnored(t) == UNCHANGED mutex
Lock(t) == mutex = Free /\ mutex' = t
\* mutant: returning without unlocking when malloc has failed
UnlockUnlessEmpty(t) ==
  IF t = Poller /\ cache[reg] = Null THEN UNCHANGED mutex ELSE mutex' = Free
Unlock(t) == mutex' = Free

-----------------------------------------------------------------------------
(* polling_thread *)
Connect ==
  /\ pc = "connect"
  /\ pc' = "poll" /\ reg' = 1
  /\ UNCHANGED <<fails, buf, cache, mutex, word, readVars, health, histVars>>

(* The thread sleeps and tries again; registers and cache stay untouched. *)
ConnectFails ==
  /\ pc = "connect" /\ health = "bad"
  /\ unreached' = [r \in Regs |-> Capped(unreached[r])]
  /\ UNCHANGED <<pollVars, readVars, cache, mutex, word, health, missed>>

(* After the last register: disconnect, then the log entry. *)
\* mutant: one register too many
NextRegisterOff ==
  IF reg <= NumRegisters THEN reg' = reg + 1 /\ pc' = "poll"
  ELSE reg' = reg /\ pc' = "log"
NextRegister ==
  IF reg < NumRegisters THEN reg' = reg + 1 /\ pc' = "poll"
  ELSE reg' = reg /\ pc' = "log"

(* calloc fails: the register is skipped. *)
NoBuffer ==
  /\ pc = "poll" /\ health = "bad"
  /\ NextRegister
  /\ UNCHANGED <<fails, buf, cache, mutex, word, readVars, health, histVars>>

\* mutant: a success does not reset the counter
SuccessKeeps(f) == f
Success(f) == 0

ReadOk ==
  /\ pc = "poll"
  /\ \E v \in Versions : buf' = Block(v)
  /\ fails' = [fails EXCEPT ![reg] = Success(@)]
  /\ missed' = [missed EXCEPT ![reg] = 0]
  /\ unreached' = [unreached EXCEPT ![reg] = 0]
  /\ pc' = "lock"
  /\ UNCHANGED <<reg, cache, mutex, word, readVars, health>>

\* mutant: one retry too many
RetryOneMore(f) == f < MaxFailed
Retry(f) == f < MaxFailed - 1

(* Below the limit the cached value stays; from the limit on it is zeroed. *)
ReadFails ==
  /\ pc = "poll" /\ health = "bad"
  /\ fails' = [fails EXCEPT ![reg] = (@ + 1) % CounterSize]
  /\ missed' = [missed EXCEPT ![reg] = Capped(@)]
  /\ unreached' = [unreached EXCEPT ![reg] = Capped(@)]
  /\ IF Retry(fails[reg])
     THEN NextRegister /\ UNCHANGED buf
     ELSE buf' = Zero /\ pc' = "lock" /\ UNCHANGED reg
  /\ UNCHANGED <<cache, mutex, word, readVars, health>>

(* modbus_tcp_save_poll_data: lock, free, malloc, memcpy, unlock. *)
SaveLock ==
  /\ pc = "lock"
  /\ Lock(Poller)
  /\ pc' = "free"
  /\ UNCHANGED <<reg, fails, buf, cache, word, readVars, health, histVars>>

SaveFree ==
  /\ pc = "free"
  /\ cache' = [cache EXCEPT ![reg] = Null]
  /\ pc' = "malloc"
  /\ UNCHANGED <<reg, fails, buf, mutex, word, readVars, health, histVars>>

SaveMalloc ==
  /\ pc = "malloc"
  /\ \/ /\ cache' = [cache EXCEPT ![reg] = Block(Dirty)]
        /\ word' = [word EXCEPT ![Poller] = 0]
        /\ pc' = "copy"
     \/ /\ health = "bad"       \* no memory: the block stays empty
        /\ pc' = "unlock" /\ UNCHANGED <<cache, word>>
  /\ UNCHANGED <<reg, fails, buf, mutex, readVars, health, histVars>>

SaveCopy ==
  LET w == word[Poller] + 1
  IN  /\ pc = "copy"
      /\ cache' = [cache EXCEPT ![reg][w] = buf[w]]
      /\ word' = [word EXCEPT ![Poller] = w]
      /\ pc' = IF w = Words THEN "unlock" ELSE "copy"
      /\ UNCHANGED <<reg, fails, buf, mutex, readVars, health, histVars>>

SaveUnlock ==
  /\ pc = "unlock"
  /\ Unlock(Poller)
  /\ NextRegister
  /\ UNCHANGED <<fails, buf, cache, word, readVars, health, histVars>>

(* The Huawei thread reads all cached values and posts them to the logger, *)
(* whatever the reads of this cycle brought; then it sleeps.               *)
PostLog ==
  /\ pc = "log"
  /\ pc' = "connect"
  /\ UNCHANGED <<reg, fails, buf, cache, mutex, word, readVars, health, histVars>>

-----------------------------------------------------------------------------
(* modbus_tcp_get_poll_data(_raw): lock, look up, copy, unlock.            *)
ReadLock(t) ==
  /\ rpc[t] = "idle"
  /\ Lock(t)
  /\ \E r \in Regs : want' = [want EXCEPT ![t] = r]
  /\ rpc' = [rpc EXCEPT ![t] = "lookup"]
  /\ copy' = [copy EXCEPT ![t] = Null]
  /\ UNCHANGED <<pollVars, histVars, cache, word, health>>

Lookup(t) ==
  /\ rpc[t] = "lookup"
  /\ \/ \* nothing saved, or no memory for the answer
        /\ cache[want[t]] = Null \/ health = "bad"
        /\ rpc' = [rpc EXCEPT ![t] = "unlock"]
        /\ UNCHANGED <<word, copy>>
     \/ /\ cache[want[t]] # Null
        /\ rpc' = [rpc EXCEPT ![t] = "copy"]
        /\ word' = [word EXCEPT ![t] = 0]
        /\ copy' = [copy EXCEPT ![t] = Block(Dirty)]
  /\ UNCHANGED <<pollVars, histVars, want, cache, mutex, health>>

(* Reading a block that was freed meanwhile brings anything: Dirty. *)
CopyWord(t) ==
  LET w == word[t] + 1
      block == cache[want[t]]
  IN  /\ rpc[t] = "copy"
      /\ copy' = [copy EXCEPT ![t][w] = IF block = Null THEN Dirty ELSE block[w]]
      /\ word' = [word EXCEPT ![t] = w]
      /\ rpc' = [rpc EXCEPT ![t] = IF w = Words THEN "unlock" ELSE "copy"]
      /\ UNCHANGED <<pollVars, histVars, want, cache, mutex, health>>

ReadUnlock(t) ==
  /\ rpc[t] = "unlock"
  /\ Unlock(t)
  /\ rpc' = [rpc EXCEPT ![t] = "idle"]
  /\ UNCHANGED <<pollVars, histVars, want, copy, cache, word, health>>

-----------------------------------------------------------------------------
HealthChanges ==
  /\ health' = IF health = "good" THEN "bad" ELSE "good"
  /\ UNCHANGED <<pollVars, readVars, histVars, cache, mutex, word>>

Poll == \/ Connect \/ ConnectFails \/ NoBuffer \/ ReadOk \/ ReadFails
        \/ SaveLock \/ SaveFree \/ SaveMalloc \/ SaveCopy \/ SaveUnlock \/ PostLog
Read(t) == ReadLock(t) \/ Lookup(t) \/ CopyWord(t) \/ ReadUnlock(t)

Next == Poll \/ (\E t \in Readers : Read(t)) \/ HealthChanges

Spec == Init /\ [][Next]_vars

(* Sleeps and socket calls end (3 s timeouts), a thread inside the lock    *)
(* runs on, and the mutex is not withheld from the poller forever: readers *)
(* go through a network round trip between two reads.                      *)
Fairness ==
  /\ WF_vars(Poll) /\ SF_vars(SaveLock)
  /\ \A t \in Readers : WF_vars(Lookup(t) \/ CopyWord(t) \/ ReadUnlock(t))
FairSpec == Spec /\ Fairness

-----------------------------------------------------------------------------
(* Type invariant. *)
TypeOK ==
  /\ pc \in {"connect", "poll", "lock", "free", "malloc", "copy", "unlock", "log"}
  /\ reg \in Regs
  /\ fails \in [Regs -> 0..(CounterSize - 1)]
  /\ buf \in [1..Words -> Word]
  /\ cache \in [Regs -> [1..Words -> Word] \cup {Null}]
  /\ mutex \in Threads \cup {Free}
  /\ word \in [Threads -> 0..Words]
  /\ rpc \in [Readers -> {"idle", "lookup", "copy", "unlock"}]
  /\ want \in [Readers -> Regs]
  /\ copy \in [Readers -> [1..Words -> Word] \cup {Null}]
  /\ health \in {"good", "bad"}
  /\ missed \in [Regs -> 0..MaxFailed]
  /\ unreached \in [Regs -> 0..MaxFailed]

Saving(r) == reg = r /\ pc \in {"lock", "free", "malloc", "copy", "unlock"}
Value(r) == cache[r] # Null /\ cache[r] # Zero

(* A value the device has not confirmed for MAX_NUM_FAILED_REQ polls is    *)
(* gone, also after num_failed_requests has run over (236-248).            *)
StaleBound == \A r \in Regs : missed[r] >= MaxFailed /\ ~Saving(r) => ~Value(r)

(* Fewer failures than that never zero a value (237-240). *)
KeptUntilLimit == \A r \in Regs : cache[r] = Zero /\ ~Saving(r) => missed[r] >= MaxFailed

(* A reader's copy is one saved block, never a mix of two saves, freed     *)
(* memory or memory not yet filled (79-100, 103-127).                      *)
NoTornRead ==
  \A t \in Readers : rpc[t] = "unlock" =>
    copy[t] = Null \/ \E v \in Versions \cup {0} : copy[t] = Block(v)

(* When the device answers again, every register gets a value again and    *)
(* keeps it, whatever the counters ran up to meanwhile and however often   *)
(* readers hold the mutex.                                                 *)
Recovers == <>[](health = "good") => <>[](\A r \in Regs : ~Saving(r) => Value(r))

(* The client implements the cache of PollCache: to all who read it, a     *)
(* save (79-100) is one step that takes effect once memory is there, and a *)
(* look-up (103-127) is one step, too.  A block that is being filled shows *)
(* what is to be in it; what a reader has copied only in part shows what   *)
(* the block holds.                                                        *)
Filled(r) == reg = r /\ pc = "copy"
Shown(block) ==
  IF block = Null THEN Null
  ELSE IF \E v \in Versions \cup {0} : block = Block(v) THEN block[1] ELSE Dirty
Cached == [r \in Regs |-> Shown(IF Filled(r) THEN buf ELSE cache[r])]
Given == [t \in Readers |-> IF rpc[t] = "copy" THEN Cached[want[t]] ELSE Shown(copy[t])]
Cache == INSTANCE PollCache WITH
  Registers <- Regs, Reported <- Versions, Limit <- MaxFailed, Clients <- Readers,
  Nothing <- Null, value <- Cached, served <- Given
Implements == Cache!Spec

(* service_caching.png: a failed connect counts as a failed poll of every  *)
(* register.  In the code only failed reads count.                         *)
StaleBoundUnreached ==
  \A r \in Regs : unreached[r] >= MaxFailed /\ ~Saving(r) => ~Value(r)
=============================================================================
