---------------------------- MODULE UploadQueue ----------------------------
(***************************************************************************)
(* What the solar logger promises, without its ring: samples wait in a     *)
(* bounded FIFO, leave it at the front in chunks that the database holds,  *)
(* and are lost only when the FIFO is full (its oldest sample then makes   *)
(* room for the newest) or in a restart of the process, which life shows:  *)
(* no step within one life of the process empties the FIFO of samples the  *)
(* database does not hold.                                                 *)
(***************************************************************************)
EXTENDS Naturals, SequencesExt

CONSTANTS
  Samples,     \* the measurements, as values that never repeat within the ring
  Capacity,    \* MAX_AMOUNT_OF_CACHED_DATA
  Chunk        \* DEBUG_POST_CHUNK_SIZE

VARIABLES
  queue,       \* samples not yet acknowledged, oldest first
  stored,      \* samples the database holds
  life         \* which life of the process this is, modulo 2

vars == <<queue, stored, life>>

Init == queue = <<>> /\ stored = {} /\ life = 0

Oldest(k) == SubSeq(queue, 1, k)
Drop(k) == SubSeq(queue, k + 1, Len(queue))

(* A new sample; in a full queue it takes the place of the oldest one. *)
Take(s) ==
  /\ s \notin ToSet(queue)
  /\ queue' = Append(IF Len(queue) = Capacity THEN Tail(queue) ELSE queue, s)
  /\ stored' = stored \ {s}
  /\ UNCHANGED life

(* The database stores a chunk of the oldest samples (once or again). *)
Store(k) ==
  /\ k <= Len(queue)
  /\ stored' = stored \cup ToSet(Oldest(k))
  /\ UNCHANGED <<queue, life>>

(* Only a chunk that is stored leaves the queue. *)
Acknowledge(k) ==
  /\ k <= Len(queue)
  /\ ToSet(Oldest(k)) \subseteq stored
  /\ queue' = Drop(k)
  /\ UNCHANGED <<stored, life>>

(* The process ends and starts again: only then is all that waits lost. *)
Lose == queue' = <<>> /\ life' = 1 - life /\ UNCHANGED stored

Next ==
  \/ \E s \in Samples : Take(s)
  \/ \E k \in 1..Chunk : Store(k) \/ Acknowledge(k)
  \/ Lose

Spec == Init /\ [][Next]_vars
=============================================================================
