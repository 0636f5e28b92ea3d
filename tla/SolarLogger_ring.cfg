\* More slots than a chunk: wraps, partial uploads, overtaking.
CONSTANTS
  N = 4
  Chunk = 2
  Stamps = 5
  NoTs = NoTs
  Forces <- AnyForce
SPECIFICATION FairSpec
INVARIANTS TypeOK WindowExact LoopFindsPending RingInOrder
PROPERTIES Refines BacklogDrains
