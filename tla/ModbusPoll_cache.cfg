\* Two registers, one reader that may ask without end, a counter that runs
\* over after four failures.
CONSTANTS
  NumRegisters = 2
  MaxFailed = 3
  CounterSize = 4
  Words = 2
  Versions <- TwoVersions
  Readers = {r1}
  Poller = Poller
  Free = Free
  Null = Null
  Dirty = Dirty
SPECIFICATION FairSpec
INVARIANTS TypeOK StaleBound KeptUntilLimit NoTornRead
PROPERTIES Recovers Implements
