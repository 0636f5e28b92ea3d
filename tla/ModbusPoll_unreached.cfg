\* The documented behaviour, refuted.
CONSTANTS
  NumRegisters = 2
  MaxFailed = 3
  CounterSize = 4
  Words = 1
  Versions <- OneVersion
  Readers = {r1}
  Poller = Poller
  Free = Free
  Null = Null
  Dirty = Dirty
SPECIFICATION Spec
INVARIANT StaleBoundUnreached
