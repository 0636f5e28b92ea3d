\* The Huawei table; the device may be up to three requests behind.
\* The process may end (SIGPIPE): no deadlock check.
CONSTANTS
  Quantity <- HuaweiTable
  MinLength = 9
  BufSize = 256
  Cuts <- SomeCuts
  Prompt = 4
  Never = Never
  Mixed = Mixed
SPECIFICATION FairSpec
INVARIANTS TypeOK RightWhenPrompt
PROPERTY CycleEnds
CHECK_DEADLOCK FALSE
