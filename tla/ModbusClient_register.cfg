\* The documented behaviour, refuted.
CONSTANTS
  Quantity <- HuaweiTable
  MinLength = 9
  BufSize = 256
  Cuts <- SomeCuts
  Prompt = 4
  Never = Never
  Mixed = Mixed
SPECIFICATION Spec
INVARIANT RightRegister
CHECK_DEADLOCK FALSE
