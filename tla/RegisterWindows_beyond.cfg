\* The documented behaviour, refuted.
CONSTANTS
  Address <- HuaweiAddress
  Quantity <- HuaweiQuantity
  Requests <- EdgeRequests
  Unlucky = {}
  None = None
SPECIFICATION Spec
INVARIANT RawWithin
