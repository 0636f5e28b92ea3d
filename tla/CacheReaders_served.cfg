\* The table of the inverter with all subsets of polled blocks; two neighbours
\* may lose their data again.  Converters: requests at the edges of four blocks.
\* Modbus: two requests, cut and joined at will, the second with an identifier
\* that ends in a function code.
\* Texts: none, short and full ones, with *len at 0, small and about to run over.
CONSTANTS
  Address <- HuaweiAddress
  Quantity <- HuaweiQuantity
  Requests <- EdgeRequests
  Unlucky = {4, 5}
  None = None
  Asked <- TwoAsked
  Functions = {3, 4}
  FirstId = 2
  MaxSent = 2
  Texts <- ShortAndFull
  Leftovers = {0, 3, 65530}
  LenModulus = 65536
SPECIFICATION ReadersSpec
INVARIANTS ReadersTypeOK TypedWithin  AnswersOwn AnswersAll TextsWhole
