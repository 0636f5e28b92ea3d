--------------------------- MODULE MCCacheReaders ---------------------------
(* Instances of CacheReaders for TLC. *)
EXTENDS CacheReaders, MCRegisterWindows

TwoAsked == {<<37100, 38>>, <<30076, 2>>}
ShortAndFull == {[size |-> 0, nul |-> TRUE], [size |-> 6, nul |-> FALSE],
                 [size |-> 20, nul |-> TRUE], [size |-> 20, nul |-> FALSE]}
=============================================================================
