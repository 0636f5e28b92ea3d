\* One day of two events, at which the daily energy may wrap; polls of the
\* inverter's block may fail; CAN_EZ3 may not be started.
CONSTANTS
  Days <- OneDay
  Failing <- InverterBlock
  Startable = {"HUAWEI", "NRGKICK"}
  Modulus = 16
  ThreePhase = TRUE
  None = None
  Zeroed = Zeroed
  Garbage = Garbage
  Unread = Unread
  Mixed = Mixed
  Nobody = Nobody
SPECIFICATION Spec
INVARIANTS TypeOK Complete LoggedCoherent DailyPvLogged StatusBytesOwn PhasesShown
