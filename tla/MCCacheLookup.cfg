CONSTANTS
  Callers = {c1, c2}
  Times = {1, 2}
  NoFlight = NoFlight
  Absent = Absent
SPECIFICATION FairLookupSpec
INVARIANTS
  CancelledByOwner
PROPERTIES
  GoodValuesStay
  LookupsEnd
CHECK_DEADLOCK FALSE
