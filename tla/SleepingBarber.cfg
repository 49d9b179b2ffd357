SPECIFICATION FairSpec
CONSTANTS
  NumCustomers = 4
  MaxFreeSeats = 2
INVARIANTS
  SeatsExclusive
  Accounted
PROPERTIES
  AllLeave
CHECK_DEADLOCK FALSE
