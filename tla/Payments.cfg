SPECIFICATION Spec
CONSTANTS
  Bill = {1}
  Pay = {1, 2}
  None = None
  Handler = {h1, h2}
  Deposit = 1
  Total = 2
  MaxRetries = 0
  Failing = {"cancelled"}
  MaxFaults = 1
SYMMETRY Threads
INVARIANTS BillFollowsMoney AnnouncedOnce FinalIsTrue
PROPERTY IsALedger
CHECK_DEADLOCK FALSE
