SPECIFICATION Spec
CONSTANTS
  Bill = {1, 2}
  Pay = {1, 2}
  None = None
  Handler = {h1, h2}
  Deposit = 1
  Total = 2
  MaxRetries = 0
  Failing = {}
  MaxFaults = 0
SYMMETRY Threads
INVARIANTS CantPayTwice
CHECK_DEADLOCK FALSE
