SPECIFICATION FairSpec
CONSTANTS
  Id = {1, 2, 3}
  Key = {k1, k2}
  NoKey = NoKey
  Relay = {r1, r2}
  Batch = 2
  MaxFaults = 1
INVARIANT MarkedWasSent
PROPERTIES IsAKeyedLog EveryRowPublished
CHECK_DEADLOCK FALSE
