SPECIFICATION FairProcessSpec
CONSTANTS
  Replica = {r1, r2}
  Service = {"identity", "vehicle", "scheduler"}
  Last = 2
  MaxRequests = 1
  MaxStarts = 2
  NoReplica = NoReplica
INVARIANTS UsesWhatIsOpen SchemaIsReady
PROPERTIES ShutsDown
CHECK_DEADLOCK FALSE
