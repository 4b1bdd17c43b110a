SPECIFICATION FairSpec
CONSTANTS
  Appointment = {a1, a2}
  Known = {a1}
  Member = {m1, m2}
  NoMember = NoMember
  MaxLog = 3
  MaxFaults = 2
INVARIANTS AckedWasHandled
PROPERTIES EveryMessageHandled EveryMessageAcked
CHECK_DEADLOCK FALSE
