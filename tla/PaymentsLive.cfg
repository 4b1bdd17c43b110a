SPECIFICATION FairSpec
CONSTANTS
  Bill = {1, 2}
  Pay = {1}
  None = None
  Handler = {h1, h2}
  Deposit = 1
  Total = 2
  MaxRetries = 1
  Failing = {"completed"}
  MaxFaults = 1
PROPERTIES CaptureIsRecorded ServiceIsBilled
CHECK_DEADLOCK FALSE
