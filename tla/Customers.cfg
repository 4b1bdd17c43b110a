SPECIFICATION FairSpec
CONSTANTS
  Handler = {h1, h2, h3}
  Email = {e1}
  User = {e1}
  MaxRequests = 5
  NoProfile = NoProfile
  NoReq = NoReq
INVARIANT EventsTell
PROPERTY EveryRequestAnswered
CHECK_DEADLOCK FALSE
