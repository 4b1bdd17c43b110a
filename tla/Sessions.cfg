SPECIFICATION FairSpec
CONSTANTS
  Handler = {h1, h2}
  Email = {e1}
  Ip = {i1}
  LoginPerIP = 2
  LoginPerEmail = 1
  RegisterPerIP = 1
  MaxRequests = 3
  MaxFaults = 1
  MaxVersions = 2
  NoReq = NoReq
INVARIANTS OneSession EndedForGood ActiveWhileItRan ThrottleHolds
PROPERTY CountersRunOut
CHECK_DEADLOCK FALSE
