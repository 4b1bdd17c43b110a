SPECIFICATION Spec
CONSTANTS
  Handler = {h1, h2}
  Email = {e1, e2}
  AdminEmail = e1
  Staff = {}
  MaxRequests = 4
  NoAccount = NoAccount
  Nobody = Nobody
  NoReq = NoReq
INVARIANTS EventsTell StaffAreMade BootstrapIsFirst AdminWhileItRan
CHECK_DEADLOCK FALSE
