SPECIFICATION FairSpec
CONSTANTS
  Handler = {h1, h2}
  Customer = {c1, c2}
  Day = {0, 1}
  Today = 0
  EndDate = {w1}
  NoWarranty = NoWarranty
  Keep = Keep
  MaxRequests = 4
  NoCustomer = NoCustomer
  NoVehicle = NoVehicle
  NoDay = NoDay
  NoReq = NoReq
INVARIANTS OwnersInTurn OwnersTold ChangesTold
PROPERTIES ScrappedIsFinal IsATitle EveryRequestAnswered
CHECK_DEADLOCK FALSE
