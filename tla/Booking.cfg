SPECIFICATION FairSpec
CONSTANTS
  Appt = {1, 2}
  Customer = {c1}
  Vehicle = {v1, v2}
  Hub = {hub1}
  Bay = {1, 2}
  HubOf <- OneHub
  Duration = {1, 2}
  Open <- OpenAt
  Close <- CloseAt
  Handler = {h1, h2}
  MaxTime = 3
  Service = {wash, oil, tyres}
  Minutes <- OneEach
  Active <- AllButOne
  MaxSelection = 3
  SlotStep = 1
  HubDayLimit = 2
  NoHandler = NoHandler
  NoAppt = NoAppt
  NoRow = NoRow
  NoReq = NoReq
INVARIANTS NoBayDoubleBooking NoVehicleDoubleBooking TablesAgree OfferIsBookable
PROPERTIES IsACalendar EveryRequestAnswered
CHECK_DEADLOCK FALSE
