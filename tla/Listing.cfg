SPECIFICATION ListingSpec
CONSTANTS
  MaxId = 3
  Client = {w1, w2}
  Limit = 1
  TTL = 1
  MaxFill = 1
  NoPage = NoPage
SYMMETRY Clients
INVARIANTS WalkIsComplete WalkIsTrue
CHECK_DEADLOCK FALSE
