SPECIFICATION SFairSpec
CONSTANTS
  h1 = h1
  h2 = h2
  i1 = i1
  Requests = {h1, h2}
  Runnable = {h1, h2}
  Ids = {i1}
  IdOf <- SameId
  MaxConcurrent = 1
  Cancels = {}
  NoRequest = NoRequest
  Window = 1
  MaxData = 1
INVARIANTS TypeOK SlotsAccounted
PROPERTIES ClientReturns HandlerEnds
CHECK_DEADLOCK FALSE
