SPECIFICATION SSpec
CONSTANTS
  h1 = h1
  h2 = h2
  i1 = i1
  k1 = k1
  Requests = {h1, h2}
  Runnable = {h1, h2}
  Ids = {i1}
  IdOf <- SameId
  MaxConcurrent = 2
  Cancels = {k1}
  NoRequest = NoRequest
  Window = 1
  MaxData = 1
SYMMETRY RequestSymmetry
INVARIANTS CleanBeforeCompletion StreamInOrder
PROPERTIES ResultIsFinal
CHECK_DEADLOCK FALSE
