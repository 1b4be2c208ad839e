SPECIFICATION Spec
CONSTANTS
  h1 = h1
  h2 = h2
  i1 = i1
  k1 = k1
  Requests = {h1, h2}
  Runnable = {h1, h2}
  Ids = {i1}
  IdOf <- SameId
  Cancels = {k1}
  NoRequest = NoRequest
  Modes = {"auto", "restricted", "microvm", "unknown"}
  MaxConcurrent = 2
  Window = 6
  MaxData = 1
SYMMETRY RequestSymmetry
CONSTRAINT OneInterferes
INVARIANTS TypeOK CleanExit
PROPERTIES RestrictedSpec
CHECK_DEADLOCK FALSE
