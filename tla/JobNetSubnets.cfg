SPECIFICATION NetSpec
CONSTANTS
  EgressJobs = {j1, j2}
  Limit = 128
  NoSub = NoSub
INVARIANT UniqueSubnets
SYMMETRY JobSymmetry
