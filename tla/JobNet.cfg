SPECIFICATION NetSpec
CONSTANTS
  EgressJobs = {j1, j2, j3, j4}
  Limit = 3
  NoSub = NoSub
SYMMETRY JobSymmetry
INVARIANTS NetTypeOK LeaseAccounting UpTapsDistinct NoTapLeftBehind
PROPERTY PoolSpec
