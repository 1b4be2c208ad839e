SPECIFICATION Spec
CONSTANTS
  d1 = d1
  d2 = d2
  d3 = d3
  j1 = j1
  j2 = j2
  Daemons = {d1, d2, d3}
  Jobs = {j1, j2}
  Owner <- OneEach
  DirErrs = {j1}
  CgroupErrs = {j1}
  TapErrs = {j2}
INVARIANTS TypeOK SweepIsComplete
PROPERTIES LiveVmNotKilled SettledVmKept
CHECK_DEADLOCK FALSE
