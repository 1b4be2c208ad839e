SPECIFICATION Spec
CONSTANTS
  NoRun = NoRun
  Runs = {r1, r2}
  Ids = {a}
  IdOf <- SameId
  Rooted = {r1, r2}
  Egress = {r2}
  Killers = {k1}
  GuestReasons = {"completed", "timeout"}
  MaxFrames = 1
INVARIANTS TypeOK OneRunPerId NamesKept NoDebris VmConfined
PROPERTIES KillHitsItsRun ExecutorSpec
CHECK_DEADLOCK FALSE
