SPECIFICATION Spec
CONSTANTS
  NoRun = NoRun
  Runs = {r1}
  Ids = {a}
  IdOf <- SameId
  Rooted = {r1}
  Egress = {r1}
  Killers = {}
  GuestReasons = {"completed"}
  MaxFrames = 1
INVARIANT VmStateRemoved
CHECK_DEADLOCK FALSE
