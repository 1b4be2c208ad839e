SPECIFICATION FairSpec
CONSTANTS
  NoRun = NoRun
  Runs = {r1, r2}
  Ids = {a}
  IdOf <- SameId
  Rooted = {r1}
  Egress = {r1}
  Killers = {k1}
  GuestReasons = {"completed"}
  MaxFrames = 2
PROPERTIES RunEnds VmStops KillEnds
CHECK_DEADLOCK FALSE
