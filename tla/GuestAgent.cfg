SPECIFICATION AgentFairSpec
CONSTANTS
  stdout = stdout
  stderr = stderr
  c1 = c1
  c2 = c2
  Streams = {stdout, stderr}
  Children = {c1, c2}
  MaxChunks = 2
INVARIANTS AgentTypeOK NoWorkAfterResult ReasonIsTrue
PROPERTIES ResultIsLast ResultFollows
CHECK_DEADLOCK FALSE
