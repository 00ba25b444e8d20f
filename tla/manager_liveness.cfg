SPECIFICATION FairSpec
CONSTANTS
  Sessions = {s1}
  Calls = {c1, c2}
  Procs = {w1}
  None = None
PROPERTIES
  CallsReturn
  CloseTerminates
