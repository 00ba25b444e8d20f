SPECIFICATION Spec
CONSTANTS
  Sessions = {s1}
  MaxItems = 2
  Tabs = {}
  Drainer = Drainer
  KickCap = 1
  MaxCrashes = 0
  MaxRuns = 0
INVARIANTS
  OneDispatchAtATime
