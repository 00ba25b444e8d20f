SPECIFICATION FairSpec
CONSTANTS
  Sessions = {s1, s2}
  MaxItems = 1
  Tabs = {}
  Drainer = Drainer
  KickCap = 1
  MaxCrashes = 1
  MaxRuns = 1
PROPERTIES
  QueueDrains
