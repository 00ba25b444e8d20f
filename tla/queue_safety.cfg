SPECIFICATION Spec
CONSTANTS
  Sessions = {s1}
  MaxItems = 3
  Tabs = {t1}
  Drainer = Drainer
  KickCap = 1
  MaxCrashes = 1
  MaxRuns = 0
INVARIANTS
  TypeOK
  ClaimedOnce
  DrainedInOrder
  PauseHolds
PROPERTIES
  DeliverySpec
