SPECIFICATION CgSpec
CONSTANTS
  CgSessions = {s1, s2}
  CgBudget = 3
INVARIANTS
  CgRecovered
CHECK_DEADLOCK FALSE
