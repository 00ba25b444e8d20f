SPECIFICATION Spec
CONSTANTS
  PiCalls = {c1, c2}
  PiBoot = boot
  PiOps = {"prompt", "set_model", "abort"}
  PiMaxLines = 2
  CcCalls = {d1}
  CcNested = nested
  CcMaxNotes = 2
  CxCalls = {c1, c2}
  CxOps = {"prompt", "abort", "set_model"}
  CxTurns = {t1, t2}
  CxItems = {i1}
  CxMaxNotes = 1
  ClPrompts = {c1, c2}
  ClAborts = {a1}
  ClMaxExtra = 2
  OcCalls = {c1, c2}
  OcOps = {"prompt", "abort", "get_state"}
  OcCap = 2
  OcMaxEvents = 2
INVARIANTS
  WorkersTypeOK
  CallsAnswered
  TurnsSettle
  ShownIsNewest
  ClInterruptAfterPrompt
PROPERTIES
  NeverBack
  CxLiveTurnKept
SYMMETRY Symmetry
CHECK_DEADLOCK FALSE
