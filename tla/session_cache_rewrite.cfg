SPECIFICATION ScSpec
CONSTANTS
  ScCalls = {c1, c2}
  ScPaths = {a}
  ScLines = 3
  ScEdits = 3
  ScKinds = {"replaced"}
INVARIANTS
  ScExtendsOnlyAppends
CHECK_DEADLOCK FALSE
