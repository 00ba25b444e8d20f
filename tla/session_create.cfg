SPECIFICATION FairSpec
CONSTANTS
  Keys = {k1}
  Requests = {r1, r2, r3}
  Payloads = {plain, prompted}
  WithPrompt = {prompted}
  None = None
  MaxFaults = 2
  MaxCrashes = 1
INVARIANTS
  TypeOK
  AtMostOnce
  RowTruthful
  AnswersTruthful
PROPERTIES
  RowMovesForward
  RowSettles
