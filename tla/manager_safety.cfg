SPECIFICATION Spec
CONSTANTS
  Sessions = {s1}
  Calls = {c1, c2, c3}
  Procs = {w1, w2}
  None = None
SYMMETRY Symmetry
VIEW Relevant
INVARIANTS
  TypeOK
  ReservationsAccounted
  ReservedWorkerSpared
  OneWorkerPerSession
  NoWorkerLeaked
  CloseLeavesNothing
