--------------------------- MODULE MCServerRecords ---------------------------
(* Instances of ServerRecords for TLC.  The two sessions (or paths) and the two   *)
(* calls (or tasks) of every part are the same model values and interchangeable.  *)
EXTENDS ServerRecords, TLC

CONSTANTS a, b, c1, c2

Word(w) == [word |-> w, number |-> 0]
Number(n) == [word |-> 0, number |-> n]

\* 1.2.0-beta.9, 1.2.0-beta.10, a late 1.1.1 of the line before, 1.2.0
Versions == <<
  [core |-> <<1, 2, 0>>, pre |-> <<Word(1), Number(9)>>],
  [core |-> <<1, 2, 0>>, pre |-> <<Word(1), Number(10)>>],
  [core |-> <<1, 1, 1>>, pre |-> <<>>],
  [core |-> <<1, 2, 0>>, pre |-> <<>>]>>

Symmetry == Permutations({a, b}) \cup Permutations({c1, c2})
=============================================================================
