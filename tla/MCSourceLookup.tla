--------------------------- MODULE MCSourceLookup ---------------------------
(* Instances of SourceLookup for TLC. *)
EXTENDS SourceLookup, TLC

CONSTANTS r1, r2, r3, r4, k1, i1, i2

\* Requests for one key in one process ...
OneKey == [r \in Request |-> k1]
OneHome == [r \in Request |-> i1]
\* ... or the third of them in another one.
TwoHomes == [r \in Request |-> IF r = r3 THEN i2 ELSE i1]

TtlOne == [k \in Key |-> 1]

Symmetry == Permutations(Request)
=============================================================================
