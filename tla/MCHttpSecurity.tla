--------------------------- MODULE MCHttpSecurity ---------------------------
(* An instance of HttpSecurity for TLC. *)
EXTENDS HttpSecurity, TLC

CONSTANTS r1, r2, r3, r4, r5, mcp, metrics, health

\* Three requests for one limited path, one for another, and one for a path
\* without a limit.
Keys == [r \in Request |->
           CASE r = r4 -> metrics [] r = r5 -> health [] OTHER -> mcp]

\* A body of the limit's size, and a larger one.
Sizes == [r \in Request |-> CASE r = r4 -> 3 [] r = r5 -> 2 [] OTHER -> 0]

Symmetry == Permutations({r1, r2, r3})
=============================================================================
