--------------------------- MODULE MCSingleFlight ---------------------------
(***************************************************************************)
(* docs/architecture.md says that concurrent misses of one key are merged  *)
(* into one flight.  To ask that of the lookups that wait for one that     *)
(* fails, joined[r] records who was in line when r joined it.              *)
(***************************************************************************)
EXTENDS SourceLookup

CONSTANTS r1, r2, r3, k1, i1

OneKey == [r \in Request |-> k1]
OneHome == [r \in Request |-> i1]
TtlOne == [k \in Key |-> 1]

VARIABLE joined

HistoryInit == Init /\ joined = [r \in Request |-> {}]

HistoryNext ==
    /\ Next
    /\ joined' = [r \in Request |->
                    IF pc[r] = "start" /\ pc'[r] = "queued"
                    THEN ahead'[r]
                    ELSE joined[r]]

HistorySpec == HistoryInit /\ [][HistoryNext]_<<vars, joined>>

CallsUpstream(r) ==
    \/ pc[r] \in Holding
    \/ pc[r] = "done" /\ answer[r].status # "HIT"

\* Concurrent misses share one call: a request that waited for another one's
\* call to come back, well or badly, makes none of its own.
WaitersShareTheCall ==
    \A r, q \in Request :
        q \in joined[r] /\ pc[q] = "done" => ~CallsUpstream(r)
=============================================================================
