--------------------------- MODULE SourceContract ---------------------------
(***************************************************************************)
(* What the cached lookup of a source promises its callers in one process: *)
(* every lookup is one atomic step on the last known answer of the source. *)
(* There is no lock, no call in progress and no cache deadline: only the   *)
(* data the source holds, what was last fetched of it and when.            *)
(***************************************************************************)
EXTENDS Integers

CONSTANTS
    Request, Key, KeyOf,
    Fresh,     \* Fresh[k]: how long an answer for k is served as fresh
    StaleFor,  \* how much longer it may stand in for a failed fetch
    None

VARIABLES
    now,      \* the clock
    upstream, \* upstream[k]: the version the source of k holds
    known,    \* known[k]: the last fetched [value, fetchedAt] of k, or None
    answer    \* answer[r]: what r returned, or None

vars == <<now, upstream, known, answer>>

Age(k) == now - known[k].fetchedAt

IsFresh(k) == known[k] # None /\ Age(k) <= Fresh[k]

IsStale(k) ==
    /\ known[k] # None
    /\ Fresh[k] < Age(k)
    /\ Age(k) <= Fresh[k] + StaleFor

Init ==
    /\ now = 0
    /\ upstream = [k \in Key |-> 0]
    /\ known = [k \in Key |-> None]
    /\ answer = [r \in Request |-> None]

\* A request answers once.
Return(r, status, success, v, at, age) ==
    /\ answer[r] = None
    /\ answer' = [answer EXCEPT ![r] =
                    [status |-> status, success |-> success, value |-> v,
                     fetchedAt |-> at, staleness |-> age]]

\* Fresh data is served with the time it was fetched.
ServeFresh(r) ==
    LET k == KeyOf[r] IN
    /\ IsFresh(k)
    /\ Return(r, "HIT", TRUE, known[k].value, known[k].fetchedAt, Age(k))
    /\ UNCHANGED <<now, upstream, known>>

\* A fetch brings data that is no older than what was known, and only after
\* what was known had expired.
Refresh(r, v, at) ==
    LET k == KeyOf[r] IN
    /\ v <= upstream[k]
    /\ at <= now
    /\ known[k] # None => /\ at > known[k].fetchedAt + Fresh[k]
                          /\ v >= known[k].value
    /\ known' = [known EXCEPT ![k] = [value |-> v, fetchedAt |-> at]]
    /\ Return(r, "MISS", TRUE, v, at, 0)
    /\ UNCHANGED <<now, upstream>>

\* After a failed fetch expired data stands in, marked as such.
ServeStale(r) ==
    LET k == KeyOf[r] IN
    /\ IsStale(k)
    /\ Return(r, "STALE", FALSE, known[k].value, known[k].fetchedAt, Age(k))
    /\ UNCHANGED <<now, upstream, known>>

\* A failed fetch leaves no data only if none within the windows is known.
ServeEmpty(r) ==
    LET k == KeyOf[r] IN
    /\ ~IsFresh(k) /\ ~IsStale(k)
    /\ known' = [known EXCEPT ![k] = None]
    /\ Return(r, "MISS", FALSE, None, now, 0)
    /\ UNCHANGED <<now, upstream>>

\* Data past both windows may be forgotten, and no other.
Forget(k) ==
    /\ ~IsFresh(k) /\ ~IsStale(k)
    /\ known' = [known EXCEPT ![k] = None]
    /\ UNCHANGED <<now, upstream, answer>>

Tick ==
    /\ now' = now + 1
    /\ UNCHANGED <<upstream, known, answer>>

UpstreamChanges(k) ==
    /\ upstream' = [upstream EXCEPT ![k] = @ + 1]
    /\ UNCHANGED <<now, known, answer>>

Next ==
    \/ \E r \in Request :
         \/ ServeFresh(r)
         \/ \E v \in 0 .. upstream[KeyOf[r]], at \in 0 .. now : Refresh(r, v, at)
         \/ ServeStale(r)
         \/ ServeEmpty(r)
    \/ \E k \in Key : Forget(k) \/ UpstreamChanges(k)
    \/ Tick

Spec == Init /\ [][Next]_vars
=============================================================================
