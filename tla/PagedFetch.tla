----------------------------- MODULE PagedFetch -----------------------------
(***************************************************************************)
(* The fetch of the elevator status source: one call for the first page,   *)
(* then one call for each further page through gather_limited, and each    *)
(* call with the retries of the HTTP adapter.  The key lock of the cached  *)
(* lookup lets one fetch start after the other; the page calls of a fetch  *)
(* that failed may still be running then.                                  *)
(*                                                                         *)
(* The rows of the source are numbered in the order it lists them.  It     *)
(* appends rows and drops the oldest one, while pages are read.            *)
(***************************************************************************)
EXTENDS Integers, FiniteSets, Sequences

CONSTANTS
    Fetch,       \* the calls of ElevatorStatusClient.fetch
    StartIndex,  \* api_default_start_index
    EndIndex,    \* api_default_end_index
    Retries,     \* http_max_retries
    Limit,       \* public_api_page_concurrency
    MaxRows,     \* bound on the rows the source ever lists
    None         \* no total, no page, no result, no error

ASSUME PagingAssumption ==
    /\ StartIndex \in Nat \ {0}
    /\ EndIndex \in Nat \ {0}
    /\ Retries \in Nat
    /\ Limit \in Int
    /\ MaxRows \in Nat
    /\ IsFiniteSet(Fetch)

VARIABLES
    source,   \* the first and the last row the source lists
    phase,    \* phase[f]: where fetch f is
    total,    \* total[f]: the list_total_count of f's first page, or None
    call,     \* call[f][p]: where the call for page p of f is; 0 is the first
    attempt,  \* attempt[f][p]: the HTTP requests made for it
    page,     \* page[f][p]: the rows it brought, or None
    reason,   \* reason[f][p]: why the call failed, or None
    error,    \* error[f]: the reason of the PublicApiError f raised, or None
    result,   \* result[f]: the rows f returned, or None
    counted   \* the successful and failed calls in the metrics

vars == <<source, phase, total, call, attempt, page, reason, error, result,
          counted>>

Slots == IF Limit < 1 THEN 1 ELSE Limit

PageSize == IF EndIndex < StartIndex THEN 1 ELSE EndIndex - StartIndex + 1

\* The pages after the first one that n rows take.
FurtherPages(n) ==
    IF n = None \/ n <= EndIndex THEN 0 ELSE (n - EndIndex + PageSize - 1) \div PageSize

Page == 0 .. (IF MaxRows > EndIndex THEN MaxRows ELSE 0)

Further == Page \ {0}

\* Mutant: a page starts at the last row of the one before it.
FirstRowOverlaps(p) == EndIndex + (p - 1) * PageSize

FirstRow(p) == EndIndex + 1 + (p - 1) * PageSize

LastRow(p, n) ==
    IF FirstRow(p) + PageSize - 1 < n THEN FirstRow(p) + PageSize - 1 ELSE n

Count == source.last - source.first + 1

\* The rows that are listed now in the positions from .. to.
Listed(from, to) ==
    [i \in 1 .. (IF to < Count THEN to ELSE Count) - from + 1
       |-> source.first + from + i - 2]

Pending == {"calling", "backoff"}

Ended == {"ok", "failed", "cancelled"}

\* The tasks of f that hold a permit of the semaphore.
Active(f) == {p \in Further : call[f][p] \in Pending}

\* Reasons: 429 or 5xx, a timeout, and everything that is not tried again.
Transient == {"busy", "timeout"}

Reason == Transient \cup {"refused"}

Rows == Seq(1 .. MaxRows)

ASSUME NoneAssumption == None \notin Nat \cup Reason \cup Rows

\* The rows of the pages 0 .. n of f, in the order of the pages.
Merged(f, n) ==
    LET join[p \in Page] ==
            IF p = 0 THEN page[f][0] ELSE join[p - 1] \o page[f][p]
    IN  join[n]

-----------------------------------------------------------------------------
(* One call, with its retries. *)

\* Mutant: the last attempt is not made.
MayRetryOnceLess(r, n) == r \in Transient /\ n < Retries

\* Mutant: one attempt too many.
MayRetryOnceMore(r, n) == r \in Transient /\ n <= Retries + 1

\* After n requests that ended with r there is another one.
MayRetry(r, n) == r \in Transient /\ n <= Retries

Send(f, p) ==
    /\ call' = [call EXCEPT ![f][p] = "calling"]
    /\ attempt' = [attempt EXCEPT ![f][p] = @ + 1]

\* Mutant: the attempts are counted, not the calls.
AttemptFailsCounted(f, p) ==
    /\ call[f][p] = "calling"
    /\ counted' = [counted EXCEPT !.failure = @ + 1]
    /\ \E r \in Reason :
         \/ /\ MayRetry(r, attempt[f][p])
            /\ call' = [call EXCEPT ![f][p] = "backoff"]
            /\ UNCHANGED <<phase, error, reason>>
         \/ /\ ~MayRetry(r, attempt[f][p])
            /\ call' = [call EXCEPT ![f][p] = "failed"]
            /\ reason' = [reason EXCEPT ![f][p] = r]
            /\ phase' = [phase EXCEPT ![f] = IF p = 0 THEN "raised" ELSE @]
            /\ error' = [error EXCEPT ![f] = IF p = 0 THEN r ELSE @]
    /\ UNCHANGED <<source, total, attempt, page, result>>

\* A request fails.  The call waits for the next attempt or raises; without
\* its first page the fetch raises in the same step.
AttemptFails(f, p) ==
    /\ call[f][p] = "calling"
    /\ \E r \in Reason :
         \/ /\ MayRetry(r, attempt[f][p])
            /\ call' = [call EXCEPT ![f][p] = "backoff"]
            /\ UNCHANGED <<phase, error, reason, counted>>
         \/ /\ ~MayRetry(r, attempt[f][p])
            /\ call' = [call EXCEPT ![f][p] = "failed"]
            /\ reason' = [reason EXCEPT ![f][p] = r]
            /\ counted' = [counted EXCEPT !.failure = @ + 1]
            /\ phase' = [phase EXCEPT ![f] = IF p = 0 THEN "raised" ELSE @]
            /\ error' = [error EXCEPT ![f] = IF p = 0 THEN r ELSE @]
    /\ UNCHANGED <<source, total, attempt, page, result>>

\* The delay of a call is over.
Resend(f, p) ==
    /\ call[f][p] = "backoff"
    /\ Send(f, p)
    /\ UNCHANGED <<source, phase, total, page, error, reason, result, counted>>

Replied(f, p, rows) ==
    /\ call[f][p] = "calling"
    /\ page' = [page EXCEPT ![f][p] = rows]
    /\ counted' = [counted EXCEPT !.success = @ + 1]

-----------------------------------------------------------------------------
(* The fetch. *)

\* The key lock of the lookup lets one fetch run at a time.
Start(f) ==
    /\ phase[f] = "idle"
    /\ \A g \in Fetch : phase[g] \notin {"first", "paging"}
    /\ phase' = [phase EXCEPT ![f] = "first"]
    /\ Send(f, 0)
    /\ UNCHANGED <<source, total, page, error, reason, result, counted>>

\* The first page tells how many rows there are, if it tells it at all; unless
\* it holds them all, the tasks for the other pages are made.
FirstPage(f) ==
    /\ Replied(f, 0, Listed(StartIndex, EndIndex))
    /\ \E n \in {None, Count} :
         /\ total' = [total EXCEPT ![f] = n]
         /\ \/ /\ FurtherPages(n) = 0
               /\ phase' = [phase EXCEPT ![f] = "returned"]
               /\ result' = [result EXCEPT ![f] = page'[f][0]]
               /\ call' = [call EXCEPT ![f][0] = "ok"]
            \/ /\ FurtherPages(n) > 0
               /\ phase' = [phase EXCEPT ![f] = "paging"]
               /\ call' = [call EXCEPT ![f] =
                             [p \in Page |->
                                IF p = 0 THEN "ok"
                                ELSE IF p <= FurtherPages(n) THEN "queued"
                                ELSE "none"]]
               /\ UNCHANGED result
    /\ UNCHANGED <<source, attempt, error, reason>>

\* Mutant: a call that fails keeps its permit.
BeginWithoutFailed(f, p) ==
    /\ call[f][p] = "queued"
    /\ Cardinality({q \in Further : call[f][q] \in Pending \cup {"failed"}}) < Slots
    /\ \A q \in 1 .. p - 1 : call[f][q] # "queued"
    /\ Send(f, p)
    /\ UNCHANGED <<source, phase, total, page, error, reason, result, counted>>

\* The task of a page gets its permit, the earlier pages first.
Begin(f, p) ==
    /\ call[f][p] = "queued"
    /\ Cardinality(Active(f)) < Slots
    /\ \A q \in 1 .. p - 1 : call[f][q] # "queued"
    /\ Send(f, p)
    /\ UNCHANGED <<source, phase, total, page, error, reason, result, counted>>

\* A further page comes in, of the rows the source lists by now.
NextPage(f, p) ==
    /\ p # 0
    /\ Replied(f, p, Listed(FirstRow(p), LastRow(p, total[f])))
    /\ call' = [call EXCEPT ![f][p] = "ok"]
    /\ UNCHANGED <<source, phase, total, attempt, error, reason, result>>

\* Mutant: pages that failed are left out of the merge.
MergeWhatCame(f) ==
    /\ phase[f] = "paging"
    /\ \A p \in Further : call[f][p] \in Ended \cup {"none"}
    /\ phase' = [phase EXCEPT ![f] = "returned"]
    /\ result' = [result EXCEPT ![f] =
                    LET join[p \in Page] ==
                          IF p = 0 THEN page[f][0]
                          ELSE IF page[f][p] = None THEN join[p - 1]
                          ELSE join[p - 1] \o page[f][p]
                    IN  join[FurtherPages(total[f])]]
    /\ UNCHANGED <<source, total, call, attempt, page, error, reason, counted>>

\* gather_limited returns, and the rows of all pages are merged.
Merge(f) ==
    /\ phase[f] = "paging"
    /\ \A p \in Further : call[f][p] \in {"none", "ok"}
    /\ phase' = [phase EXCEPT ![f] = "returned"]
    /\ result' = [result EXCEPT ![f] = Merged(f, FurtherPages(total[f]))]
    /\ UNCHANGED <<source, total, call, attempt, page, error, reason, counted>>

\* gather_limited raises the error of a page; the other tasks go on.
Raise(f) ==
    /\ phase[f] = "paging"
    /\ \E p \in Further :
         /\ call[f][p] = "failed"
         /\ error' = [error EXCEPT ![f] = reason[f][p]]
    /\ phase' = [phase EXCEPT ![f] = "raised"]
    /\ UNCHANGED <<source, total, call, attempt, page, reason, result, counted>>

\* The lookup is cancelled: with it its own call, or the tasks of the pages if
\* none of them has failed.  A cancelled call is not counted.
Cancel(f) ==
    /\ phase[f] \in {"first", "paging"}
    /\ phase' = [phase EXCEPT ![f] = "cancelled"]
    /\ call' = [call EXCEPT ![f] =
                  [p \in Page |->
                     IF /\ \A q \in Page : call[f][q] # "failed"
                        /\ call[f][p] \in Pending \cup {"queued"}
                     THEN "cancelled" ELSE call[f][p]]]
    /\ UNCHANGED <<source, total, attempt, page, error, reason, result, counted>>

-----------------------------------------------------------------------------
(* The source. *)

RowAdded ==
    /\ source.last < MaxRows
    /\ source' = [source EXCEPT !.last = @ + 1]
    /\ UNCHANGED <<phase, total, call, attempt, page, error, reason, result, counted>>

RowDropped ==
    /\ Count > 0
    /\ source' = [source EXCEPT !.first = @ + 1]
    /\ UNCHANGED <<phase, total, call, attempt, page, error, reason, result, counted>>

\* Everything has ended: the only way the system may stop.
Done ==
    /\ \A f \in Fetch : phase[f] \in {"returned", "raised", "cancelled"}
    /\ \A f \in Fetch, p \in Page : call[f][p] \in Ended \cup {"none"}
    /\ UNCHANGED vars

-----------------------------------------------------------------------------
Init ==
    /\ source \in {[first |-> 1, last |-> n] : n \in 0 .. MaxRows}
    /\ phase = [f \in Fetch |-> "idle"]
    /\ total = [f \in Fetch |-> None]
    /\ call = [f \in Fetch |-> [p \in Page |-> "none"]]
    /\ attempt = [f \in Fetch |-> [p \in Page |-> 0]]
    /\ page = [f \in Fetch |-> [p \in Page |-> None]]
    /\ reason = [f \in Fetch |-> [p \in Page |-> None]]
    /\ error = [f \in Fetch |-> None]
    /\ result = [f \in Fetch |-> None]
    /\ counted = [success |-> 0, failure |-> 0]

RequestEnds(f, p) ==
    \/ AttemptFails(f, p)
    \/ p = 0 /\ FirstPage(f)
    \/ NextPage(f, p)

Next ==
    \/ \E f \in Fetch :
         \/ Start(f)
         \/ \E p \in Page : RequestEnds(f, p) \/ Resend(f, p) \/ Begin(f, p)
         \/ Merge(f)
         \/ Raise(f)
         \/ Cancel(f)
    \/ RowAdded
    \/ RowDropped
    \/ Done

Spec == Init /\ [][Next]_vars

\* Every request ends within http_timeout_seconds and every delay is finite;
\* the event loop runs what is ready.
Fairness ==
    \A f \in Fetch :
        /\ \A p \in Page :
             /\ WF_vars(RequestEnds(f, p))
             /\ WF_vars(Resend(f, p))
             /\ WF_vars(Begin(f, p))
        /\ WF_vars(Merge(f))
        /\ WF_vars(Raise(f))

FairSpec == Spec /\ Fairness

-----------------------------------------------------------------------------
(* Properties. *)

\* Every variable has its type.
TypeOK ==
    /\ source \in [first : 1 .. MaxRows + 1, last : 0 .. MaxRows]
    /\ phase \in [Fetch -> {"idle", "first", "paging", "returned", "raised", "cancelled"}]
    /\ total \in [Fetch -> Nat \cup {None}]
    /\ call \in [Fetch -> [Page -> {"none", "queued"} \cup Pending \cup Ended]]
    /\ attempt \in [Fetch -> [Page -> 0 .. Retries + 1]]
    /\ page \in [Fetch -> [Page -> Rows \cup {None}]]
    /\ reason \in [Fetch -> [Page -> Reason \cup {None}]]
    /\ error \in [Fetch -> Reason \cup {None}]
    /\ result \in [Fetch -> Rows \cup {None}]
    /\ counted \in [success : Nat, failure : Nat]

\* A fetch that returns has every row that was listed when it began, once and
\* in order, although the pages came in any order and the source may have
\* grown in between.  Rows must not have been dropped, which moves the others,
\* and the source must have told their number.  The first page must not end
\* below the row before its first one: of StartIndex 4 and EndIndex 2, which the
\* settings allow, the further pages would begin below StartIndex.
ResultIsComplete ==
    \A f \in Fetch :
        source.first = 1 /\ result[f] # None /\ total[f] # None =>
            result[f] = [i \in 1 .. (IF total[f] < StartIndex THEN 0
                                     ELSE total[f] - StartIndex + 1)
                           |-> StartIndex + i - 1]

\* A call is counted once, however often it is tried again and also when the
\* fetch it was for is over; a cancelled call is not counted.
CallsCounted ==
    LET Number(e) == Cardinality({c \in Fetch \X Page : call[c[1]][c[2]] = e})
    IN  /\ counted.success = Number("ok")
        /\ counted.failure = Number("failed")

\* The reason a fetch reports is one of its pages', and a transient one only
\* after that page's last attempt.
ErrorAfterLastAttempt ==
    \A f \in Fetch :
        error[f] # None =>
            \E p \in Page :
                /\ call[f][p] = "failed" /\ reason[f][p] = error[f]
                /\ error[f] \in Transient => attempt[f][p] = Retries + 1

\* Every fetch ends, and so do the calls it leaves behind.
EverythingEnds ==
    \A f \in Fetch :
        /\ phase[f] = "first" ~> phase[f] \in {"returned", "raised", "cancelled"}
        /\ \A p \in Further : call[f][p] = "queued" ~> call[f][p] \in Ended

-----------------------------------------------------------------------------
(* Each fetch's pages are a call of gather_limited. *)

Gathering(f) ==
    INSTANCE GatherLimited
        WITH MaxJobs <- Cardinality(Further),
             task <- [p \in Further |->
                        IF call[f][p] \in Pending THEN "running" ELSE call[f][p]],
             outer <- IF \A p \in Further : call[f][p] = "none" THEN "idle"
                      ELSE IF phase[f] = "paging" THEN "waiting" ELSE phase[f]

\* With retries, merging and failing first pages around it, what the fetch
\* does to its page calls is what gather_limited does to its operations.
PagesAreGathered ==
    /\ \A f \in Fetch : Gathering(f)!Init
    /\ [][\A f \in Fetch : [Gathering(f)!Next]_(Gathering(f)!vars)]_vars
=============================================================================
