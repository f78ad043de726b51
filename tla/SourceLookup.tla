---------------------------- MODULE SourceLookup ----------------------------
(***************************************************************************)
(* The cached lookup of one public-API source: the function                *)
(* fetch_normalized_with_cache, which every service of the program calls,  *)
(* with the key lock, the cache and the upstream API it meets.             *)
(*                                                                         *)
(* A request is one call of that function.  One action is the code between *)
(* two awaits.  MemoryTTLCache never suspends, so with it some of these    *)
(* steps run back to back; RedisTTLCache suspends at each of them.  The    *)
(* model lets other requests in between for both, which only adds          *)
(* behaviours.                                                             *)
(*                                                                         *)
(* The value of a source is the number of times the source has changed;    *)
(* None stands for the empty result the code normalizes out of no rows.    *)
(***************************************************************************)
EXTENDS Integers, FiniteSets

CONSTANTS
    Request,    \* the calls of fetch_normalized_with_cache
    Key,        \* the cache keys
    Instance,   \* the processes that run the program
    KeyOf,      \* the key of each request
    Home,       \* the process that serves each request
    Backend,    \* "memory" or "redis"
    Ttl,        \* the ttl_seconds its caller passes for a key
    StaleTtl,   \* settings.stale_ttl_seconds
    MaxTime,    \* bound on the clock
    MaxVersion, \* bound on the changes of a source
    None        \* no entry, no reply, no answer, no value

ASSUME RequestAssumption ==
    /\ KeyOf \in [Request -> Key]
    /\ Home \in [Request -> Instance]

ASSUME FiniteAssumption == IsFiniteSet(Request)

ASSUME BackendAssumption == Backend \in {"memory", "redis"}

\* A memory cache belongs to one process; the model has one store.
ASSUME MemoryAssumption ==
    Backend = "memory" => \A r, q \in Request : Home[r] = Home[q]

ASSUME TimeAssumption ==
    /\ Ttl \in [Key -> Int]
    /\ StaleTtl \in Int
    /\ MaxTime \in Nat
    /\ MaxVersion \in Nat

-----------------------------------------------------------------------------
(* The lifetimes the caches give an entry, and the records of the model. *)

FreshFor(k) == IF Ttl[k] < 1 THEN 1 ELSE Ttl[k]

StaleFor == IF StaleTtl < 0 THEN 0 ELSE StaleTtl

Entry == [value : Nat, fetchedAt : Nat, expiresAt : Nat, staleExpiresAt : Nat]

\* ServiceResult with its one DataSourceMeta.
Answer == [status : {"HIT", "MISS", "STALE"}, success : BOOLEAN,
           value : Nat \cup {None}, fetchedAt : Nat, staleness : Nat]

\* What the contract keeps of an entry.
Known == [value : Nat, fetchedAt : Nat]

ASSUME NoneAssumption == None \notin Nat \cup Entry \cup Answer \cup Known

Counter == {"hit", "miss", "stale", "fallback"}

VARIABLES
    now,      \* the clock, in seconds
    upstream, \* upstream[k]: the version the source of k now holds
    store,    \* store[k]: the cache's entry for k, or None
    pc,       \* pc[r]: where request r is
    ahead,    \* ahead[r]: the requests that must leave the key lock before r
    reply,    \* reply[r]: the version the source read for r, or None
    pending,  \* pending[r]: the entry r is writing to the cache, or None
    answer,   \* answer[r]: what r returned, or None
    metrics   \* the process-wide cache and fallback counters

vars == <<now, upstream, store, pc, ahead, reply, pending, answer, metrics>>

\* A request holds the key lock in these places ...
Holding == {"fetching", "replying", "storing", "recovering"}
\* ... is in the line of the lock in these ...
InLine == {"queued"} \cup Holding
\* ... and has ended in these: "done" with an answer, "aborted" without one.
Ended == {"done", "aborted"}

\* Mutant: a lock object per call instead of one per key.
SameLockPerCall(r, q) == r = q /\ KeyOf[r] = KeyOf[q]

SameLock(r, q) == KeyOf[r] = KeyOf[q] /\ Home[r] = Home[q]

-----------------------------------------------------------------------------
(* The cache. *)

\* Mutant: the fresh deadline is not compared.
UsableWhileStored(e, allowStale) == e # None /\ now <= e.staleExpiresAt

Usable(e, allowStale) ==
    /\ e # None
    /\ now <= e.staleExpiresAt
    /\ allowStale \/ now <= e.expiresAt

\* What cache.get may return: a Redis error is a miss.
CacheGet(k, allowStale) ==
    {IF Usable(store[k], allowStale) THEN store[k] ELSE None}
        \cup (IF Backend = "redis" THEN {None} ELSE {})

\* Mutant: the entry is dropped at its fresh deadline.
PopAtTtl(k) ==
    store' = IF store[k] # None /\ now > store[k].expiresAt
             THEN [store EXCEPT ![k] = None]
             ELSE store

\* The memory cache drops an entry it finds past its stale window.
PopExpired(k) ==
    store' = IF /\ Backend = "memory"
                /\ store[k] # None
                /\ now > store[k].staleExpiresAt
             THEN [store EXCEPT ![k] = None]
             ELSE store

\* The entry cache.set builds when the clock shows the fetch's own time.
NewEntry(k, v) ==
    [value |-> v, fetchedAt |-> now, expiresAt |-> now + FreshFor(k),
     staleExpiresAt |-> now + FreshFor(k) + StaleFor]

-----------------------------------------------------------------------------
(* Answers and the lock. *)

Result(status, success, v, at, age) ==
    [status |-> status, success |-> success, value |-> v, fetchedAt |-> at,
     staleness |-> age]

Staleness(e) == IF e.fetchedAt <= now THEN now - e.fetchedAt ELSE 0

\* Mutant: stale data gets the time of the failed call, as an empty answer does.
StaleRestamped(e) == Result("STALE", FALSE, e.value, now, 0)

Hit(e)   == Result("HIT", TRUE, e.value, e.fetchedAt, Staleness(e))
Miss(e)  == Result("MISS", TRUE, e.value, e.fetchedAt, 0)
Stale(e) == Result("STALE", FALSE, e.value, e.fetchedAt, Staleness(e))
Empty    == Result("MISS", FALSE, None, now, 0)

\* r returns a; counters is the set of metrics that count it.
Return(r, a, counters) ==
    /\ pc' = [pc EXCEPT ![r] = "done"]
    /\ answer' = [answer EXCEPT ![r] = a]
    /\ metrics' = [m \in Counter |->
                     IF m \in counters THEN metrics[m] + 1 ELSE metrics[m]]

\* Mutant: waiters queue behind the holder only, and all wake together.
JoinBehindHolder(r) ==
    ahead' = [ahead EXCEPT ![r] =
                {q \in Request \ {r} : SameLock(q, r) /\ pc[q] \in Holding}]

\* asyncio.Lock is first come, first served: r waits for all who are in line.
Join(r) ==
    ahead' = [ahead EXCEPT ![r] =
                {q \in Request \ {r} : SameLock(q, r) /\ pc[q] \in InLine}]

\* r leaves the line, whether it held the lock or was cancelled waiting.
Leave(r) == ahead' = [q \in Request |-> ahead[q] \ {r}]

-----------------------------------------------------------------------------
(* The steps of a request. *)

\* The first cache.get, before the lock.
Lookup(r) ==
    /\ pc[r] = "start"
    /\ PopExpired(KeyOf[r])
    /\ \E e \in CacheGet(KeyOf[r], FALSE) :
         \/ /\ e # None
            /\ Return(r, Hit(e), {"hit"})
            /\ UNCHANGED ahead
         \/ /\ e = None
            /\ pc' = [pc EXCEPT ![r] = "queued"]
            /\ Join(r)
            /\ UNCHANGED <<answer, metrics>>
    /\ UNCHANGED <<now, upstream, reply, pending>>

\* Mutant: no second look at the cache under the lock.
RecheckSkipsCache(r) ==
    /\ pc[r] = "queued"
    /\ ahead[r] = {}
    /\ pc' = [pc EXCEPT ![r] = "fetching"]
    /\ UNCHANGED <<now, upstream, store, ahead, reply, pending, answer, metrics>>

\* r gets the lock and looks again: another request may have filled the cache.
Recheck(r) ==
    /\ pc[r] = "queued"
    /\ ahead[r] = {}
    /\ PopExpired(KeyOf[r])
    /\ \E e \in CacheGet(KeyOf[r], FALSE) :
         \/ /\ e # None
            /\ Return(r, Hit(e), {"hit"})
            /\ Leave(r)
         \/ /\ e = None
            /\ pc' = [pc EXCEPT ![r] = "fetching"]
            /\ UNCHANGED <<ahead, answer, metrics>>
    /\ UNCHANGED <<now, upstream, reply, pending>>

\* The source reads its data for r's call; the reply is on its way.
UpstreamReads(r) ==
    /\ pc[r] = "fetching"
    /\ pc' = [pc EXCEPT ![r] = "replying"]
    /\ reply' = [reply EXCEPT ![r] = upstream[KeyOf[r]]]
    /\ UNCHANGED <<now, upstream, store, ahead, pending, answer, metrics>>

\* Mutant: fetch() is not awaited before its result is normalized.
FetchReturnsUnawaited(r) ==
    /\ pc[r] \in {"fetching", "replying"}
    /\ pc' = [pc EXCEPT ![r] = "storing"]
    /\ pending' = [pending EXCEPT ![r] = NewEntry(KeyOf[r], reply[r])]
    /\ reply' = [reply EXCEPT ![r] = None]
    /\ UNCHANGED <<now, upstream, store, ahead, answer, metrics>>

\* fetch() returns; r notes the time, normalizes and calls cache.set.
FetchReturns(r) ==
    /\ pc[r] = "replying"
    /\ pc' = [pc EXCEPT ![r] = "storing"]
    /\ pending' = [pending EXCEPT ![r] = NewEntry(KeyOf[r], reply[r])]
    /\ reply' = [reply EXCEPT ![r] = None]
    /\ UNCHANGED <<now, upstream, store, ahead, answer, metrics>>

\* fetch() raises PublicApiError, before or after the source read its data.
FetchFails(r) ==
    /\ pc[r] \in {"fetching", "replying"}
    /\ pc' = [pc EXCEPT ![r] = "recovering"]
    /\ reply' = [reply EXCEPT ![r] = None]
    /\ UNCHANGED <<now, upstream, store, ahead, pending, answer, metrics>>

\* cache.set writes the entry, over whatever the cache held.
SetLands(r) ==
    /\ pc[r] = "storing"
    /\ store' = [store EXCEPT ![KeyOf[r]] = pending[r]]
    /\ pending' = [pending EXCEPT ![r] = None]
    /\ Return(r, Miss(pending[r]), {"miss"})
    /\ Leave(r)
    /\ UNCHANGED <<now, upstream, reply>>

\* Mutant: the lookup returns from the failed cache.set before it counts.
SetFailsUncounted(r) ==
    /\ Backend = "redis"
    /\ pc[r] = "storing"
    /\ pending' = [pending EXCEPT ![r] = None]
    /\ Return(r, Miss(pending[r]), {})
    /\ Leave(r)
    /\ UNCHANGED <<now, upstream, store, reply>>

\* Redis fails during cache.set, which swallows the error: the write is lost,
\* or still on its way when the client has given up on it.
SetFails(r) ==
    /\ Backend = "redis"
    /\ pc[r] = "storing"
    /\ \/ pending' = [pending EXCEPT ![r] = None]
       \/ UNCHANGED pending
    /\ Return(r, Miss(pending[r]), {"miss"})
    /\ Leave(r)
    /\ UNCHANGED <<now, upstream, store, reply>>

\* Mutant: the fallback asks the cache for fresh data only.
RecoverFreshOnly(r) ==
    /\ pc[r] = "recovering"
    /\ PopExpired(KeyOf[r])
    /\ \E e \in CacheGet(KeyOf[r], FALSE) :
         \/ e # None /\ Return(r, Stale(e), {"stale", "fallback"})
         \/ e = None /\ Return(r, Empty, {"miss", "fallback"})
    /\ Leave(r)
    /\ UNCHANGED <<now, upstream, reply, pending>>

\* The failure path: cache.get with allow_stale, then a stale or empty answer.
Recover(r) ==
    /\ pc[r] = "recovering"
    /\ PopExpired(KeyOf[r])
    /\ \E e \in CacheGet(KeyOf[r], TRUE) :
         \/ /\ e # None
            /\ Return(r, Stale(e), {"stale", "fallback"})
         \/ /\ e = None
            /\ Return(r, Empty, {"miss", "fallback"})
    /\ Leave(r)
    /\ UNCHANGED <<now, upstream, reply, pending>>

\* Mutant: the miss is counted in a finally block.
AbortCounts(r) ==
    /\ pc[r] \in InLine \ {"storing"}
    /\ pc' = [pc EXCEPT ![r] = "aborted"]
    /\ reply' = [reply EXCEPT ![r] = None]
    /\ metrics' = [metrics EXCEPT !["miss"] = @ + 1]
    /\ Leave(r)
    /\ UNCHANGED <<now, upstream, store, pending, answer>>

\* Mutant: the lock is released on the normal paths only.
AbortKeepsLock(r) ==
    /\ pc[r] \in InLine
    /\ pc' = [pc EXCEPT ![r] = "aborted"]
    /\ reply' = [reply EXCEPT ![r] = None]
    /\ pending' = [pending EXCEPT ![r] = None]
    /\ UNCHANGED <<now, upstream, store, ahead, answer, metrics>>

\* A cancellation, or an exception that is not a PublicApiError, at an await:
\* async with releases the lock, and a Redis write in flight may still land.
Abort(r) ==
    /\ pc[r] \in InLine
    /\ pc[r] = "storing" => Backend = "redis"
    /\ pc' = [pc EXCEPT ![r] = "aborted"]
    /\ reply' = [reply EXCEPT ![r] = None]
    /\ \/ pending' = [pending EXCEPT ![r] = None]
       \/ pc[r] = "storing" /\ UNCHANGED pending
    /\ Leave(r)
    /\ UNCHANGED <<now, upstream, store, answer, metrics>>

-----------------------------------------------------------------------------
(* The environment. *)

Tick ==
    /\ now < MaxTime
    /\ now' = now + 1
    /\ UNCHANGED <<upstream, store, pc, ahead, reply, pending, answer, metrics>>

UpstreamChanges(k) ==
    /\ upstream[k] < MaxVersion
    /\ upstream' = [upstream EXCEPT ![k] = @ + 1]
    /\ UNCHANGED <<now, store, pc, ahead, reply, pending, answer, metrics>>

\* Mutant: the deadlines count from the arrival of the write at the server.
LateSetRenews(r) ==
    /\ pc[r] \in Ended
    /\ pending[r] # None
    /\ store' = [store EXCEPT ![KeyOf[r]] =
                   [NewEntry(KeyOf[r], pending[r].value)
                      EXCEPT !.fetchedAt = pending[r].fetchedAt]]
    /\ pending' = [pending EXCEPT ![r] = None]
    /\ UNCHANGED <<now, upstream, pc, ahead, reply, answer, metrics>>

\* Redis executes a write whose client no longer waits for it.
LateSet(r) ==
    /\ pc[r] \in Ended
    /\ pending[r] # None
    /\ store' = [store EXCEPT ![KeyOf[r]] = pending[r]]
    /\ pending' = [pending EXCEPT ![r] = None]
    /\ UNCHANGED <<now, upstream, pc, ahead, reply, answer, metrics>>

\* Redis drops a key: its expiry, memory pressure or a restart.
Evict(k) ==
    /\ Backend = "redis"
    /\ store[k] # None
    /\ store' = [store EXCEPT ![k] = None]
    /\ UNCHANGED <<now, upstream, pc, ahead, reply, pending, answer, metrics>>

\* All requests have ended: the only way the system may stop.
Quiescent ==
    /\ \A r \in Request : pc[r] \in Ended
    /\ UNCHANGED vars

-----------------------------------------------------------------------------
Init ==
    /\ now = 0
    /\ upstream = [k \in Key |-> 0]
    /\ store = [k \in Key |-> None]
    /\ pc = [r \in Request |-> "start"]
    /\ ahead = [r \in Request |-> {}]
    /\ reply = [r \in Request |-> None]
    /\ pending = [r \in Request |-> None]
    /\ answer = [r \in Request |-> None]
    /\ metrics = [m \in Counter |-> 0]

RequestStep(r) ==
    \/ Lookup(r)
    \/ Recheck(r)
    \/ UpstreamReads(r)
    \/ FetchReturns(r)
    \/ FetchFails(r)
    \/ SetLands(r)
    \/ SetFails(r)
    \/ Recover(r)
    \/ Abort(r)
    \/ LateSet(r)

Next ==
    \/ \E r \in Request : RequestStep(r)
    \/ \E k \in Key : UpstreamChanges(k) \/ Evict(k)
    \/ Tick
    \/ Quiescent

Spec == Init /\ [][Next]_vars

\* The event loop runs every ready task; httpx timeouts end every fetch and
\* the Redis client's socket timeout every cache operation.
Fairness ==
    \A r \in Request :
        /\ WF_vars(Recheck(r))
        /\ WF_vars(FetchReturns(r) \/ FetchFails(r))
        /\ WF_vars(SetLands(r) \/ SetFails(r))
        /\ WF_vars(Recover(r))

FairSpec == Spec /\ Fairness

-----------------------------------------------------------------------------
(* Properties. *)

\* Every variable has its type.
TypeOK ==
    /\ now \in Nat
    /\ upstream \in [Key -> Nat]
    /\ store \in [Key -> Entry \cup {None}]
    /\ pc \in [Request -> {"start"} \cup InLine \cup Ended]
    /\ ahead \in [Request -> SUBSET Request]
    /\ reply \in [Request -> Nat \cup {None}]
    /\ pending \in [Request -> Entry \cup {None}]
    /\ answer \in [Request -> Answer \cup {None}]
    /\ metrics \in [Counter -> Nat]

\* The single-flight lock: in one process two requests for one key are never
\* both between their second cache.get and the end of their lookup, so at most
\* one upstream call for the key is out.
OneCallPerKey ==
    \A r, q \in Request :
        r # q /\ SameLock(r, q) => ~(pc[r] \in Holding /\ pc[q] \in Holding)

\* r answered with what it fetched itself.
Fetched(r) ==
    answer[r] # None /\ answer[r].status = "MISS" /\ answer[r].success

\* The memory cache serves everybody from one successful upstream answer for a
\* whole TTL: two answers that requests fetched for one key are more than the
\* TTL apart, however the requests overlapped.
FetchesOneTtlApart ==
    \A r, q \in Request :
        r # q /\ KeyOf[r] = KeyOf[q] /\ Fetched(r) /\ Fetched(q) =>
            \/ answer[r].fetchedAt > answer[q].fetchedAt + FreshFor(KeyOf[q])
            \/ answer[q].fetchedAt > answer[r].fetchedAt + FreshFor(KeyOf[r])

\* The age an answer reports fits its status: HIT data is within its TTL, and
\* STALE data past it but within the stale window, whatever was written to the
\* cache between the request's misses and its fallback.
AgeFitsStatus ==
    \A r \in Request :
        answer[r] # None =>
            /\ answer[r].status = "HIT" =>
                 answer[r].staleness \in 0 .. FreshFor(KeyOf[r])
            /\ answer[r].status = "STALE" =>
                 answer[r].staleness \in FreshFor(KeyOf[r]) + 1
                                             .. FreshFor(KeyOf[r]) + StaleFor

\* What is left of it when instances share Redis, where another instance may
\* write a fresh entry before the fallback reads it: no data is served, under
\* either label, past the deadline its status allows.
AgeWithinWindow ==
    \A r \in Request :
        answer[r] # None =>
            /\ answer[r].status = "HIT" =>
                 answer[r].staleness \in 0 .. FreshFor(KeyOf[r])
            /\ answer[r].status = "STALE" =>
                 answer[r].staleness \in 0 .. FreshFor(KeyOf[r]) + StaleFor

\* A failed lookup says "no data" only when nothing usable was ever fetched: an
\* answer fetched before the failure has left its TTL and its stale window.
EmptyOnlyPastWindow ==
    \A r, q \in Request :
        (/\ KeyOf[r] = KeyOf[q]
         /\ answer[r] # None /\ answer[r].value = None
         /\ Fetched(q)
         /\ answer[q].fetchedAt < answer[r].fetchedAt)
        => answer[r].fetchedAt > answer[q].fetchedAt + FreshFor(KeyOf[q]) + StaleFor

\* Original lookup times are told apart from serving times: of two answers
\* with data for one key, the one with the older time never has newer data.
TimesOrderData ==
    \A r, q \in Request :
        (/\ KeyOf[r] = KeyOf[q]
         /\ answer[r] # None /\ answer[r].value # None
         /\ answer[q] # None /\ answer[q].value # None
         /\ answer[r].fetchedAt <= answer[q].fetchedAt)
        => answer[r].value <= answer[q].value

\* The cache never goes back: an entry is replaced only by a later fetch of
\* data that is no older, also when a reply that was slow comes in.
CacheMovesForward ==
    [][\A k \in Key :
          store[k] # None /\ store'[k] # None /\ store'[k] # store[k] =>
              /\ store'[k].fetchedAt > store[k].fetchedAt
              /\ store'[k].value >= store[k].value]_vars

\* The counters account for every answer and nothing else: a cancelled or
\* crashed lookup counts nowhere, and fallbacks are the unsuccessful answers.
MetricsAccount ==
    LET Answered(P(_)) ==
          Cardinality({r \in Request : answer[r] # None /\ P(answer[r])})
    IN  /\ metrics["hit"] = Answered(LAMBDA a : a.status = "HIT")
        /\ metrics["miss"] = Answered(LAMBDA a : a.status = "MISS")
        /\ metrics["stale"] = Answered(LAMBDA a : a.status = "STALE")
        /\ metrics["fallback"] = Answered(LAMBDA a : ~a.success)

\* Every lookup that reached the lock ends: no failure, exception or
\* cancellation of another request leaves the key locked.
EveryLookupEnds ==
    \A r \in Request : pc[r] = "queued" ~> pc[r] \in Ended
-----------------------------------------------------------------------------
(* With the memory cache the lookup implements SourceContract. *)

\* What is known of a key is what its cache entry holds.
KnownOf ==
    [k \in Key |-> IF store[k] = None THEN None
                   ELSE [value |-> store[k].value,
                         fetchedAt |-> store[k].fetchedAt]]

Contract == INSTANCE SourceContract
                WITH known <- KnownOf, Fresh <- [k \in Key |-> FreshFor(k)]

\* Every lookup, with its lock, its awaits and its failures, is one atomic
\* step of the contract: fresh data or a fetch after expiry, stale data only
\* when it has expired, nothing only when nothing usable is known.
ImplementsContract == Contract!Spec
=============================================================================
