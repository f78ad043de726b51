------------------------- MODULE SourceLookupProofs -------------------------
(***************************************************************************)
(* Theorems about SourceLookup, for every set of requests, keys and times: *)
(* first what holds with either cache, then what the memory cache adds.    *)
(***************************************************************************)
EXTENDS SourceLookup, FiniteSetTheorems, TLAPS

-----------------------------------------------------------------------------
(* Lifetimes and the cache operators. *)

\* The TTL an entry is stored with is at least one second, and the stale
\* window is never negative: the max(...) of both caches.
LEMMA Lifetimes ==
    /\ \A k \in Key : FreshFor(k) \in Nat /\ FreshFor(k) >= 1
    /\ StaleFor \in Nat
BY TimeAssumption DEF FreshFor, StaleFor

\* cache.get returns nothing or the entry the cache holds.
LEMMA CacheGetReturns ==
    ASSUME NEW k, NEW allowStale, NEW e \in CacheGet(k, allowStale), e # None
    PROVE  e = store[k] /\ Usable(e, allowStale)
BY DEF CacheGet, Usable

\* Dropping an expired entry keeps the other entries.
LEMMA PopKeepsType ==
    ASSUME TypeOK, NEW k \in Key, PopExpired(k)
    PROVE  store' \in [Key -> Entry \cup {None}]
BY DEF TypeOK, PopExpired

\* The answers the lookup builds are answers.
LEMMA AnswersTyped ==
    ASSUME TypeOK, NEW e \in Entry
    PROVE  Hit(e) \in Answer /\ Miss(e) \in Answer /\ Stale(e) \in Answer
BY DEF TypeOK, Entry, Answer, Hit, Miss, Stale, Result, Staleness

\* The answer without data is an answer.
LEMMA EmptyTyped == TypeOK => Empty \in Answer
BY DEF TypeOK, Answer, Empty, Result

\* Returning an answer keeps the types of the variables it changes.
LEMMA ReturnTyped ==
    ASSUME TypeOK, NEW r \in Request, NEW a \in Answer, NEW counters,
           Return(r, a, counters)
    PROVE  /\ pc' \in [Request -> {"start"} \cup InLine \cup Ended]
           /\ answer' \in [Request -> Answer \cup {None}]
           /\ metrics' \in [Counter -> Nat]
<1>1. pc' \in [Request -> {"start"} \cup InLine \cup Ended]
  BY DEF TypeOK, Return, Ended
<1>2. answer' \in [Request -> Answer \cup {None}]
  BY DEF TypeOK, Return
<1>3. metrics' \in [Counter -> Nat]
  BY DEF TypeOK, Return
<1>4. QED
  BY <1>1, <1>2, <1>3

\* Leaving the line of a lock keeps its type.
LEMMA LeaveTyped ==
    ASSUME TypeOK, NEW r \in Request, Leave(r)
    PROVE  ahead' \in [Request -> SUBSET Request]
BY DEF TypeOK, Leave

-----------------------------------------------------------------------------
(* Types. *)

\* A request that waits for a reply or a write has one.
InFlightTyped ==
    \A r \in Request :
        /\ pc[r] = "replying" => reply[r] \in Nat
        /\ pc[r] = "storing" => pending[r] \in Entry

TypeInv == TypeOK /\ InFlightTyped

LEMMA InitTypeInv == Init => TypeInv
BY DEF Init, TypeInv, TypeOK, InFlightTyped, Counter

LEMMA NextTypeInv == TypeInv /\ [Next]_vars => TypeInv'
<1> SUFFICES ASSUME TypeInv, [Next]_vars PROVE TypeInv'
  OBVIOUS
<1>Types. TypeOK /\ InFlightTyped
  BY DEF TypeInv
<1>Keys. \A r \in Request : KeyOf[r] \in Key
  BY RequestAssumption
<1>Lookup. \A r \in Request : Lookup(r) => TypeInv'
  <2> SUFFICES ASSUME NEW r \in Request, Lookup(r) PROVE TypeInv'
    OBVIOUS
  <2>1. store' \in [Key -> Entry \cup {None}]
    BY <1>Types, <1>Keys, PopKeepsType DEF Lookup
  <2>2. PICK e \in CacheGet(KeyOf[r], FALSE) :
           \/ e # None /\ Return(r, Hit(e), {"hit"}) /\ UNCHANGED ahead
           \/ /\ e = None
              /\ pc' = [pc EXCEPT ![r] = "queued"]
              /\ Join(r)
              /\ UNCHANGED <<answer, metrics>>
    BY DEF Lookup
  <2>3. CASE e # None
    <3>1. e = store[KeyOf[r]]
      BY <2>3, CacheGetReturns
    <3>2. e \in Entry
      BY <1>Types, <1>Keys, <2>3, <3>1 DEF TypeOK
    <3>3. Return(r, Hit(e), {"hit"}) /\ UNCHANGED ahead
      BY <2>2, <2>3
    <3>4. TypeOK'
      BY <1>Types, <2>1, <3>2, <3>3, AnswersTyped, ReturnTyped DEF TypeOK, Lookup
    <3>5. InFlightTyped'
      BY <1>Types, <3>3 DEF TypeOK, InFlightTyped, Lookup, Return
    <3>6. QED
      BY <3>4, <3>5 DEF TypeInv
  <2>4. CASE e = None
    <3>1. TypeOK'
      BY <1>Types, <2>1, <2>2, <2>4 DEF TypeOK, Lookup, Join, InLine, Holding, Ended
    <3>2. InFlightTyped'
      BY <1>Types, <2>2, <2>4 DEF TypeOK, InFlightTyped, Lookup
    <3>3. QED
      BY <3>1, <3>2 DEF TypeInv
  <2>5. QED
    BY <2>3, <2>4
<1>Recheck. \A r \in Request : Recheck(r) => TypeInv'
  <2> SUFFICES ASSUME NEW r \in Request, Recheck(r) PROVE TypeInv'
    OBVIOUS
  <2>1. store' \in [Key -> Entry \cup {None}]
    BY <1>Types, <1>Keys, PopKeepsType DEF Recheck
  <2>2. PICK e \in CacheGet(KeyOf[r], FALSE) :
           \/ e # None /\ Return(r, Hit(e), {"hit"}) /\ Leave(r)
           \/ /\ e = None
              /\ pc' = [pc EXCEPT ![r] = "fetching"]
              /\ UNCHANGED <<ahead, answer, metrics>>
    BY DEF Recheck
  <2>3. CASE e # None
    <3>1. e = store[KeyOf[r]]
      BY <2>3, CacheGetReturns
    <3>2. e \in Entry
      BY <1>Types, <1>Keys, <2>3, <3>1 DEF TypeOK
    <3>3. Return(r, Hit(e), {"hit"}) /\ Leave(r)
      BY <2>2, <2>3
    <3>4. TypeOK'
      BY <1>Types, <2>1, <3>2, <3>3, AnswersTyped, ReturnTyped, LeaveTyped
         DEF TypeOK, Recheck
    <3>5. InFlightTyped'
      BY <1>Types, <3>3 DEF TypeOK, InFlightTyped, Recheck, Return
    <3>6. QED
      BY <3>4, <3>5 DEF TypeInv
  <2>4. CASE e = None
    <3>1. TypeOK'
      BY <1>Types, <2>1, <2>2, <2>4 DEF TypeOK, Recheck, InLine, Holding, Ended
    <3>2. InFlightTyped'
      BY <1>Types, <2>2, <2>4 DEF TypeOK, InFlightTyped, Recheck
    <3>3. QED
      BY <3>1, <3>2 DEF TypeInv
  <2>5. QED
    BY <2>3, <2>4
<1>UpstreamReads. \A r \in Request : UpstreamReads(r) => TypeInv'
  BY <1>Types, <1>Keys DEF TypeInv, TypeOK, InFlightTyped, UpstreamReads,
                    InLine, Holding, Ended
<1>FetchReturns. \A r \in Request : FetchReturns(r) => TypeInv'
  <2> SUFFICES ASSUME NEW r \in Request, FetchReturns(r) PROVE TypeInv'
    OBVIOUS
  <2>1. reply[r] \in Nat
    BY <1>Types DEF InFlightTyped, FetchReturns
  <2>2. NewEntry(KeyOf[r], reply[r]) \in Entry
    BY <1>Types, <1>Keys, <2>1, Lifetimes DEF TypeOK, NewEntry, Entry
  <2>3. QED
    BY <1>Types, <2>2 DEF TypeInv, TypeOK, InFlightTyped, FetchReturns,
                      InLine, Holding, Ended
<1>FetchFails. \A r \in Request : FetchFails(r) => TypeInv'
  BY <1>Types DEF TypeInv, TypeOK, InFlightTyped, FetchFails, InLine, Holding, Ended
<1>SetLands. \A r \in Request : SetLands(r) => TypeInv'
  <2> SUFFICES ASSUME NEW r \in Request, SetLands(r) PROVE TypeInv'
    OBVIOUS
  <2>1. pending[r] \in Entry
    BY <1>Types DEF InFlightTyped, SetLands
  <2>2. TypeOK'
    BY <1>Types, <1>Keys, <2>1, AnswersTyped, ReturnTyped, LeaveTyped
       DEF TypeOK, SetLands
  <2>3. InFlightTyped'
    BY <1>Types DEF TypeOK, InFlightTyped, SetLands, Return
  <2>4. QED
    BY <2>2, <2>3 DEF TypeInv
<1>SetFails. \A r \in Request : SetFails(r) => TypeInv'
  <2> SUFFICES ASSUME NEW r \in Request, SetFails(r) PROVE TypeInv'
    OBVIOUS
  <2>1. pending[r] \in Entry
    BY <1>Types DEF InFlightTyped, SetFails
  <2>2. TypeOK'
    BY <1>Types, <1>Keys, <2>1, AnswersTyped, ReturnTyped, LeaveTyped
       DEF TypeOK, SetFails
  <2>3. InFlightTyped'
    BY <1>Types DEF TypeOK, InFlightTyped, SetFails, Return
  <2>4. QED
    BY <2>2, <2>3 DEF TypeInv
<1>Recover. \A r \in Request : Recover(r) => TypeInv'
  <2> SUFFICES ASSUME NEW r \in Request, Recover(r) PROVE TypeInv'
    OBVIOUS
  <2>1. store' \in [Key -> Entry \cup {None}]
    BY <1>Types, <1>Keys, PopKeepsType DEF Recover
  <2>2. PICK e \in CacheGet(KeyOf[r], TRUE) :
           \/ e # None /\ Return(r, Stale(e), {"stale", "fallback"})
           \/ e = None /\ Return(r, Empty, {"miss", "fallback"})
    BY DEF Recover
  <2>3. \E a \in Answer : \E c : Return(r, a, c)
    <3>1. CASE e # None
      <4>1. e = store[KeyOf[r]]
        BY <3>1, CacheGetReturns
      <4>2. Stale(e) \in Answer
        BY <1>Types, <1>Keys, <3>1, <4>1, AnswersTyped DEF TypeOK
      <4>3. QED
        BY <2>2, <3>1, <4>2
    <3>2. CASE e = None
      BY <1>Types, <2>2, <3>2, EmptyTyped
    <3>3. QED
      BY <3>1, <3>2
  <2>4. TypeOK'
    BY <1>Types, <2>1, <2>3, ReturnTyped, LeaveTyped DEF TypeOK, Recover
  <2>5. InFlightTyped'
    BY <1>Types, <2>3 DEF TypeOK, InFlightTyped, Recover, Return
  <2>6. QED
    BY <2>4, <2>5 DEF TypeInv
<1>Abort. \A r \in Request : Abort(r) => TypeInv'
  <2> SUFFICES ASSUME NEW r \in Request, Abort(r) PROVE TypeInv'
    OBVIOUS
  <2>1. TypeOK'
    BY <1>Types, LeaveTyped DEF TypeOK, Abort, Ended
  <2>2. InFlightTyped'
    BY <1>Types DEF TypeOK, InFlightTyped, Abort
  <2>3. QED
    BY <2>1, <2>2 DEF TypeInv
<1>LateSet. \A r \in Request : LateSet(r) => TypeInv'
  BY <1>Types, <1>Keys DEF TypeInv, TypeOK, InFlightTyped, LateSet, Ended
<1>Sources. ASSUME NEW k \in Key, UpstreamChanges(k) \/ Evict(k) PROVE TypeInv'
  BY <1>Types, <1>Sources DEF TypeInv, TypeOK, InFlightTyped, UpstreamChanges, Evict
<1>Tick. Tick => TypeInv'
  BY <1>Types DEF TypeInv, TypeOK, InFlightTyped, Tick
<1>Stutter. UNCHANGED vars => TypeInv'
  BY <1>Types DEF TypeInv, TypeOK, InFlightTyped, vars
<1>. QED
  BY <1>Lookup, <1>Recheck, <1>UpstreamReads, <1>FetchReturns, <1>FetchFails, <1>SetLands, <1>SetFails, <1>Recover, <1>Abort, <1>LateSet, <1>Sources, <1>Tick, <1>Stutter
     DEF Next, RequestStep, Quiescent

\* Every reachable state is well typed, and a request that waits for a reply
\* or a write has one.
THEOREM TypeCorrect == Spec => []TypeOK
<1>1. TypeInv => TypeOK
  BY DEF TypeInv
<1>2. QED
  BY <1>1, InitTypeInv, NextTypeInv, PTL DEF Spec

-----------------------------------------------------------------------------
(* The key lock. *)

\* Of two requests in line for one lock, one is ahead of the other, and a
\* request holds the lock only when nobody is ahead of it.
LockInv ==
    /\ \A r, q \in Request :
          (r # q /\ SameLock(r, q) /\ pc[r] \in InLine /\ pc[q] \in InLine)
          => (q \in ahead[r] \/ r \in ahead[q])
    /\ \A r \in Request : pc[r] \in Holding => ahead[r] = {}

\* What a step does to the line: it leaves it alone, takes one request into it,
\* gives the lock to one, moves the holder on, or takes one out.
EntersLine(r) == pc[r] = "start" /\ pc' = [pc EXCEPT ![r] = "queued"] /\ Join(r)

PassesBy(r) == /\ pc[r] = "start"
               /\ pc' = [pc EXCEPT ![r] = "done"]
               /\ UNCHANGED ahead

GetsLock(r) == /\ pc[r] = "queued" /\ ahead[r] = {}
               /\ pc' = [pc EXCEPT ![r] = "fetching"]
               /\ UNCHANGED ahead

KeepsLock(r) == /\ pc[r] \in Holding
                /\ \E p \in Holding : pc' = [pc EXCEPT ![r] = p]
                /\ UNCHANGED ahead

LeavesLine(r) == /\ pc[r] \in InLine
                 /\ \E p \in Ended : pc' = [pc EXCEPT ![r] = p]
                 /\ Leave(r)

\* Every action joins a line, moves in it, leaves it, or leaves it alone.
LEMMA LineSteps ==
    ASSUME [Next]_vars
    PROVE  \/ UNCHANGED <<pc, ahead>>
           \/ \E r \in Request : \/ EntersLine(r)
                                 \/ PassesBy(r)
                                 \/ GetsLock(r)
                                 \/ KeepsLock(r)
                                 \/ LeavesLine(r)
<1> DEFINE Shape(r) == \/ UNCHANGED <<pc, ahead>>
                       \/ EntersLine(r)
                       \/ PassesBy(r)
                       \/ GetsLock(r)
                       \/ KeepsLock(r)
                       \/ LeavesLine(r)
<1>1. \A r \in Request : Lookup(r) => Shape(r)
  BY DEF Lookup, Return, EntersLine, PassesBy
<1>2. \A r \in Request : Recheck(r) => Shape(r)
  BY DEF Recheck, Return, GetsLock, LeavesLine, InLine, Ended
<1>3. \A r \in Request : UpstreamReads(r) => Shape(r)
  BY DEF UpstreamReads, KeepsLock, Holding
<1>4. \A r \in Request : FetchReturns(r) => Shape(r)
  BY DEF FetchReturns, KeepsLock, Holding
<1>5. \A r \in Request : FetchFails(r) => Shape(r)
  BY DEF FetchFails, KeepsLock, Holding
<1>6. \A r \in Request : SetLands(r) \/ SetFails(r) => Shape(r)
  BY DEF SetLands, SetFails, Return, LeavesLine, InLine, Holding, Ended
<1>7. \A r \in Request : Recover(r) => Shape(r)
  BY DEF Recover, Return, LeavesLine, InLine, Holding, Ended
<1>8. \A r \in Request : Abort(r) => Shape(r)
  BY DEF Abort, LeavesLine, Ended
<1>9. \A r \in Request : LateSet(r) => Shape(r)
  BY DEF LateSet
<1>10. ASSUME \/ \E k \in Key : UpstreamChanges(k) \/ Evict(k)
              \/ Tick \/ Quiescent \/ UNCHANGED vars
       PROVE  UNCHANGED <<pc, ahead>>
  BY <1>10 DEF UpstreamChanges, Evict, Tick, Quiescent, vars
<1>. QED
  BY <1>1, <1>2, <1>3, <1>4, <1>5, <1>6, <1>7, <1>8, <1>9, <1>10
     DEF Next, RequestStep

LEMMA InitLockInv == Init => LockInv
BY DEF Init, LockInv, InLine, Holding

LEMMA NextLockInv == TypeInv /\ LockInv /\ [Next]_vars => LockInv'
<1> SUFFICES ASSUME TypeInv, LockInv, [Next]_vars PROVE LockInv'
  OBVIOUS
<1>Types. TypeOK
  BY DEF TypeInv
<1>1. CASE UNCHANGED <<pc, ahead>>
  BY <1>1 DEF LockInv, SameLock
<1>2. ASSUME NEW r \in Request, EntersLine(r) PROVE LockInv'
  BY <1>2, <1>Types
     DEF LockInv, EntersLine, Join, SameLock, TypeOK, InLine, Holding
<1>3. ASSUME NEW r \in Request, PassesBy(r) PROVE LockInv'
  BY <1>3, <1>Types DEF LockInv, PassesBy, SameLock, TypeOK, InLine, Holding
<1>4. ASSUME NEW r \in Request, GetsLock(r) PROVE LockInv'
  BY <1>4, <1>Types DEF LockInv, GetsLock, SameLock, TypeOK, InLine, Holding
<1>5. ASSUME NEW r \in Request, KeepsLock(r) PROVE LockInv'
  BY <1>5, <1>Types DEF LockInv, KeepsLock, SameLock, TypeOK, InLine, Holding
<1>6. ASSUME NEW r \in Request, LeavesLine(r) PROVE LockInv'
  BY <1>6, <1>Types
     DEF LockInv, LeavesLine, Leave, SameLock, TypeOK, InLine, Holding, Ended
<1>. QED
  BY <1>1, <1>2, <1>3, <1>4, <1>5, <1>6, LineSteps

\* In the invariant, two requests that are past the lock are one.
LEMMA LockInvExcludes == TypeInv /\ LockInv => OneCallPerKey
BY DEF LockInv, OneCallPerKey, InLine

\* In one process at most one request for a key is between its second look at
\* the cache and the end of its lookup, whatever fails or is cancelled.
THEOREM SingleFlight == Spec => []OneCallPerKey
<1>1. Init => TypeInv /\ LockInv
  BY InitTypeInv, InitLockInv
<1>2. TypeInv /\ LockInv /\ [Next]_vars => (TypeInv /\ LockInv)'
  BY NextTypeInv, NextLockInv
<1>3. QED
  BY <1>1, <1>2, LockInvExcludes, PTL DEF Spec

-----------------------------------------------------------------------------
(* Answers, with either cache. *)

\* The deadlines of an entry fit its time, and it is not from the future.
Dated(k, e) ==
    /\ e.fetchedAt <= now
    /\ e.expiresAt = e.fetchedAt + FreshFor(k)
    /\ e.staleExpiresAt = e.expiresAt + StaleFor

\* So it is with what the cache holds and with every write on its way to it,
\* also when its request has ended.
EntriesDated ==
    /\ \A k \in Key : store[k] # None => Dated(k, store[k])
    /\ \A r \in Request : pending[r] # None => Dated(KeyOf[r], pending[r])

\* A request has an answer exactly when it is done.
AnsweredWhenDone == \A r \in Request : answer[r] # None <=> pc[r] = "done"

\* The four ways to give an answer, with the metrics that count them.
GivesHit(r, a) ==
    /\ Return(r, a, {"hit"})
    /\ Usable(store[KeyOf[r]], FALSE) /\ a = Hit(store[KeyOf[r]])

GivesMiss(r, a) ==
    /\ Return(r, a, {"miss"})
    /\ a.status = "MISS" /\ a.success

GivesStale(r, a) ==
    /\ Return(r, a, {"stale", "fallback"})
    /\ Usable(store[KeyOf[r]], TRUE) /\ a = Stale(store[KeyOf[r]])

GivesEmpty(r, a) ==
    /\ Return(r, a, {"miss", "fallback"})
    /\ a = Empty

Gives(r, a) ==
    /\ pc[r] \in {"start"} \cup InLine
    /\ GivesHit(r, a) \/ GivesMiss(r, a) \/ GivesStale(r, a) \/ GivesEmpty(r, a)

\* A step gives no answer, or one request gets one of the four.
GivesNone ==
    /\ UNCHANGED <<answer, metrics>>
    /\ \A r \in Request : pc'[r] = "done" <=> pc[r] = "done"

\* Every step gives at most one answer.
LEMMA AnswerSteps ==
    ASSUME TypeInv, [Next]_vars
    PROVE  GivesNone \/ \E r \in Request : \E a \in Answer : Gives(r, a)
<1> DEFINE Shape == GivesNone \/ \E r \in Request : \E a \in Answer : Gives(r, a)
<1> USE DEF TypeInv
<1>1. ASSUME NEW r \in Request, NEW e \in CacheGet(KeyOf[r], FALSE), e # None,
             pc[r] \in {"start", "queued"}, Return(r, Hit(e), {"hit"})
      PROVE  Shape
  <2>1. e = store[KeyOf[r]] /\ Usable(e, FALSE) BY <1>1, CacheGetReturns
  <2>2. e \in Entry BY <1>1, <2>1, RequestAssumption DEF TypeOK
  <2>3. Hit(e) \in Answer BY <2>2, AnswersTyped
  <2>4. Gives(r, Hit(e)) BY <1>1, <2>1 DEF Gives, GivesHit, InLine
  <2> QED BY <2>3, <2>4
<1>2. ASSUME NEW r \in Request, Lookup(r) \/ Recheck(r) PROVE Shape
  <2>1. CASE \E e \in CacheGet(KeyOf[r], FALSE) : e # None /\ Return(r, Hit(e), {"hit"})
    BY <1>1, <1>2, <2>1 DEF Lookup, Recheck
  <2>2. CASE /\ UNCHANGED <<answer, metrics>>
             /\ pc[r] \in {"start", "queued"}
             /\ \E p \in {"queued", "fetching"} : pc' = [pc EXCEPT ![r] = p]
    BY <2>2 DEF GivesNone, TypeOK
  <2> QED BY <1>2, <2>1, <2>2 DEF Lookup, Recheck
<1>3. ASSUME NEW r \in Request, UpstreamReads(r) \/ FetchReturns(r) \/ FetchFails(r)
      PROVE  Shape
  BY <1>3 DEF UpstreamReads, FetchReturns, FetchFails, GivesNone, TypeOK
<1>4. ASSUME NEW r \in Request, SetLands(r) \/ SetFails(r) PROVE Shape
  <2>1. pending[r] \in Entry BY <1>4 DEF InFlightTyped, SetLands, SetFails
  <2>2. Miss(pending[r]) \in Answer BY <2>1, AnswersTyped
  <2>3. Gives(r, Miss(pending[r]))
    BY <1>4 DEF SetLands, SetFails, Gives, GivesMiss, Miss, Result, InLine, Holding
  <2> QED BY <2>2, <2>3
<1>5. ASSUME NEW r \in Request, Recover(r) PROVE Shape
  <2>0. pc[r] \in InLine BY <1>5 DEF Recover, InLine, Holding
  <2>1. PICK e \in CacheGet(KeyOf[r], TRUE) :
          \/ e # None /\ Return(r, Stale(e), {"stale", "fallback"})
          \/ e = None /\ Return(r, Empty, {"miss", "fallback"})
    BY <1>5 DEF Recover
  <2>2. CASE e # None
    <3>1. e = store[KeyOf[r]] /\ Usable(e, TRUE) BY <2>2, CacheGetReturns
    <3>2. Stale(e) \in Answer
      BY <2>2, <3>1, AnswersTyped, RequestAssumption DEF TypeOK
    <3>3. Gives(r, Stale(e)) BY <2>0, <2>1, <2>2, <3>1 DEF Gives, GivesStale
    <3> QED BY <3>2, <3>3
  <2>3. CASE e = None
    <3>1. Gives(r, Empty) BY <2>0, <2>1, <2>3 DEF Gives, GivesEmpty
    <3> QED BY <3>1, EmptyTyped
  <2> QED BY <2>2, <2>3
<1>6. ASSUME NEW r \in Request, Abort(r) \/ LateSet(r) PROVE Shape
  BY <1>6 DEF Abort, LateSet, GivesNone, TypeOK, InLine, Holding
<1>7. ASSUME \/ \E k \in Key : UpstreamChanges(k) \/ Evict(k)
             \/ Tick \/ Quiescent \/ UNCHANGED vars
      PROVE  Shape
  BY <1>7 DEF UpstreamChanges, Evict, Tick, Quiescent, vars, GivesNone
<1> QED
  BY <1>2, <1>3, <1>4, <1>5, <1>6, <1>7 DEF Next, RequestStep

-----------------------------------------------------------------------------
(* The age of the answers. *)

AgeInv == EntriesDated /\ AgeWithinWindow

LEMMA InitAgeInv == Init => AgeInv
BY DEF Init, AgeInv, EntriesDated, AgeWithinWindow

LEMMA NextEntriesDated == TypeInv /\ EntriesDated /\ [Next]_vars => EntriesDated'
<1> SUFFICES ASSUME TypeInv, EntriesDated, [Next]_vars PROVE EntriesDated'
  OBVIOUS
<1>1. /\ now \in Nat
      /\ store \in [Key -> Entry \cup {None}]
      /\ pending \in [Request -> Entry \cup {None}]
      /\ \A r \in Request : KeyOf[r] \in Key
  BY RequestAssumption DEF TypeInv, TypeOK
\* Entries are dropped, moved to the cache, or new.
<1> DEFINE Keeps == /\ now' = now
                    /\ \A k \in Key : store'[k] # None =>
                         \/ store'[k] = store[k]
                         \/ \E r \in Request : /\ KeyOf[r] = k /\ pending[r] # None
                                               /\ store'[k] = pending[r]
                    /\ \A r \in Request : pending'[r] # None =>
                         \/ pending'[r] = pending[r]
                         \/ \E v : pending'[r] = NewEntry(KeyOf[r], v)
<1>2. ASSUME NEW k \in Key, PopExpired(k)
      PROVE  \A l \in Key : store'[l] # None => store'[l] = store[l]
  BY <1>1, <1>2 DEF PopExpired
<1>3. ASSUME NEW r \in Request, Lookup(r) \/ Recheck(r) \/ Recover(r) PROVE Keeps
  BY <1>1, <1>2, <1>3 DEF Lookup, Recheck, Recover
<1>4. ASSUME NEW r \in Request, UpstreamReads(r) \/ FetchReturns(r) \/ FetchFails(r)
      PROVE  Keeps
  BY <1>1, <1>4 DEF UpstreamReads, FetchReturns, FetchFails
<1>5. ASSUME NEW r \in Request, SetLands(r) \/ LateSet(r) PROVE Keeps
  <2>1. pending[r] \in Entry /\ pending[r] # None
    BY <1>1, <1>5, NoneAssumption DEF SetLands, LateSet, TypeInv, InFlightTyped
  <2> QED BY <1>1, <1>5, <2>1 DEF SetLands, LateSet
<1>6. ASSUME NEW r \in Request, SetFails(r) \/ Abort(r) PROVE Keeps
  BY <1>1, <1>6 DEF SetFails, Abort
<1>7. ASSUME NEW k \in Key, UpstreamChanges(k) \/ Evict(k) PROVE Keeps
  BY <1>1, <1>7 DEF UpstreamChanges, Evict
<1>8. ASSUME Keeps PROVE EntriesDated'
  <2>1. ASSUME NEW k \in Key, NEW v PROVE Dated(k, NewEntry(k, v))
    BY <1>1, Lifetimes DEF Dated, NewEntry
  <2>2. \A k \in Key : store'[k] # None => Dated(k, store'[k])
    BY <1>8 DEF EntriesDated
  <2>3. \A r \in Request : pending'[r] # None => Dated(KeyOf[r], pending'[r])
    BY <1>1, <1>8, <2>1 DEF EntriesDated
  <2> QED BY <1>8, <2>2, <2>3 DEF EntriesDated, Dated, FreshFor, StaleFor
<1>9. CASE Tick
  BY <1>1, <1>9 DEF Tick, EntriesDated, Dated, FreshFor, StaleFor, TypeInv, TypeOK, Entry
<1>10. CASE UNCHANGED vars BY <1>10 DEF vars, EntriesDated, Dated, FreshFor, StaleFor
<1> HIDE DEF Keeps
<1> QED
  BY <1>3, <1>4, <1>5, <1>6, <1>7, <1>8, <1>9, <1>10 DEF Next, RequestStep, Quiescent

LEMMA NextAgeInv == TypeInv /\ AgeInv /\ [Next]_vars => AgeInv'
<1> SUFFICES ASSUME TypeInv, AgeInv, [Next]_vars PROVE AgeInv'
  OBVIOUS
<1>1. EntriesDated' BY NextEntriesDated DEF AgeInv
<1>2. CASE GivesNone
  BY <1>1, <1>2 DEF AgeInv, AgeWithinWindow, GivesNone, FreshFor, StaleFor
<1>3. ASSUME NEW r \in Request, NEW a \in Answer, Gives(r, a) PROVE AgeWithinWindow'
  <2> DEFINE e == store[KeyOf[r]]
             InWindow(k, b) == /\ b.status = "HIT" => b.staleness \in 0 .. FreshFor(k)
                               /\ b.status = "STALE" =>
                                    b.staleness \in 0 .. FreshFor(k) + StaleFor
  <2>1. KeyOf[r] \in Key /\ now \in Nat BY RequestAssumption DEF TypeInv, TypeOK
  <2>2. FreshFor(KeyOf[r]) \in Nat /\ StaleFor \in Nat BY <2>1, Lifetimes
  <2>3. ASSUME e # None
        PROVE  /\ e.fetchedAt \in Nat /\ e.fetchedAt <= now
               /\ e.expiresAt = e.fetchedAt + FreshFor(KeyOf[r])
               /\ e.staleExpiresAt = e.expiresAt + StaleFor
    BY <2>1, <2>3 DEF AgeInv, EntriesDated, Dated, TypeInv, TypeOK, Entry
  <2> HIDE DEF e
  <2>4. InWindow(KeyOf[r], a)
    <3>1. CASE GivesHit(r, a)
      <4>1. e # None /\ now <= e.expiresAt /\ a = Hit(e) BY <3>1 DEF GivesHit, Usable, e
      <4> QED BY <2>1, <2>2, <2>3, <4>1 DEF Hit, Result, Staleness
    <3>2. CASE GivesMiss(r, a) BY <3>2 DEF GivesMiss
    <3>3. CASE GivesStale(r, a)
      <4>1. e # None /\ now <= e.staleExpiresAt /\ a = Stale(e)
        BY <3>3 DEF GivesStale, Usable, e
      <4> QED BY <2>1, <2>2, <2>3, <4>1 DEF Stale, Result, Staleness
    <3>4. CASE GivesEmpty(r, a) BY <3>4 DEF GivesEmpty, Empty, Result
    <3> QED BY <1>3, <3>1, <3>2, <3>3, <3>4 DEF Gives
  <2> HIDE DEF InWindow
  <2>5. answer' = [answer EXCEPT ![r] = a]
    BY <1>3 DEF Gives, GivesHit, GivesMiss, GivesStale, GivesEmpty, Return
  <2>6. \A q \in Request : answer'[q] = IF q = r THEN a ELSE answer[q]
    BY <2>5 DEF TypeInv, TypeOK
  <2>7. \A q \in Request : answer[q] # None => InWindow(KeyOf[q], answer[q])
    BY DEF AgeInv, AgeWithinWindow, InWindow
  <2>8. \A q \in Request : answer'[q] # None => InWindow(KeyOf[q], answer'[q])
    BY <2>4, <2>6, <2>7
  <2> QED BY <2>8 DEF AgeWithinWindow, InWindow, FreshFor, StaleFor
<1> QED BY <1>1, <1>2, <1>3, AnswerSteps DEF AgeInv

\* No data is served past the deadline its status allows, with either cache,
\* also when writes land late or other instances write the same keys.
THEOREM NothingPastItsWindow == Spec => []AgeWithinWindow
<1>1. Init => TypeInv /\ AgeInv BY InitTypeInv, InitAgeInv
<1>2. TypeInv /\ AgeInv /\ [Next]_vars => (TypeInv /\ AgeInv)'
  BY NextTypeInv, NextAgeInv
<1>3. AgeInv => AgeWithinWindow BY DEF AgeInv
<1> QED BY <1>1, <1>2, <1>3, PTL DEF Spec

-----------------------------------------------------------------------------
(* The metrics. *)

Counts(m, a) ==
    \/ m = "hit" /\ a.status = "HIT"
    \/ m = "miss" /\ a.status = "MISS"
    \/ m = "stale" /\ a.status = "STALE"
    \/ m = "fallback" /\ ~a.success

Counted(m) == {r \in Request : answer[r] # None /\ Counts(m, answer[r])}

CountInv ==
    /\ AnsweredWhenDone
    /\ \A m \in Counter : metrics[m] = Cardinality(Counted(m))

\* The requests that were counted are finitely many.
LEMMA CountedFinite ==
    ASSUME NEW m
    PROVE  IsFiniteSet(Counted(m)) /\ Cardinality(Counted(m)) \in Nat
<1>1. Counted(m) \subseteq Request BY DEF Counted
<1> QED BY <1>1, FiniteAssumption, FS_Subset, FS_CardinalityType

LEMMA InitCountInv == Init => CountInv
<1> SUFFICES ASSUME Init PROVE CountInv OBVIOUS
<1>1. \A m \in Counter : Counted(m) = {} BY DEF Init, Counted
<1> QED BY <1>1, FS_EmptySet DEF Init, CountInv, AnsweredWhenDone

LEMMA NextCountInv == TypeInv /\ CountInv /\ [Next]_vars => CountInv'
<1> SUFFICES ASSUME TypeInv, CountInv, [Next]_vars PROVE CountInv'
  OBVIOUS
<1>1. CASE GivesNone
  <2>1. AnsweredWhenDone' BY <1>1 DEF GivesNone, CountInv, AnsweredWhenDone
  <2>2. \A m \in Counter : Counted(m)' = Counted(m) BY <1>1 DEF GivesNone, Counted
  <2> QED BY <1>1, <2>1, <2>2 DEF GivesNone, CountInv, Counter
<1>2. ASSUME NEW r \in Request, NEW a \in Answer, Gives(r, a) PROVE CountInv'
  <2>1. PICK counters \in SUBSET Counter :
          /\ Return(r, a, counters)
          /\ \A m \in Counter : m \in counters <=> Counts(m, a)
    <3>1. CASE GivesHit(r, a)
      <4>1. a.status = "HIT" /\ a.success BY <3>1 DEF GivesHit, Hit, Result
      <4>2. Return(r, a, {"hit"}) BY <3>1 DEF GivesHit
      <4> QED BY <4>1, <4>2 DEF Counts, Counter
    <3>2. CASE GivesMiss(r, a)
      <4>2. a.status = "MISS" /\ a.success /\ Return(r, a, {"miss"}) BY <3>2 DEF GivesMiss
      <4> QED BY <4>2 DEF Counts, Counter
    <3>3. CASE GivesStale(r, a)
      <4>1. a.status = "STALE" /\ ~a.success BY <3>3 DEF GivesStale, Stale, Result
      <4>2. Return(r, a, {"stale", "fallback"}) BY <3>3 DEF GivesStale
      <4> QED BY <4>1, <4>2 DEF Counts, Counter
    <3>4. CASE GivesEmpty(r, a)
      <4>1. a.status = "MISS" /\ ~a.success BY <3>4 DEF GivesEmpty, Empty, Result
      <4>2. Return(r, a, {"miss", "fallback"}) BY <3>4 DEF GivesEmpty
      <4> QED BY <4>1, <4>2 DEF Counts, Counter
    <3> QED BY <1>2, <3>1, <3>2, <3>3, <3>4 DEF Gives
  <2>2. /\ pc' = [pc EXCEPT ![r] = "done"]
        /\ answer' = [answer EXCEPT ![r] = a]
        /\ metrics' = [m \in Counter |-> IF m \in counters THEN metrics[m] + 1 ELSE metrics[m]]
    BY <2>1 DEF Return
  <2>3. a # None BY NoneAssumption
  <2>4. answer[r] = None
    BY <1>2 DEF Gives, CountInv, AnsweredWhenDone, InLine, Holding
  <2>5. \A q \in Request : answer'[q] = IF q = r THEN a ELSE answer[q]
    BY <2>2 DEF TypeInv, TypeOK
  <2>6. AnsweredWhenDone'
    BY <2>2, <2>3, <2>5 DEF TypeInv, TypeOK, CountInv, AnsweredWhenDone
  <2>7. ASSUME NEW m \in Counter
        PROVE  metrics'[m] = Cardinality(Counted(m)')
    <3>1. Counted(m)' = {q \in Request : answer'[q] # None /\ Counts(m, answer'[q])}
      BY DEF Counted, Counts
    <3>2. metrics[m] = Cardinality(Counted(m)) BY DEF CountInv
    <3>3. CASE m \in counters
      <4>1. Counts(m, a) BY <2>1, <3>3
      <4>2. Counted(m)' = Counted(m) \cup {r} /\ r \notin Counted(m)
        BY <2>3, <2>4, <2>5, <3>1, <4>1 DEF Counted
      <4>3. Cardinality(Counted(m)') = Cardinality(Counted(m)) + 1
        BY <4>2, CountedFinite, FS_AddElement
      <4> QED BY <2>2, <3>2, <3>3, <4>3
    <3>4. CASE m \notin counters
      <4>1. ~Counts(m, a) BY <2>1, <3>4
      <4>2. Counted(m)' = Counted(m)
        BY <2>3, <2>4, <2>5, <3>1, <4>1 DEF Counted
      <4> QED BY <2>2, <3>2, <3>4, <4>2
    <3> QED BY <3>3, <3>4
  <2> QED BY <2>6, <2>7 DEF CountInv, Counter
<1> QED BY <1>1, <1>2, AnswerSteps

\* In the invariant, the counters agree with the answers.
LEMMA CountInvAccounts == CountInv => MetricsAccount
BY DEF CountInv, Counted, Counts, Counter, MetricsAccount

\* The cache and fallback counters count every answer once, under its status,
\* and nothing else.
THEOREM MetricsCountAnswers == Spec => []MetricsAccount
<1>1. Init => TypeInv /\ CountInv BY InitTypeInv, InitCountInv
<1>2. TypeInv /\ CountInv /\ [Next]_vars => (TypeInv /\ CountInv)'
  BY NextTypeInv, NextCountInv
<1>3. CountInv => MetricsAccount BY CountInvAccounts
<1> QED BY <1>1, <1>2, <1>3, PTL DEF Spec

-----------------------------------------------------------------------------
(* With the memory cache.  The argument: the holder of the key lock alone    *)
(* replaces the entry of its key, and it got past the second look only       *)
(* because the entry had expired; so while it fetches nobody is served, and  *)
(* what it stores is later, by more than the TTL, than everything that was   *)
(* served before.                                                            *)

HasData(r) == answer[r] # None /\ answer[r].value # None

IsEmpty(r) == answer[r] # None /\ answer[r].value = None

\* The deadlines of an entry fit its time, and it is not from the future.
SoundEntry(k, e) ==
    /\ e.fetchedAt <= now
    /\ e.expiresAt = e.fetchedAt + FreshFor(k)
    /\ e.staleExpiresAt = e.expiresAt + StaleFor
    /\ e.value <= upstream[k]

EntriesSound ==
    /\ \A k \in Key : store[k] # None => SoundEntry(k, store[k])
    /\ \A r \in Request : IF pc[r] = "storing"
                          THEN SoundEntry(KeyOf[r], pending[r])
                          ELSE pending[r] = None
    /\ \A r \in Request : pc[r] = "replying" => reply[r] <= upstream[KeyOf[r]]

\* While a request holds the lock the entry of its key has expired, and what
\* the request brings is newer.
HolderSeesExpired ==
    \A r \in Request :
        pc[r] \in Holding /\ store[KeyOf[r]] # None =>
            /\ now > store[KeyOf[r]].expiresAt
            /\ pc[r] = "replying" => reply[r] >= store[KeyOf[r]].value
            /\ pc[r] = "storing" =>
                 /\ pending[r].fetchedAt > store[KeyOf[r]].expiresAt
                 /\ pending[r].value >= store[KeyOf[r]].value

\* The entry of a key is the one r was served, or one fetched a TTL later; if
\* there is none, what r was served is past its windows.
ServedFrom(r) ==
    LET k == KeyOf[r] IN
    /\ answer[r].fetchedAt <= now
    /\ answer[r].value <= upstream[k]
    /\ IF store[k] = None
       THEN now > answer[r].fetchedAt + FreshFor(k) + StaleFor
       ELSE \/ /\ store[k].fetchedAt = answer[r].fetchedAt
               /\ store[k].value = answer[r].value
            \/ /\ store[k].fetchedAt > answer[r].fetchedAt + FreshFor(k)
               /\ store[k].value >= answer[r].value

AnswersServed == \A r \in Request : HasData(r) => ServedFrom(r)

\* What a holder brings is newer than every answer given for its key, and no
\* failure has been answered since its fetch.
HolderBringsNewer ==
    \A r, q \in Request :
        KeyOf[r] = KeyOf[q] =>
            /\ pc[r] = "replying" /\ HasData(q) => reply[r] >= answer[q].value
            /\ pc[r] = "storing" /\ HasData(q) =>
                 /\ pending[r].fetchedAt > answer[q].fetchedAt + FreshFor(KeyOf[q])
                 /\ pending[r].value >= answer[q].value
            /\ pc[r] = "storing" /\ IsEmpty(q) =>
                 answer[q].fetchedAt <= pending[r].fetchedAt

\* An empty answer is a failure, given in the past.
EmptiesPast ==
    \A r \in Request : IsEmpty(r) => /\ ~answer[r].success
                                     /\ answer[r].fetchedAt <= now

MemoryInv ==
    /\ EntriesSound
    /\ HolderSeesExpired
    /\ AnswersServed
    /\ HolderBringsNewer
    /\ EmptiesPast
    /\ AnsweredWhenDone
    /\ FetchesOneTtlApart
    /\ AgeFitsStatus
    /\ EmptyOnlyPastWindow
    /\ TimesOrderData

-----------------------------------------------------------------------------
(* Lemmas. *)

Inv == TypeInv /\ LockInv /\ MemoryInv

LEMMA InitMemoryInv == Init => MemoryInv
BY DEF Init, MemoryInv, EntriesSound, HolderSeesExpired, AnswersServed,
       HolderBringsNewer, EmptiesPast, AnsweredWhenDone, FetchesOneTtlApart,
       AgeFitsStatus, EmptyOnlyPastWindow, TimesOrderData, HasData, IsEmpty,
       Fetched, Holding

\* The memory cache returns exactly the usable entry.
LEMMA MemoryGet ==
    ASSUME Backend = "memory", NEW k, NEW allowStale,
           NEW e \in CacheGet(k, allowStale)
    PROVE  e = IF Usable(store[k], allowStale) THEN store[k] ELSE None
BY DEF CacheGet

\* Only the answers decide what holds between pairs of them.
LEMMA AnswersUnchanged ==
    ASSUME MemoryInv, UNCHANGED answer
    PROVE  /\ FetchesOneTtlApart' /\ AgeFitsStatus'
           /\ EmptyOnlyPastWindow' /\ TimesOrderData'
BY DEF MemoryInv, FetchesOneTtlApart, AgeFitsStatus, EmptyOnlyPastWindow,
       TimesOrderData, Fetched, FreshFor, StaleFor

\* With one process, all requests for a key share its lock.
LEMMA OneLock ==
    ASSUME Backend = "memory", NEW r \in Request, NEW q \in Request,
           KeyOf[r] = KeyOf[q]
    PROVE  SameLock(r, q)
BY MemoryAssumption DEF SameLock

\* Entries, clocks and places as the provers need them.
LEMMA Shapes ==
    ASSUME TypeInv
    PROVE  /\ now \in Nat
           /\ upstream \in [Key -> Nat]
           /\ \A k \in Key : store[k] # None =>
                /\ store[k].value \in Nat /\ store[k].fetchedAt \in Nat
                /\ store[k].expiresAt \in Nat /\ store[k].staleExpiresAt \in Nat
           /\ \A r \in Request : HasData(r) =>
                answer[r].value \in Nat /\ answer[r].fetchedAt \in Nat
           /\ \A r \in Request : IsEmpty(r) => answer[r].fetchedAt \in Nat
           /\ \A r \in Request : pc[r] = "storing" =>
                /\ pending[r].value \in Nat /\ pending[r].fetchedAt \in Nat
                /\ pending[r].expiresAt \in Nat /\ pending[r].staleExpiresAt \in Nat
           /\ \A r \in Request : pc[r] = "replying" => reply[r] \in Nat
           /\ \A r \in Request : KeyOf[r] \in Key
BY RequestAssumption
   DEF TypeInv, TypeOK, InFlightTyped, Entry, Answer, HasData, IsEmpty

\* Forgetting an entry past its stale window, or nothing.
Pops(k) == \/ UNCHANGED store
           \/ /\ store[k] # None
              /\ now > store[k].staleExpiresAt
              /\ store' = [store EXCEPT ![k] = None]

\* A get leaves the store alone or drops an expired entry.
LEMMA PopEffect ==
    ASSUME NEW k, PopExpired(k)
    PROVE  Pops(k)
BY DEF PopExpired, Pops

\* A request that gives or awaits no answer may drop an expired entry and go
\* from the start to the line, or from the line to its fetch.
LEMMA Silent ==
    ASSUME Inv, NEW r \in Request, Pops(KeyOf[r]),
           UNCHANGED <<now, upstream, reply, pending, answer>>,
           \/ pc[r] = "start" /\ pc' = [pc EXCEPT ![r] = "queued"]
           \/ /\ pc[r] = "queued" /\ pc' = [pc EXCEPT ![r] = "fetching"]
              /\ store[KeyOf[r]] # None => now > store[KeyOf[r]].expiresAt
    PROVE  MemoryInv'
<1>Types. TypeOK
  BY DEF Inv, TypeInv
<1>1. EntriesSound'
  BY <1>Types, Shapes DEF Inv, MemoryInv, EntriesSound, SoundEntry, Pops, TypeOK,
     FreshFor, StaleFor
<1>2. HolderSeesExpired'
  BY <1>Types, Shapes DEF Inv, MemoryInv, HolderSeesExpired, Pops, TypeOK, Holding
<1>3. AnswersServed'
  BY <1>Types, Shapes, Lifetimes
     DEF Inv, MemoryInv, AnswersServed, ServedFrom, EntriesSound, SoundEntry,
         Pops, TypeOK, HasData
<1>4. HolderBringsNewer' /\ EmptiesPast' /\ AnsweredWhenDone'
  BY <1>Types
     DEF Inv, MemoryInv, HolderBringsNewer, EmptiesPast, AnsweredWhenDone,
         TypeOK, HasData, IsEmpty
<1>5. QED
  BY <1>1, <1>2, <1>3, <1>4, AnswersUnchanged DEF Inv, MemoryInv

\* A usable entry is not dropped by the lookup that finds it.
LEMMA UsableStays ==
    ASSUME TypeInv, NEW k \in Key, PopExpired(k), NEW allowStale,
           Usable(store[k], allowStale)
    PROVE  UNCHANGED store
BY Shapes DEF PopExpired, Usable

\* A hit serves the entry of the key.
LEMMA Serves ==
    ASSUME Inv, NEW r \in Request, pc[r] \in {"start", "queued"},
           Usable(store[KeyOf[r]], FALSE),
           UNCHANGED <<now, upstream, store, reply, pending>>,
           pc' = [pc EXCEPT ![r] = "done"],
           answer' = [answer EXCEPT ![r] = Hit(store[KeyOf[r]])]
    PROVE  MemoryInv'
<1> DEFINE k == KeyOf[r]
           e == store[k]
<1>Types. TypeOK
  BY DEF Inv, TypeInv
<1>a. /\ answer'[r] = Hit(e)
      /\ \A q \in Request \ {r} : answer'[q] = answer[q] /\ pc'[q] = pc[q]
      /\ answer[r] = None
  BY <1>Types DEF TypeOK, Inv, MemoryInv, AnsweredWhenDone
<1>b. /\ Hit(e).status = "HIT" /\ Hit(e).success = TRUE
      /\ Hit(e).value = e.value /\ Hit(e).fetchedAt = e.fetchedAt
      /\ Hit(e).staleness = now - e.fetchedAt
      /\ Hit(e) # None
  <2>1. e \in Entry /\ e.fetchedAt <= now
    BY <1>Types, Shapes
       DEF Usable, Inv, MemoryInv, EntriesSound, SoundEntry, TypeOK
  <2>2. Hit(e) \in Answer
    BY <1>Types, <2>1, AnswersTyped
  <2>3. QED
    BY <2>1, <2>2, NoneAssumption DEF Hit, Result, Staleness
<1>c. /\ e # None /\ e.value # None
      /\ e.value \in Nat /\ e.fetchedAt \in Nat /\ now \in Nat
      /\ e.fetchedAt <= now /\ now <= e.fetchedAt + FreshFor(k)
      /\ e.value <= upstream[k]
  BY Shapes, Lifetimes, NoneAssumption
     DEF Usable, Inv, MemoryInv, EntriesSound, SoundEntry
<1>d. ~IsEmpty(r)' /\ HasData(r)' /\ ~Fetched(r)'
  BY <1>a, <1>b, <1>c DEF IsEmpty, HasData, Fetched
<1>1. EntriesSound' /\ HolderSeesExpired'
  BY <1>Types DEF Inv, MemoryInv, EntriesSound, HolderSeesExpired, SoundEntry,
                  TypeOK, Holding
<1>2. AnswersServed'
  <2>1. ServedFrom(r)'
    BY <1>a, <1>b, <1>c DEF ServedFrom
  <2>2. \A q \in Request \ {r} : HasData(q)' => ServedFrom(q)'
    BY <1>a DEF Inv, MemoryInv, AnswersServed, HasData, ServedFrom
  <2>3. QED
    BY <2>1, <2>2 DEF AnswersServed
<1>3. HolderBringsNewer'
  <2>1. \A q \in Request : KeyOf[q] = k => pc[q] \notin Holding
    BY <1>c, Shapes, Lifetimes
       DEF Inv, MemoryInv, HolderSeesExpired, Usable
  <2>2. QED
    BY <1>a, <1>d, <2>1
       DEF Inv, MemoryInv, HolderBringsNewer, HasData, IsEmpty, Holding
<1>4. EmptiesPast' /\ AnsweredWhenDone'
  BY <1>Types, <1>a, <1>b, <1>d
     DEF Inv, MemoryInv, EmptiesPast, AnsweredWhenDone, IsEmpty, TypeOK
<1>5. FetchesOneTtlApart'
  BY <1>a, <1>d DEF Inv, MemoryInv, FetchesOneTtlApart, Fetched
<1>6. AgeFitsStatus'
  BY <1>a, <1>b, <1>c, Lifetimes, Shapes DEF Inv, MemoryInv, AgeFitsStatus
<1>7. EmptyOnlyPastWindow'
  BY <1>a, <1>d DEF Inv, MemoryInv, EmptyOnlyPastWindow, Fetched, IsEmpty
<1>8. TimesOrderData'
  <2>1. \A q \in Request : KeyOf[q] = k /\ q # r /\ HasData(q) =>
          \/ e.fetchedAt = answer[q].fetchedAt /\ e.value = answer[q].value
          \/ e.fetchedAt > answer[q].fetchedAt /\ e.value >= answer[q].value
    BY <1>c, Shapes, Lifetimes DEF Inv, MemoryInv, AnswersServed, ServedFrom
  <2>2. QED
    BY <1>a, <1>b, <1>c, <2>1, Shapes DEF Inv, MemoryInv, TimesOrderData, HasData
<1>9. QED
  BY <1>1, <1>2, <1>3, <1>4, <1>5, <1>6, <1>7, <1>8 DEF MemoryInv

\* While a request holds the lock every answer for its key is past its TTL.
LEMMA AnswersPastTtl ==
    ASSUME Inv, NEW r \in Request, pc[r] \in Holding,
           NEW q \in Request, KeyOf[q] = KeyOf[r], HasData(q)
    PROVE  now > answer[q].fetchedAt + FreshFor(KeyOf[q])
BY Shapes, Lifetimes
   DEF Inv, MemoryInv, AnswersServed, ServedFrom, HolderSeesExpired,
       EntriesSound, SoundEntry

\* A source that is read keeps the invariant.
LEMMA Reads ==
    ASSUME Inv, NEW r \in Request, UpstreamReads(r)
    PROVE  MemoryInv'
<1>Types. TypeOK
  BY DEF Inv, TypeInv
<1>1. EntriesSound'
  BY <1>Types, Shapes
     DEF UpstreamReads, Inv, MemoryInv, EntriesSound, SoundEntry, TypeOK
<1>2. HolderSeesExpired'
  BY <1>Types, Shapes
     DEF UpstreamReads, Inv, MemoryInv, HolderSeesExpired, EntriesSound,
         SoundEntry, TypeOK, Holding
<1>3. AnswersServed' /\ EmptiesPast' /\ AnsweredWhenDone'
  BY <1>Types
     DEF UpstreamReads, Inv, MemoryInv, AnswersServed, ServedFrom, EmptiesPast,
         AnsweredWhenDone, TypeOK, HasData, IsEmpty
<1>4. HolderBringsNewer'
  BY <1>Types, Shapes
     DEF UpstreamReads, Inv, MemoryInv, HolderBringsNewer, AnswersServed,
         ServedFrom, TypeOK, HasData, IsEmpty
<1>5. QED
  BY <1>1, <1>2, <1>3, <1>4, AnswersUnchanged DEF UpstreamReads, Inv, MemoryInv

\* A call that returns brings an entry later than all that were served.
LEMMA Returns ==
    ASSUME Inv, NEW r \in Request, FetchReturns(r)
    PROVE  MemoryInv'
<1>Types. TypeOK
  BY DEF Inv, TypeInv
<1> DEFINE e == NewEntry(KeyOf[r], reply[r])
<1>a. /\ e.value = reply[r] /\ e.fetchedAt = now
      /\ e.expiresAt = now + FreshFor(KeyOf[r])
      /\ e.staleExpiresAt = e.expiresAt + StaleFor
  BY Shapes, Lifetimes DEF NewEntry
<1>b. /\ pending'[r] = e
      /\ \A q \in Request \ {r} : pending'[q] = pending[q] /\ pc'[q] = pc[q]
      /\ pc[r] = "replying" /\ pc'[r] = "storing"
      /\ \A q \in Request \ {r} : reply'[q] = reply[q]
      /\ UNCHANGED <<now, upstream, store, answer>>
  BY <1>Types DEF FetchReturns, TypeOK
<1> HIDE DEF e
<1>1. EntriesSound'
  BY <1>a, <1>b, Shapes DEF Inv, MemoryInv, EntriesSound, SoundEntry
<1>2. HolderSeesExpired'
  BY <1>a, <1>b, Shapes
     DEF Inv, MemoryInv, HolderSeesExpired, Holding
<1>3. AnswersServed' /\ EmptiesPast' /\ AnsweredWhenDone'
  BY <1>b
     DEF Inv, MemoryInv, AnswersServed, ServedFrom, EmptiesPast,
         AnsweredWhenDone, HasData, IsEmpty
<1>4. HolderBringsNewer'
  <2>1. \A q \in Request : KeyOf[q] = KeyOf[r] /\ HasData(q) =>
          now > answer[q].fetchedAt + FreshFor(KeyOf[q])
    BY <1>b, AnswersPastTtl DEF Holding
  <2>2. QED
    BY <1>a, <1>b, <2>1, Shapes
       DEF Inv, MemoryInv, HolderBringsNewer, EmptiesPast, HasData, IsEmpty
<1>5. QED
  BY <1>b, <1>1, <1>2, <1>3, <1>4, AnswersUnchanged DEF Inv, MemoryInv

\* A call that fails or is given up keeps the invariant.
LEMMA Fails ==
    ASSUME Inv, NEW r \in Request,
           \/ FetchFails(r)
           \/ pc[r] # "storing" /\ Abort(r)
    PROVE  MemoryInv'
<1>Types. TypeOK
  BY DEF Inv, TypeInv
<1>a. /\ \A q \in Request \ {r} : /\ pending'[q] = pending[q]
                                  /\ pc'[q] = pc[q]
                                  /\ reply'[q] = reply[q]
      /\ pending'[r] = None /\ pc[r] \in InLine \ {"storing"}
      /\ pc'[r] \in {"recovering", "aborted"}
      /\ pc'[r] = "recovering" => pc[r] \in Holding
      /\ UNCHANGED <<now, upstream, store, answer>>
  BY <1>Types
     DEF Inv, MemoryInv, EntriesSound, FetchFails, Abort, TypeOK, InLine, Holding
<1>1. EntriesSound'
  BY <1>a DEF Inv, MemoryInv, EntriesSound, SoundEntry
<1>2. HolderSeesExpired'
  BY <1>a DEF Inv, MemoryInv, HolderSeesExpired, Holding
<1>3. AnswersServed' /\ EmptiesPast' /\ AnsweredWhenDone'
  BY <1>a
     DEF Inv, MemoryInv, AnswersServed, ServedFrom, EmptiesPast,
         AnsweredWhenDone, HasData, IsEmpty, InLine, Holding
<1>4. HolderBringsNewer'
  BY <1>a DEF Inv, MemoryInv, HolderBringsNewer, HasData, IsEmpty
<1>5. QED
  BY <1>a, <1>1, <1>2, <1>3, <1>4, AnswersUnchanged DEF Inv, MemoryInv

\* No other request for the key holds the lock when r does.
LEMMA OnlyHolder ==
    ASSUME Inv, Backend = "memory", NEW r \in Request, pc[r] \in Holding,
           NEW q \in Request, q # r, KeyOf[q] = KeyOf[r]
    PROVE  pc[q] \notin Holding
BY LockInvExcludes, OneLock DEF Inv, OneCallPerKey

\* A write of the holder, who alone replaces the entry, keeps the invariant.
LEMMA Stores ==
    ASSUME Inv, Backend = "memory", NEW r \in Request, SetLands(r)
    PROVE  MemoryInv'
<1> DEFINE k == KeyOf[r]
           e == pending[r]
           a == Miss(e)
<1>Types. TypeOK
  BY DEF Inv, TypeInv
<1>a. /\ \A q \in Request \ {r} : /\ pending'[q] = pending[q]
                                  /\ pc'[q] = pc[q]
                                  /\ answer'[q] = answer[q]
      /\ pending'[r] = None /\ answer'[r] = a
      /\ pc[r] = "storing" /\ pc'[r] = "done" /\ answer[r] = None
      /\ store'[k] = e /\ \A j \in Key \ {k} : store'[j] = store[j]
      /\ UNCHANGED <<now, upstream, reply>>
  BY <1>Types, Shapes
     DEF Inv, MemoryInv, AnsweredWhenDone, SetLands, Return, TypeOK
<1>b. e \in Entry /\ SoundEntry(k, e)
  BY <1>a DEF Inv, TypeInv, InFlightTyped, MemoryInv, EntriesSound
<1>c. /\ e # None /\ e.value # None
      /\ e.value \in Nat /\ e.fetchedAt \in Nat /\ now \in Nat
      /\ e.fetchedAt <= now /\ e.value <= upstream[k]
  BY <1>b, Shapes, NoneAssumption DEF Inv, Entry, SoundEntry
<1>d. /\ a.status = "MISS" /\ a.success = TRUE
      /\ a.value = e.value /\ a.fetchedAt = e.fetchedAt
      /\ a # None
  <2>1. a \in Answer
    BY <1>Types, <1>b, AnswersTyped
  <2>2. QED
    BY <2>1, NoneAssumption DEF Miss, Result
<1>e. HasData(r)' /\ Fetched(r)' /\ ~IsEmpty(r)'
  BY <1>a, <1>c, <1>d DEF HasData, Fetched, IsEmpty
<1>f. \A q \in Request \ {r} : KeyOf[q] = k => pc[q] \notin Holding
  BY <1>a, OnlyHolder DEF Holding
<1>g. \A q \in Request \ {r} : KeyOf[q] = k /\ HasData(q) =>
         /\ e.fetchedAt > answer[q].fetchedAt + FreshFor(k)
         /\ e.value >= answer[q].value
  BY <1>a DEF Inv, MemoryInv, HolderBringsNewer
<1>h. \A q \in Request \ {r} : KeyOf[q] = k /\ IsEmpty(q) =>
         answer[q].fetchedAt <= e.fetchedAt
  BY <1>a DEF Inv, MemoryInv, HolderBringsNewer
<1>i. \A q \in Request \ {r} : /\ HasData(q)' <=> HasData(q)
                               /\ IsEmpty(q)' <=> IsEmpty(q)
                               /\ Fetched(q)' <=> Fetched(q)
  BY <1>a DEF HasData, IsEmpty, Fetched
<1> HIDE DEF a, e
<1>1. EntriesSound'
  BY <1>a, <1>b DEF Inv, MemoryInv, EntriesSound, SoundEntry
<1>2. HolderSeesExpired'
  BY <1>a, <1>f, Shapes DEF Inv, MemoryInv, HolderSeesExpired, Holding
<1>3. AnswersServed'
  <2>1. ServedFrom(r)'
    BY <1>a, <1>c, <1>d DEF ServedFrom
  <2>2. ASSUME NEW q \in Request \ {r}, HasData(q)' PROVE ServedFrom(q)'
    BY <1>a, <1>c, <1>g, <1>i, <2>2, Shapes
       DEF Inv, MemoryInv, AnswersServed, ServedFrom
  <2>3. QED
    BY <2>1, <2>2 DEF AnswersServed
<1>4. HolderBringsNewer'
  BY <1>a, <1>e, <1>f, <1>i DEF Inv, MemoryInv, HolderBringsNewer, Holding
<1>5. EmptiesPast' /\ AnsweredWhenDone'
  BY <1>a, <1>d, <1>e, <1>i DEF Inv, MemoryInv, EmptiesPast, AnsweredWhenDone
<1>6. FetchesOneTtlApart'
  <2>1. ASSUME NEW p \in Request, NEW q \in Request, p # q,
               KeyOf[p] = KeyOf[q], Fetched(p)', Fetched(q)'
        PROVE  \/ answer'[p].fetchedAt > answer'[q].fetchedAt + FreshFor(KeyOf[q])
               \/ answer'[q].fetchedAt > answer'[p].fetchedAt + FreshFor(KeyOf[p])
    <3>0. \A w \in Request \ {r} : Fetched(w)' => HasData(w)
      BY <1>i DEF Fetched, HasData, IsEmpty, Inv, MemoryInv, EmptiesPast
    <3>1. CASE p = r
      BY <1>a, <1>d, <1>g, <2>1, <3>0, <3>1
    <3>2. CASE q = r
      BY <1>a, <1>d, <1>g, <2>1, <3>0, <3>2
    <3>3. CASE p # r /\ q # r
      BY <1>a, <1>i, <2>1, <3>3 DEF Inv, MemoryInv, FetchesOneTtlApart
    <3>4. QED
      BY <3>1, <3>2, <3>3
  <2>2. QED
    BY <2>1 DEF FetchesOneTtlApart
<1>7. AgeFitsStatus'
  BY <1>a, <1>d DEF Inv, MemoryInv, AgeFitsStatus
<1>8. EmptyOnlyPastWindow'
  <2>1. ASSUME NEW p \in Request, NEW q \in Request, KeyOf[p] = KeyOf[q],
               IsEmpty(p)', Fetched(q)', answer'[q].fetchedAt < answer'[p].fetchedAt
        PROVE  answer'[p].fetchedAt
                 > answer'[q].fetchedAt + FreshFor(KeyOf[q]) + StaleFor
    <3>1. p # r
      BY <1>e, <2>1
    <3>2. CASE q = r
      <4>1. answer[p].fetchedAt <= e.fetchedAt /\ answer[p].fetchedAt \in Nat
        BY <1>h, <1>i, <2>1, <3>1, <3>2, Shapes DEF Inv
      <4>2. QED
        BY <1>a, <1>c, <1>d, <2>1, <3>1, <3>2, <4>1
    <3>3. CASE q # r
      BY <1>a, <1>i, <2>1, <3>1, <3>3
         DEF Inv, MemoryInv, EmptyOnlyPastWindow, IsEmpty
    <3>4. QED
      BY <3>2, <3>3
  <2>2. QED
    BY <2>1 DEF EmptyOnlyPastWindow, IsEmpty
<1>9. TimesOrderData'
  <2>1. ASSUME NEW p \in Request, NEW q \in Request, KeyOf[p] = KeyOf[q],
               HasData(p)', HasData(q)',
               answer'[p].fetchedAt <= answer'[q].fetchedAt
        PROVE  answer'[p].value <= answer'[q].value
    <3>1. CASE p = r /\ q = r
      BY <1>a, <1>c, <1>d, <3>1
    <3>2. CASE p = r /\ q # r
      BY <1>a, <1>c, <1>d, <1>g, <1>i, <2>1, <3>2, Shapes, Lifetimes DEF Inv
    <3>3. CASE p # r /\ q = r
      BY <1>a, <1>c, <1>d, <1>g, <1>i, <2>1, <3>3, Shapes DEF Inv
    <3>4. CASE p # r /\ q # r
      BY <1>a, <1>i, <2>1, <3>4 DEF Inv, MemoryInv, TimesOrderData, HasData
    <3>5. QED
      BY <3>1, <3>2, <3>3, <3>4
  <2>2. QED
    BY <2>1 DEF TimesOrderData, HasData
<1>10. QED
  BY <1>1, <1>2, <1>3, <1>4, <1>5, <1>6, <1>7, <1>8, <1>9 DEF MemoryInv

\* The fallback serves the expired entry of the key.
LEMMA FallsBack ==
    ASSUME Inv, Backend = "memory", NEW r \in Request, pc[r] = "recovering",
           Usable(store[KeyOf[r]], TRUE),
           UNCHANGED <<now, upstream, store, reply, pending>>,
           pc' = [pc EXCEPT ![r] = "done"],
           answer' = [answer EXCEPT ![r] = Stale(store[KeyOf[r]])]
    PROVE  MemoryInv'
<1> DEFINE k == KeyOf[r]
           e == store[k]
           a == Stale(e)
<1>Types. TypeOK
  BY DEF Inv, TypeInv
<1>a. /\ answer'[r] = a /\ pc'[r] = "done"
      /\ \A q \in Request \ {r} : answer'[q] = answer[q] /\ pc'[q] = pc[q]
      /\ answer[r] = None
  BY <1>Types DEF TypeOK, Inv, MemoryInv, AnsweredWhenDone
<1>b. /\ a.status = "STALE" /\ a.success = FALSE
      /\ a.value = e.value /\ a.fetchedAt = e.fetchedAt
      /\ a.staleness = now - e.fetchedAt
      /\ a # None
  <2>1. e \in Entry /\ e.fetchedAt <= now
    BY <1>Types, Shapes
       DEF Usable, Inv, MemoryInv, EntriesSound, SoundEntry, TypeOK
  <2>2. a \in Answer
    BY <1>Types, <2>1, AnswersTyped
  <2>3. QED
    BY <2>1, <2>2, NoneAssumption DEF Stale, Result, Staleness
<1>c. /\ e # None /\ e.value # None
      /\ e.value \in Nat /\ e.fetchedAt \in Nat /\ now \in Nat
      /\ e.fetchedAt <= now
      /\ now > e.fetchedAt + FreshFor(k)
      /\ now <= e.fetchedAt + FreshFor(k) + StaleFor
      /\ e.value <= upstream[k]
  BY Shapes, Lifetimes, NoneAssumption
     DEF Usable, Inv, MemoryInv, EntriesSound, SoundEntry, HolderSeesExpired,
         Holding
<1>d. ~IsEmpty(r)' /\ HasData(r)' /\ ~Fetched(r)'
  BY <1>a, <1>b, <1>c DEF IsEmpty, HasData, Fetched
<1> HIDE DEF a
<1>1. EntriesSound' /\ HolderSeesExpired'
  BY <1>a DEF Inv, MemoryInv, EntriesSound, HolderSeesExpired, SoundEntry, Holding
<1>2. AnswersServed'
  <2>1. ServedFrom(r)'
    BY <1>a, <1>b, <1>c DEF ServedFrom
  <2>2. \A q \in Request \ {r} : HasData(q)' => ServedFrom(q)'
    BY <1>a DEF Inv, MemoryInv, AnswersServed, HasData, ServedFrom
  <2>3. QED
    BY <2>1, <2>2 DEF AnswersServed
<1>3. HolderBringsNewer'
  <2>1. \A q \in Request \ {r} : KeyOf[q] = k => pc[q] \notin Holding
    BY OnlyHolder DEF Holding
  <2>2. QED
    BY <1>a, <1>d, <2>1
       DEF Inv, MemoryInv, HolderBringsNewer, HasData, IsEmpty, Holding
<1>4. EmptiesPast' /\ AnsweredWhenDone'
  BY <1>a, <1>b, <1>d
     DEF Inv, MemoryInv, EmptiesPast, AnsweredWhenDone, IsEmpty
<1>5. FetchesOneTtlApart'
  BY <1>a, <1>d DEF Inv, MemoryInv, FetchesOneTtlApart, Fetched
<1>6. AgeFitsStatus'
  BY <1>a, <1>b, <1>c, Lifetimes, Shapes DEF Inv, MemoryInv, AgeFitsStatus
<1>7. EmptyOnlyPastWindow'
  BY <1>a, <1>d DEF Inv, MemoryInv, EmptyOnlyPastWindow, Fetched, IsEmpty
<1>8. TimesOrderData'
  <2>1. \A q \in Request : KeyOf[q] = k /\ q # r /\ HasData(q) =>
          \/ e.fetchedAt = answer[q].fetchedAt /\ e.value = answer[q].value
          \/ e.fetchedAt > answer[q].fetchedAt /\ e.value >= answer[q].value
    BY <1>c, Shapes, Lifetimes DEF Inv, MemoryInv, AnswersServed, ServedFrom
  <2>2. QED
    BY <1>a, <1>b, <1>c, <2>1, Shapes DEF Inv, MemoryInv, TimesOrderData, HasData
<1>9. QED
  BY <1>1, <1>2, <1>3, <1>4, <1>5, <1>6, <1>7, <1>8 DEF MemoryInv

\* The fallback finds nothing usable, and may drop the entry.
LEMMA FindsNothing ==
    ASSUME Inv, Backend = "memory", NEW r \in Request, pc[r] = "recovering",
           ~Usable(store[KeyOf[r]], TRUE), Pops(KeyOf[r]),
           UNCHANGED <<now, upstream, reply, pending>>,
           pc' = [pc EXCEPT ![r] = "done"],
           answer' = [answer EXCEPT ![r] = Empty]
    PROVE  MemoryInv'
<1> DEFINE k == KeyOf[r]
<1>Types. TypeOK
  BY DEF Inv, TypeInv
<1>a. /\ answer'[r] = Empty /\ pc'[r] = "done"
      /\ \A q \in Request \ {r} : answer'[q] = answer[q] /\ pc'[q] = pc[q]
      /\ answer[r] = None
  BY <1>Types DEF TypeOK, Inv, MemoryInv, AnsweredWhenDone
<1>b. /\ Empty.status = "MISS" /\ Empty.success = FALSE
      /\ Empty.value = None /\ Empty.fetchedAt = now
      /\ Empty # None
  BY <1>Types, EmptyTyped, NoneAssumption DEF Empty, Result
<1>c. IsEmpty(r)' /\ ~HasData(r)' /\ ~Fetched(r)'
  BY <1>a, <1>b DEF IsEmpty, HasData, Fetched
<1>d. \A q \in Request : KeyOf[q] = k /\ HasData(q) =>
         now > answer[q].fetchedAt + FreshFor(k) + StaleFor
  BY Shapes, Lifetimes
     DEF Usable, Inv, MemoryInv, AnswersServed, ServedFrom, EntriesSound, SoundEntry
<1>e. \A q \in Request \ {r} : /\ HasData(q)' <=> HasData(q)
                               /\ IsEmpty(q)' <=> IsEmpty(q)
                               /\ Fetched(q)' <=> Fetched(q)
  BY <1>a DEF HasData, IsEmpty, Fetched
<1>f. \A j \in Key : store'[j] = store[j] \/ (j = k /\ store'[j] = None)
  BY <1>Types, Shapes DEF Pops, TypeOK, Inv
<1>1. EntriesSound' /\ HolderSeesExpired'
  BY <1>a, <1>f, Shapes
     DEF Inv, MemoryInv, EntriesSound, HolderSeesExpired, SoundEntry, Holding
<1>2. AnswersServed'
  <2>1. ASSUME NEW q \in Request, HasData(q)' PROVE ServedFrom(q)'
    <3>1. q # r /\ HasData(q) /\ ServedFrom(q) /\ answer'[q] = answer[q]
      BY <1>a, <1>c, <1>e, <2>1 DEF Inv, MemoryInv, AnswersServed
    <3>2. CASE KeyOf[q] = k
      BY <1>d, <1>f, <3>1, <3>2, Shapes DEF ServedFrom, Inv
    <3>3. CASE KeyOf[q] # k
      BY <1>f, <3>1, <3>3, Shapes DEF ServedFrom, Inv
    <3>4. QED
      BY <3>2, <3>3
  <2>2. QED
    BY <2>1 DEF AnswersServed
<1>3. HolderBringsNewer'
  <2>1. \A q \in Request \ {r} : KeyOf[q] = k => pc[q] \notin Holding
    BY OnlyHolder DEF Holding
  <2>2. QED
    BY <1>a, <1>c, <1>e, <2>1
       DEF Inv, MemoryInv, HolderBringsNewer, Holding
<1>4. EmptiesPast' /\ AnsweredWhenDone'
  BY <1>Types, <1>a, <1>b, <1>e
     DEF Inv, MemoryInv, EmptiesPast, AnsweredWhenDone, TypeOK
<1>5. FetchesOneTtlApart'
  BY <1>a, <1>c DEF Inv, MemoryInv, FetchesOneTtlApart, Fetched
<1>6. AgeFitsStatus'
  BY <1>a, <1>b DEF Inv, MemoryInv, AgeFitsStatus
<1>7. EmptyOnlyPastWindow'
  <2>1. ASSUME NEW p \in Request, NEW q \in Request, KeyOf[p] = KeyOf[q],
               IsEmpty(p)', Fetched(q)', answer'[q].fetchedAt < answer'[p].fetchedAt
        PROVE  answer'[p].fetchedAt
                 > answer'[q].fetchedAt + FreshFor(KeyOf[q]) + StaleFor
    <3>1. q # r /\ Fetched(q)
      BY <1>c, <1>e, <2>1
    <3>2. HasData(q)
      BY <3>1 DEF Fetched, HasData, IsEmpty, Inv, MemoryInv, EmptiesPast
    <3>3. CASE p = r
      BY <1>a, <1>b, <1>d, <2>1, <3>1, <3>2, <3>3
    <3>4. CASE p # r
      BY <1>a, <1>e, <2>1, <3>1, <3>4
         DEF Inv, MemoryInv, EmptyOnlyPastWindow, IsEmpty
    <3>5. QED
      BY <3>3, <3>4
  <2>2. QED
    BY <2>1 DEF EmptyOnlyPastWindow, IsEmpty
<1>8. TimesOrderData'
  BY <1>a, <1>c DEF Inv, MemoryInv, TimesOrderData, HasData
<1>9. QED
  BY <1>1, <1>2, <1>3, <1>4, <1>5, <1>6, <1>7, <1>8 DEF MemoryInv

\* The passing of time keeps the invariant.
LEMMA Ticks ==
    ASSUME Inv, Tick
    PROVE  MemoryInv'
<1>1. EntriesSound' /\ HolderSeesExpired' /\ EmptiesPast'
  BY Shapes, Lifetimes
     DEF Tick, Inv, MemoryInv, EntriesSound, SoundEntry, HolderSeesExpired,
         EmptiesPast, IsEmpty, Holding
<1>2. AnswersServed'
  BY Shapes, Lifetimes
     DEF Tick, Inv, MemoryInv, AnswersServed, ServedFrom, HasData
<1>3. HolderBringsNewer' /\ AnsweredWhenDone'
  BY DEF Tick, Inv, MemoryInv, HolderBringsNewer, AnsweredWhenDone, HasData, IsEmpty
<1>4. QED
  BY <1>1, <1>2, <1>3, AnswersUnchanged DEF Tick, Inv, MemoryInv

\* A change at the source keeps the invariant.
LEMMA Changes ==
    ASSUME Inv, NEW k \in Key, UpstreamChanges(k)
    PROVE  MemoryInv'
<1>1. /\ \A j \in Key : upstream'[j] >= upstream[j] /\ upstream'[j] \in Nat
      /\ UNCHANGED <<now, store, pc, ahead, reply, pending, answer, metrics>>
  BY Shapes DEF UpstreamChanges, Inv
<1>2. EntriesSound' /\ HolderSeesExpired' /\ EmptiesPast'
  BY <1>1, Shapes
     DEF Inv, MemoryInv, EntriesSound, SoundEntry, HolderSeesExpired,
         EmptiesPast, IsEmpty, Holding
<1>3. AnswersServed'
  BY <1>1, Shapes DEF Inv, MemoryInv, AnswersServed, ServedFrom, HasData
<1>4. HolderBringsNewer' /\ AnsweredWhenDone'
  BY <1>1 DEF Inv, MemoryInv, HolderBringsNewer, AnsweredWhenDone, HasData, IsEmpty
<1>5. QED
  BY <1>1, <1>2, <1>3, <1>4, AnswersUnchanged DEF Inv, MemoryInv

-----------------------------------------------------------------------------
(* Every step keeps the invariant. *)

LEMMA NextMemoryInv ==
    ASSUME Inv, Backend = "memory", [Next]_vars
    PROVE  MemoryInv'
<1>Keys. TypeInv /\ \A r \in Request : KeyOf[r] \in Key
  BY RequestAssumption DEF Inv
<1>Lookup. ASSUME NEW r \in Request, Lookup(r) PROVE MemoryInv'
  <2>1. PICK e \in CacheGet(KeyOf[r], FALSE) :
           \/ e # None /\ Return(r, Hit(e), {"hit"}) /\ UNCHANGED ahead
           \/ /\ e = None
              /\ pc' = [pc EXCEPT ![r] = "queued"]
              /\ Join(r)
              /\ UNCHANGED <<answer, metrics>>
    BY <1>Lookup DEF Lookup
  <2>2. e = IF Usable(store[KeyOf[r]], FALSE) THEN store[KeyOf[r]] ELSE None
    BY MemoryGet
  <2>3. CASE e # None
    <3>1. Usable(store[KeyOf[r]], FALSE) /\ e = store[KeyOf[r]]
      BY <2>2, <2>3
    <3>2. UNCHANGED store
      BY <1>Lookup, <1>Keys, <3>1, UsableStays DEF Lookup
    <3>3. QED
      BY <1>Lookup, <2>1, <2>3, <3>1, <3>2, Serves DEF Lookup, Return
  <2>4. CASE e = None
    BY <1>Lookup, <2>1, <2>4, Silent, PopEffect DEF Lookup
  <2>5. QED
    BY <2>3, <2>4
<1>Recheck. ASSUME NEW r \in Request, Recheck(r) PROVE MemoryInv'
  <2>1. PICK e \in CacheGet(KeyOf[r], FALSE) :
           \/ e # None /\ Return(r, Hit(e), {"hit"}) /\ Leave(r)
           \/ /\ e = None
              /\ pc' = [pc EXCEPT ![r] = "fetching"]
              /\ UNCHANGED <<ahead, answer, metrics>>
    BY <1>Recheck DEF Recheck
  <2>2. e = IF Usable(store[KeyOf[r]], FALSE) THEN store[KeyOf[r]] ELSE None
    BY MemoryGet
  <2>3. CASE e # None
    <3>1. Usable(store[KeyOf[r]], FALSE) /\ e = store[KeyOf[r]]
      BY <2>2, <2>3
    <3>2. UNCHANGED store
      BY <1>Recheck, <1>Keys, <3>1, UsableStays DEF Recheck
    <3>3. QED
      BY <1>Recheck, <2>1, <2>3, <3>1, <3>2, Serves DEF Recheck, Return
  <2>4. CASE e = None
    <3>1. store[KeyOf[r]] # None => now > store[KeyOf[r]].expiresAt
      BY <1>Keys, <2>2, <2>4, Shapes, Lifetimes
         DEF Usable, Inv, MemoryInv, EntriesSound, SoundEntry
    <3>2. QED
      BY <1>Recheck, <2>1, <2>4, <3>1, Silent, PopEffect DEF Recheck
  <2>5. QED
    BY <2>3, <2>4
<1>Recover. ASSUME NEW r \in Request, Recover(r) PROVE MemoryInv'
  <2>1. PICK e \in CacheGet(KeyOf[r], TRUE) :
           \/ e # None /\ Return(r, Stale(e), {"stale", "fallback"})
           \/ e = None /\ Return(r, Empty, {"miss", "fallback"})
    BY <1>Recover DEF Recover
  <2>2. e = IF Usable(store[KeyOf[r]], TRUE) THEN store[KeyOf[r]] ELSE None
    BY MemoryGet
  <2>3. CASE e # None
    <3>1. Usable(store[KeyOf[r]], TRUE) /\ e = store[KeyOf[r]]
      BY <2>2, <2>3
    <3>2. UNCHANGED store
      BY <1>Recover, <1>Keys, <3>1, UsableStays DEF Recover
    <3>3. QED
      BY <1>Recover, <2>1, <2>3, <3>1, <3>2, FallsBack DEF Recover, Return
  <2>4. CASE e = None
    <3>1. ~Usable(store[KeyOf[r]], TRUE)
      BY <2>2, <2>4 DEF Usable
    <3>2. QED
      BY <1>Recover, <2>1, <2>4, <3>1, FindsNothing, PopEffect
         DEF Recover, Return
  <2>5. QED
    BY <2>3, <2>4
<1>1. ASSUME NEW r \in Request,
             \/ UpstreamReads(r) \/ FetchReturns(r) \/ FetchFails(r)
             \/ SetLands(r) \/ Abort(r)
      PROVE  MemoryInv'
  BY <1>1, Reads, Returns, Fails, Stores DEF Abort
<1>2. ASSUME NEW r \in Request, SetFails(r) \/ LateSet(r) PROVE FALSE
  BY <1>2 DEF SetFails, LateSet, Inv, MemoryInv, EntriesSound, Ended
<1>3. ASSUME NEW k \in Key, UpstreamChanges(k) \/ Evict(k) PROVE MemoryInv'
  BY <1>3, Changes DEF Evict
<1>4. ASSUME Tick PROVE MemoryInv'
  BY <1>4, Ticks
<1>5. ASSUME UNCHANGED vars PROVE MemoryInv'
  BY <1>5 DEF vars, Inv, MemoryInv, EntriesSound, SoundEntry, HolderSeesExpired,
     AnswersServed, ServedFrom, HolderBringsNewer, EmptiesPast, AnsweredWhenDone,
     FetchesOneTtlApart, AgeFitsStatus, EmptyOnlyPastWindow, TimesOrderData,
     HasData, IsEmpty, Fetched
<1>6. QED
  BY <1>Lookup, <1>Recheck, <1>Recover, <1>1, <1>2, <1>3, <1>4, <1>5
     DEF Next, RequestStep, Quiescent

\* With the memory cache the invariant holds throughout.
LEMMA InvHolds == Backend = "memory" => (Spec => []Inv)
<1> SUFFICES ASSUME Backend = "memory" PROVE Spec => []Inv
  OBVIOUS
<1>1. Init => Inv
  BY InitTypeInv, InitLockInv, InitMemoryInv DEF Inv
<1>2. Inv /\ [Next]_vars => Inv'
  BY NextTypeInv, NextLockInv, NextMemoryInv DEF Inv
<1>3. QED
  BY <1>1, <1>2, PTL DEF Spec

-----------------------------------------------------------------------------
(* Theorems. *)

\* With the memory cache two answers that requests fetched for one key are
\* more than its TTL apart: concurrent misses never fetch twice what one
\* successful call has brought.
THEOREM OneFetchPerTtl == Backend = "memory" => (Spec => []FetchesOneTtlApart)
<1>1. Inv => FetchesOneTtlApart
  BY DEF Inv, MemoryInv
<1>2. QED
  BY <1>1, InvHolds, PTL

\* With the memory cache HIT means data within its TTL and STALE means expired
\* data within the stale window.
THEOREM StatusTellsAge == Backend = "memory" => (Spec => []AgeFitsStatus)
<1>1. Inv => AgeFitsStatus
  BY DEF Inv, MemoryInv
<1>2. QED
  BY <1>1, InvHolds, PTL

\* With the memory cache an empty answer means that every earlier successful
\* fetch of the key has left the stale window.
THEOREM NothingUsableIsLost == Backend = "memory" => (Spec => []EmptyOnlyPastWindow)
<1>1. Inv => EmptyOnlyPastWindow
  BY DEF Inv, MemoryInv
<1>2. QED
  BY <1>1, InvHolds, PTL

\* With the memory cache the lookup time of an answer orders its data: later
\* times never carry older data.
THEOREM LookupTimesOrderData == Backend = "memory" => (Spec => []TimesOrderData)
<1>1. Inv => TimesOrderData
  BY DEF Inv, MemoryInv
<1>2. QED
  BY <1>1, InvHolds, PTL

-----------------------------------------------------------------------------
(* Replacements of entries, and the contract. *)

\* What a step does to the cache: an entry is dropped past its stale window,
\* or the holder of the lock stores what it fetched.
LEMMA StoreSteps ==
    ASSUME Inv, Backend = "memory", [Next]_vars
    PROVE  \/ \E k \in Key : Pops(k)
           \/ \E r \in Request : SetLands(r)
           \/ UNCHANGED store
<1>1. \A r \in Request : Lookup(r) \/ Recheck(r) \/ Recover(r) =>
         \E k \in Key : Pops(k)
  BY RequestAssumption, PopEffect DEF Lookup, Recheck, Recover
<1>2. \A r \in Request : ~SetFails(r) /\ ~LateSet(r)
  BY DEF SetFails, LateSet, Inv, MemoryInv, EntriesSound, Ended
<1>3. QED
  BY <1>1, <1>2 DEF Next, RequestStep, UpstreamReads, FetchReturns, FetchFails,
     Abort, UpstreamChanges, Evict, Tick, Quiescent, vars

\* With the memory cache an entry is replaced only by a later fetch whose data
\* is no older.
THEOREM CacheIsMonotonic == Backend = "memory" => (Spec => CacheMovesForward)
<1> DEFINE Forward ==
      \A k \in Key :
         store[k] # None /\ store'[k] # None /\ store'[k] # store[k] =>
             /\ store'[k].fetchedAt > store[k].fetchedAt
             /\ store'[k].value >= store[k].value
<1> SUFFICES ASSUME Backend = "memory" PROVE Spec => CacheMovesForward
  OBVIOUS
<1>1. ASSUME Inv, [Next]_vars PROVE Forward
  <2>1. CASE \E k \in Key : Pops(k)
    BY <1>1, <2>1 DEF Pops, Inv, TypeInv, TypeOK
  <2>2. ASSUME NEW r \in Request, SetLands(r) PROVE Forward
    <3>1. /\ pc[r] = "storing"
          /\ store' = [store EXCEPT ![KeyOf[r]] = pending[r]]
      BY <2>2 DEF SetLands
    <3>2. store[KeyOf[r]] # None =>
             /\ pending[r].fetchedAt > store[KeyOf[r]].fetchedAt
             /\ pending[r].value >= store[KeyOf[r]].value
      BY <1>1, <3>1, Shapes, Lifetimes
         DEF Inv, MemoryInv, HolderSeesExpired, EntriesSound, SoundEntry, Holding
    <3>3. store \in [Key -> Entry \cup {None}]
      BY <1>1 DEF Inv, TypeInv, TypeOK
    <3>4. QED
      BY <3>1, <3>2, <3>3
  <2>3. CASE UNCHANGED store
    BY <2>3
  <2>4. QED
    BY <1>1, <2>1, <2>2, <2>3, StoreSteps
<1>2. Inv /\ [Next]_vars => [Forward]_vars
  BY <1>1
<1>3. QED
  BY <1>2, InvHolds, PTL DEF Spec, CacheMovesForward

\* What is known of a key, in the terms of its entry.
LEMMA KnownEntry ==
    ASSUME Inv, NEW k \in Key
    PROVE  /\ KnownOf[k] = None <=> store[k] = None
           /\ store[k] # None => /\ KnownOf[k].value = store[k].value
                                 /\ KnownOf[k].fetchedAt = store[k].fetchedAt
           /\ Contract!IsFresh(k) <=> Usable(store[k], FALSE)
           /\ Contract!IsStale(k) <=> /\ Usable(store[k], TRUE)
                                      /\ ~Usable(store[k], FALSE)
<1>1. store[k] # None => [value |-> store[k].value,
                          fetchedAt |-> store[k].fetchedAt] # None
  BY Shapes, NoneAssumption DEF Inv, Known
<1>2. /\ KnownOf[k] = None <=> store[k] = None
      /\ store[k] # None => /\ KnownOf[k].value = store[k].value
                            /\ KnownOf[k].fetchedAt = store[k].fetchedAt
  BY <1>1 DEF KnownOf
<1>3. CASE store[k] = None
  BY <1>2, <1>3 DEF Contract!IsFresh, Contract!IsStale, Usable
<1>4. CASE store[k] # None
  <2>1. /\ store[k].fetchedAt \in Nat /\ now \in Nat
        /\ FreshFor(k) \in Nat /\ StaleFor \in Nat
        /\ store[k].expiresAt = store[k].fetchedAt + FreshFor(k)
        /\ store[k].staleExpiresAt = store[k].expiresAt + StaleFor
    BY <1>4, Shapes, Lifetimes DEF Inv, MemoryInv, EntriesSound, SoundEntry
  <2>2. Contract!Age(k) = now - store[k].fetchedAt
    BY <1>2, <1>4 DEF Contract!Age
  <2>3. QED
    BY <1>2, <1>4, <2>1, <2>2 DEF Contract!IsFresh, Contract!IsStale, Usable
<1>5. QED
  BY <1>2, <1>3, <1>4

LEMMA InitContract == Init => Contract!Init
BY DEF Init, Contract!Init, KnownOf

\* Dropping an expired entry is the contract's Forget, or nothing.
LEMMA PopsForgets ==
    ASSUME Inv, NEW k \in Key, Pops(k), UNCHANGED <<now, upstream, answer>>
    PROVE  [Contract!Next]_Contract!vars
<1>1. CASE UNCHANGED store
  BY <1>1 DEF KnownOf, Contract!vars
<1>2. CASE /\ store[k] # None
           /\ now > store[k].staleExpiresAt
           /\ store' = [store EXCEPT ![k] = None]
  <2>1. ~Contract!IsFresh(k) /\ ~Contract!IsStale(k)
    BY <1>2, KnownEntry, Shapes DEF Usable, Inv
  <2>2. KnownOf' = [KnownOf EXCEPT ![k] = None]
    BY <1>2 DEF KnownOf, Inv, TypeInv, TypeOK
  <2>3. Contract!Forget(k)
    BY <2>1, <2>2 DEF Contract!Forget
  <2>4. QED
    BY <2>3 DEF Contract!Next
<1>3. QED
  BY <1>1, <1>2 DEF Pops

LEMMA NextContract ==
    ASSUME Inv, Backend = "memory", [Next]_vars
    PROVE  [Contract!Next]_Contract!vars
<1>Keys. TypeInv /\ \A r \in Request : KeyOf[r] \in Key
  BY RequestAssumption DEF Inv
<1>Serve. ASSUME NEW r \in Request, pc[r] \in {"start", "queued"},
                 Usable(store[KeyOf[r]], FALSE),
                 UNCHANGED <<now, upstream, store>>,
                 answer' = [answer EXCEPT ![r] = Hit(store[KeyOf[r]])]
          PROVE  Contract!Next
  <2> DEFINE k == KeyOf[r]
  <2>1. answer[r] = None
    BY <1>Serve DEF Inv, MemoryInv, AnsweredWhenDone
  <2>2. /\ Contract!IsFresh(k)
        /\ KnownOf[k].value = store[k].value
        /\ KnownOf[k].fetchedAt = store[k].fetchedAt
    BY <1>Keys, <1>Serve, KnownEntry DEF Usable
  <2>3. Staleness(store[k]) = Contract!Age(k)
    BY <1>Keys, <1>Serve, <2>2
       DEF Staleness, Contract!Age, Usable, Inv, MemoryInv, EntriesSound, SoundEntry
  <2>4. UNCHANGED KnownOf
    BY <1>Serve DEF KnownOf
  <2>5. Contract!ServeFresh(r)
    BY <1>Serve, <2>1, <2>2, <2>3, <2>4
       DEF Contract!ServeFresh, Contract!Return, Hit, Result
  <2>6. QED
    BY <2>5 DEF Contract!Next
<1>Lookup. ASSUME NEW r \in Request, Lookup(r) PROVE [Contract!Next]_Contract!vars
  <2>1. CASE Usable(store[KeyOf[r]], FALSE)
    <3>1. UNCHANGED store
      BY <1>Lookup, <1>Keys, <2>1, UsableStays DEF Lookup
    <3>2. answer' = [answer EXCEPT ![r] = Hit(store[KeyOf[r]])]
      BY <1>Lookup, <2>1, MemoryGet DEF Lookup, Return, Usable
    <3>3. QED
      BY <1>Lookup, <1>Serve, <2>1, <3>1, <3>2 DEF Lookup
  <2>2. CASE ~Usable(store[KeyOf[r]], FALSE)
    BY <1>Lookup, <1>Keys, <2>2, MemoryGet, PopEffect, PopsForgets DEF Lookup
  <2>3. QED
    BY <2>1, <2>2
<1>Recheck. ASSUME NEW r \in Request, Recheck(r) PROVE [Contract!Next]_Contract!vars
  <2>1. CASE Usable(store[KeyOf[r]], FALSE)
    <3>1. UNCHANGED store
      BY <1>Recheck, <1>Keys, <2>1, UsableStays DEF Recheck
    <3>2. answer' = [answer EXCEPT ![r] = Hit(store[KeyOf[r]])]
      BY <1>Recheck, <2>1, MemoryGet DEF Recheck, Return, Usable
    <3>3. QED
      BY <1>Recheck, <1>Serve, <2>1, <3>1, <3>2 DEF Recheck
  <2>2. CASE ~Usable(store[KeyOf[r]], FALSE)
    BY <1>Recheck, <1>Keys, <2>2, MemoryGet, PopEffect, PopsForgets DEF Recheck
  <2>3. QED
    BY <2>1, <2>2
<1>Store. ASSUME NEW r \in Request, SetLands(r) PROVE Contract!Next
  <2> DEFINE k == KeyOf[r]
             e == pending[r]
  <2>1. /\ pc[r] = "storing" /\ answer[r] = None
        /\ store' = [store EXCEPT ![k] = e]
        /\ answer' = [answer EXCEPT ![r] = Miss(e)]
        /\ UNCHANGED <<now, upstream>>
    BY <1>Store DEF SetLands, Return, Inv, MemoryInv, AnsweredWhenDone
  <2>2. /\ e \in Entry /\ e.value \in Nat /\ e.fetchedAt \in Nat
        /\ e.value <= upstream[k] /\ e.fetchedAt <= now
        /\ upstream[k] \in Nat /\ now \in Nat
    BY <1>Keys, <2>1, Shapes
       DEF TypeInv, InFlightTyped, Inv, MemoryInv, EntriesSound, SoundEntry
  <2>3. KnownOf[k] # None =>
           /\ e.fetchedAt > KnownOf[k].fetchedAt + FreshFor(k)
           /\ e.value >= KnownOf[k].value
    <3>1. store[k] # None =>
             /\ e.fetchedAt > store[k].fetchedAt + FreshFor(k)
             /\ e.value >= store[k].value
      BY <1>Keys, <2>1
         DEF Inv, MemoryInv, HolderSeesExpired, EntriesSound, SoundEntry, Holding
    <3>2. QED
      BY <1>Keys, <3>1, KnownEntry
  <2>4. e # None
    BY <2>2, NoneAssumption
  <2>5. KnownOf' = [KnownOf EXCEPT ![k] = [value |-> e.value,
                                          fetchedAt |-> e.fetchedAt]]
    BY <1>Keys, <2>1, <2>4 DEF KnownOf, Inv, TypeInv, TypeOK
  <2>6. Contract!Refresh(r, e.value, e.fetchedAt)
    BY <1>Keys, <2>1, <2>2, <2>3, <2>5
       DEF Contract!Refresh, Contract!Return, Miss, Result
  <2>7. e.value \in 0 .. upstream[k] /\ e.fetchedAt \in 0 .. now
    BY <2>2
  <2>8. QED
    BY <2>6, <2>7 DEF Contract!Next
<1>Recover. ASSUME NEW r \in Request, Recover(r) PROVE Contract!Next
  <2> DEFINE k == KeyOf[r]
  <2>1. answer[r] = None /\ pc[r] \in Holding
    BY <1>Recover DEF Recover, Inv, MemoryInv, AnsweredWhenDone, Holding
  <2>2. ~Usable(store[k], FALSE)
    BY <1>Keys, <2>1, Shapes
       DEF Usable, Inv, MemoryInv, HolderSeesExpired
  <2>3. CASE Usable(store[k], TRUE)
    <3>1. UNCHANGED store
      BY <1>Recover, <1>Keys, <2>3, UsableStays DEF Recover
    <3>2. answer' = [answer EXCEPT ![r] = Stale(store[k])]
      BY <1>Recover, <2>3, MemoryGet DEF Recover, Return, Usable
    <3>3. /\ Contract!IsStale(k)
          /\ KnownOf[k].value = store[k].value
          /\ KnownOf[k].fetchedAt = store[k].fetchedAt
      BY <1>Keys, <2>2, <2>3, KnownEntry DEF Usable
    <3>4. Staleness(store[k]) = Contract!Age(k)
      BY <1>Keys, <2>3, <3>3
         DEF Staleness, Contract!Age, Usable, Inv, MemoryInv, EntriesSound, SoundEntry
    <3>5. Contract!ServeStale(r)
      BY <1>Recover, <2>1, <3>1, <3>2, <3>3, <3>4
         DEF Recover, KnownOf, Contract!ServeStale, Contract!Return, Stale, Result
    <3>6. QED
      BY <3>5 DEF Contract!Next
  <2>4. CASE ~Usable(store[k], TRUE)
    <3>1. answer' = [answer EXCEPT ![r] = Empty]
      BY <1>Recover, <2>4, MemoryGet DEF Recover, Return
    <3>2. ~Contract!IsFresh(k) /\ ~Contract!IsStale(k)
      BY <1>Keys, <2>2, <2>4, KnownEntry
    <3>3. store[k] # None => now > store[k].staleExpiresAt
      BY <1>Keys, <2>4, Shapes DEF Usable
    <3>4. store' = [store EXCEPT ![k] = None]
      BY <1>Recover, <3>3 DEF Recover, PopExpired, Inv, TypeInv, TypeOK
    <3>5. KnownOf' = [KnownOf EXCEPT ![k] = None]
      BY <1>Keys, <3>4 DEF KnownOf, Inv, TypeInv, TypeOK
    <3>6. Contract!ServeEmpty(r)
      BY <1>Recover, <2>1, <3>1, <3>2, <3>5
         DEF Recover, Contract!ServeEmpty, Contract!Return, Empty, Result
    <3>7. QED
      BY <3>6 DEF Contract!Next
  <2>5. QED
    BY <2>3, <2>4
<1>Changes. ASSUME NEW k \in Key, UpstreamChanges(k) PROVE Contract!Next
  <2>1. Contract!UpstreamChanges(k)
    BY <1>Changes DEF UpstreamChanges, Contract!UpstreamChanges, KnownOf
  <2>2. QED
    BY <2>1 DEF Contract!Next
<1>Tick. ASSUME Tick PROVE Contract!Next
  BY <1>Tick DEF Tick, Contract!Tick, Contract!Next, KnownOf
<1>1. ASSUME NEW r \in Request,
             UpstreamReads(r) \/ FetchReturns(r) \/ FetchFails(r) \/ Abort(r)
      PROVE  UNCHANGED Contract!vars
  BY <1>1 DEF UpstreamReads, FetchReturns, FetchFails, Abort, Contract!vars, KnownOf
<1>2. ASSUME NEW r \in Request, SetFails(r) \/ LateSet(r) PROVE FALSE
  BY <1>2 DEF SetFails, LateSet, Inv, MemoryInv, EntriesSound, Ended
<1>3. ASSUME UNCHANGED vars PROVE UNCHANGED Contract!vars
  BY <1>3 DEF vars, Contract!vars, KnownOf
<1>4. QED
  BY <1>Lookup, <1>Recheck, <1>Store, <1>Recover, <1>Changes, <1>Tick,
     <1>1, <1>2, <1>3
     DEF Next, RequestStep, Quiescent, Evict

\* With the memory cache the lookup implements its contract: lock, awaits,
\* failures and cancellations are invisible to the callers.
THEOREM LookupImplementsContract ==
    Backend = "memory" => (Spec => ImplementsContract)
<1> SUFFICES ASSUME Backend = "memory" PROVE Spec => ImplementsContract
  OBVIOUS
<1>1. Inv /\ [Next]_vars => [Contract!Next]_Contract!vars
  BY NextContract
<1>2. QED
  BY <1>1, InitContract, InvHolds, PTL
     DEF Spec, ImplementsContract, Contract!Spec
=============================================================================
