# A TLA+ model of barrier-free-mobility-mcp

`barrier-free-mobility-mcp` is an MCP server that answers questions about
travelling on the Seoul metro with a wheelchair, a stroller or luggage.  A
question is parsed, routes and station facilities are looked up in public APIs
through a cache, the accessibility of every candidate route is judged, and a
message is written.  This directory models what can go wrong in that pipeline
when calls overlap, fail, are cancelled, arrive late or disagree, checks it
with TLC on small instances, and proves the results that matter most with
TLAPS for every instance.

All paths below are relative to the repository's root.

## 1. Inventory of the system

| Part | Source | State | Operations | What is hard |
|---|---|---|---|---|
| Cached source lookup | `app/services/source_helpers.py` | one `asyncio.Lock` per cache and key | `fetch_normalized_with_cache` | overlapping calls, failures and cancellations between awaits; which time and status an answer carries |
| Memory cache | `app/cache/memory_cache.py` | `_values`: entry with two deadlines per key | `get`, `set` | boundaries of the two windows; entries are dropped only by a `get` of the same key |
| Redis cache | `app/cache/redis_cache.py` | keys in Redis, shared by processes | `get`, `set`, `ping`, `close` | an outage between `get`, `set` and the stale `get`; late writes; several processes, one key |
| Metrics | `app/core/metrics.py` | counters | `record_*`, `snapshot`, `reset` | every answer counted once, whatever path returns it |
| Bounded gathering | `app/core/concurrency.py` | a semaphore per call | `gather_limited` | one job fails while others run: who still runs after the caller went on |
| HTTP adapter | `app/adapters/base.py`, `http_pool.py`, `client_factory.py` | attempts; a shared client pool | `fetch`, `_fetch_uncounted`, `_retry_delay`, pool get/close | retry or not, bound of the retries, counting; pool closed while calls run |
| Elevator status client | `app/adapters/elevator_status_client.py` | pages fetched so far | `fetch` | the page ranges; `total_count` that changes between pages; one page failing |
| Facility client | `app/adapters/facility_client.py` | - | `fetch` | several endpoints, one failing |
| HTTP security | `app/core/http_security.py`, `auth.py`, `mcp/auth*` | `_requests`: recent request times per client | `__call__`, `_allow_request`, `_read_limited_body`, `_replay_body` | window boundary, per-client interference, body limit, client that disconnects |
| Route service | `app/services/route_service.py`, `normalizers/route_normalizer.py` | route entries in the cache | `get_route_candidates`, `route_cache_key` | what the key leaves out of what `normalize` uses; the hour in the key against the TTL |
| Facility service | `app/services/facility_service.py`, `normalizers/facility_normalizer.py` | facility entries in the cache | `get_station_facilities`, `get_elevator_status`, `get_accessible_restroom` | a failure of one of several sources; unresolved names |
| Station resolution | `normalizers/station_normalizer.py`, `services/station_context.py`, `place_resolver.py`, `station_service.py`, `station_support.py` | read-only aliases | `resolve`, `resolve_station_context` | ambiguity; a line that does not fit |
| Risk engine | `app/engine/*.py` | - (pure) | `evaluate_route`, scoring, `align`, ranking | level, score and reasons that must not contradict each other |
| Evidence and checks | `services/accessibility_checks.py`, `evidence.py`, `elevator_evidence.py`, `restroom_policy.py`, `engine/elevator_*` | - (pure) | roles, status of elevators, restroom requirement | three copies of the station-role logic |
| Trip pipeline | `services/accessibility_service.py`, `trip_response.py`, `route_*` | results of the parallel queries | `check_accessible_trip`, `assess_route_candidates`, `rank` | partial failure, one source failing for one station only |
| Lookup results | `services/lookup_result.py`, `result_metadata.py`, `source_coverage.py` | - (pure) | `classify` | completeness told from the sources that failed |
| Questions | `services/question_parser.py`, `question_answering.py`, `question_clarification.py`, `facility_question.py`, `alternative_*` | - | parse, clarify, dispatch | clarification before every lookup; asserts behind it; a dialogue that keeps nothing between two questions |
| MCP tools and server | `mcp/tools.py`, `mcp/server.py`, `api/health.py`, `main.py` | process-wide services | tools, lifespan, health | counting of tool calls; shutdown |
| Messages | `services/user_message*.py`, `facility_message.py`, `alternative_message.py`, `mcp/prompts.py` | - (pure) | headline, lead, table, actions, notices, summary | a dozen rules over the same checks, each with cuts and precedences of its own, that must not contradict each other |
| Configuration, schemas, logging | `core/config.py`, `core/logging.py`, `core/security.py`, `schemas/*` | settings | validation, redaction | - |
| Data, scripts, deployment | `app/data`, `scripts`, `deploy` | - | - | - |

How the parts interact: a tool call becomes a question, a question a trip or a
facility lookup; a trip runs one query per station and kind of facility side by
side (`gather_limited`); a query is one or two cached lookups; a lookup that
misses makes an upstream call, which for the elevator status is a fetch of many
pages that again run side by side.  All of them share the cache, the key locks,
the metrics and the HTTP pool of the process.  The lookups of all stations share
one key per source (`elevator_status:all`, `restroom:all`), and since a failed
call is not shared by those who waited for it, one station's lookup can fail and
the next one's succeed within one trip.

The properties that make each part correct:

* cached lookup: one call per key at a time and per TTL, answers of the age their
  status says, time and data that stay together, no lookup that waits for ever;
* gathering and paging: the bound, completeness of the merged pages, each call
  counted once, a clear account of what a failure leaves behind;
* HTTP security: no window with more requests than the limit, no request refused
  without cause, no oversized and no shortened body;
* trip: what cannot be known is called unknown, what is called possible is so,
  level, score and words agree, failures concern the routes they belong to;
* messages: what is broken, unknown or failed is told whatever the cuts, what is
  said to run does, and no two parts of an answer contradict each other;
* questions: nothing is looked up before it is decided, what is asked for is
  missing, and it is asked for once.

## 2. Plan

1. `SourceLookup` with `SourceContract`: everything else stands on it. *Done,
   checked and proved.*
2. `GatherLimited`, then `PagedFetch`, whose page calls implement it. *Done; the
   safety of both is proved, and that the page calls implement it.*
3. `HttpSecurity`. *Done, checked and proved.*
4. `TripJudgement` (the pure operators of the engine), `Lookups` (stations and
   lookups) and `Trip` (the state machine around them). *Done, checked and proved.*
5. `TripMessage`: what the message and the structured summary of a trip claim,
   made from the same checks by many rules. *Done, checked and proved.*
6. `FacilityQuestion` and `Questions`: the answers about the facilities of a
   station, what a question is taken for, and what is asked back. *Done, checked and
   proved.*
7. Proofs: every invariant and action property of the passing runs is proved, and both
   refinements; liveness is left to TLC.  *Done.*  What is left is to ask less of the
   routes in the theorems that have a hypothesis about them (section 5).
8. Models that would add least and come last: the key of the route cache, and the
   shared HTTP client at shutdown.

## 3. Modules and code

| Module | Code | State and steps |
|---|---|---|
| `SourceLookup` | `services/source_helpers.py`, both caches | `pc[r]` is the await a request is at: `Lookup` (first `get`), `queued` for the key lock, `Recheck` (second `get`), `FetchReturns`/`FetchFails`, `SetLands`/`SetFails`, `Recover` (the stale `get`). `Abort` is a cancellation or an error that is not a `PublicApiError`. `ahead[r]` is the line of the `asyncio.Lock`. `store` is the cache; for Redis a `get` may miss at will and a write may land late (`LateSet`) or be evicted. |
| `SourceContract` | what its callers rely on | one atomic step per lookup on what was last fetched and when |
| `GatherLimited` | `core/concurrency.py` | one call: `Gather`, `Begin` (a permit), `End`, then `Return`, `Raise` on the first failure, or `Cancel` |
| `PagedFetch` | `adapters/elevator_status_client.py`, `adapters/base.py` | `Send`, `AttemptFails`, `Resend`, `Replied` are one HTTP request; `FirstPage` makes the ranges of the others, `Merge`/`Raise`/`Cancel` end the fetch; the source adds and drops rows at any time |
| `HttpSecurity` | `core/http_security.py` | `Allow`/`Refuse` are `_allow_request` on the times of the key, `Chunk`/`ReadDisconnect` the loop of `_read_limited_body` |
| `TripJudgement` | `app/engine/*`, `accessibility_checks.py`, `evidence.py`, `route_candidate_assessment.py`, the decision in `user_message_decision.py` | no state; `Assess` makes one candidate's reasons, level, checks and words from the results of its stations, `Selected` picks the best |
| `Lookups` | `facility_service.py`, `station_normalizer.py`, `source_coverage.py`, `source_helpers.py` | no state; `Resolve` is a name with its line, `Query` what the facility service returns for a station: values, metadata of the sources, failures |
| `Trip` | `accessibility_service.py`, `trip_response.py`, `station_context.py`, `facility_service.py` | `ResolveStations`, `LookUpRoutes`, `QueryReturns(q)` in any order, `LookupRaises`, `Judge` |
| `TripMessage` | `user_message*.py`, `alternative_message.py`, `evidence.py` | no state of its own; `Message(answer)` is the set of claims of the text (heading, lead, questions to the offices, table, sources, notices), `Reasons`, `KeyPoint`, `RecommendedRoute` and `UnverifiedParts` those of the structured summary, `RouteAlternative` the answer to who asks for another way |
| `FacilityQuestion` | `facility_question.py`, `facility_message.py`, `lookup_result.py`, the facility part of `alternative_message.py` | no state; from the result of each lookup to the state of each kind of facility, the status, the title, the table with its cut, the times and the alternatives |
| `Questions` | `question_parser.py`, `place_resolver.py`, `question_clarification.py`, `question_answering.py` | `Clarify` asks back, `Begin` passes on, `LookUp(t)` in any order, `AnswerFacilities`, `AnswerTrip`, `LookupRaises`; `AskAgain` is the traveller, who asks the whole question again with the piece that was asked for |

`MC*` modules hold the instances; `MCSingleFlight` adds a history variable to
`SourceLookup` to say who waited for whom.  Operators named in a comment as
"Mutant" are used by no specification: each is a plausible mistake in the
definition below it, and puts one property to the test.

Abstractions that matter:

* The data of a source is the number of times it changed (`SourceLookup`), the
  numbers of its rows (`PagedFetch`), or the elevators and restrooms of a station
  with line, status and the legs of the way they serve (`Trip`).
* Time is in whole seconds and moves on between any two steps.
* The memory cache never suspends; the model lets others in between for it as
  well, which only adds behaviours.
* A query of `Trip` is one action, since the trip sees no result before all
  queries are back; `GatherLimited` and `SourceLookup` have its inside.  A lookup
  ends freshly, with a stale record (which always comes with its failure, as
  `Stale` in `SourceLookup` shows) or with a failure, each on its own.
* `Trip` is live mode; fixture mode never fails.  What the sources hold is fixed
  during a trip.  A stale list of routes is one of the lists the source returns.
* Of the texts of limitations the model has those that are placed before other
  notices: what is outside the coverage of a source, and the notes on the two ends of
  a trip (`EndNotices`, `services/station_support.py`).  The others come after all
  notices of the model.  Besides, limitations lower the confidence from HIGH to
  MEDIUM, so `HighConfidenceIsFresh` and `UnverifiedIsListed` speak of more answers
  than the code gives.
* A message is the set of claims it makes about stations; what is worded in two
  ways by the same test is one claim.  Where a cut of the code (three elevators in
  the table, three notices, three running and three restricted locations in the
  reasons, `MaxRows` rows) can hide a claim, the cut is in the model.  Two elevators of a
  station are at two places; the code merges those it has the same text for.
* A question is the stations and places its text names, in order, and the phrases
  in it; a phrase stands for the words that the parser treats alike.  What it is
  taken for follows from them as in the parser, with all its precedences.
* The traveller answers what is asked: names a line the registry has for the
  station, one of the offered stations of a place, two different stations, or says
  the word.  Another question is another dialogue.
* A misspelt name is matched with the last registered row of the station meant,
  which is what the library's similarity finds for small mistakes.

## 4. Runs

| Run | Instance | What it shows |
|---|---|---|
| `source_memory` | 4 lookups of a key, TTL and stale window of 1 s, 6 s, 2 changes of the source; symmetric | single-flight, ages, order, the refinement of `SourceContract`. Four lookups are a holder, one that finds an entry, one that fails and one that comes after; in 6 s an entry goes through both windows twice. |
| `source_redis` | 2 processes, 3 lookups, 3 s, with fairness | what is left when Redis fails, evicts and writes late: no data past its window, exact counters; and every lookup ends (one call at a time per process is proved for either cache) |
| `single_flight_failure` | 3 lookups | *violation*: lookups that waited for a failed call repeat it |
| `gather_limited` | up to 5 operations, 2 permits | bound, what is left behind, that all ends; with 5 operations a permit is handed on more than once |
| `paged_fetch` | up to 7 rows, 2 to a page, 1 retry, 2 permits, with fairness | three further pages compete for two permits, each may fail twice, the last one is half full; the merged rows, the counters, the reported reason, the refinement of `GatherLimited`, that all ends |
| `http_security` | 5 requests, 3 keys (one exempt), 2 per window of 2 s, bodies up to 3 bytes, limit 2 | a window is filled, emptied and filled again while another key interferes; bodies below, at and above the limit |
| `trip` | stations a, t, b; lines 1, 2; line 2 of another operator and without a route code at a; five lists of routes, nine states of the elevators; or four requirements over nine states of the restrooms | the line a station is looked up on, the promises of the answer, of its message and of its summary, with mixes of fresh, stale and failed lookups (below) |
| `destination_restroom` | a route with generated segments | *violation*: the requirement at the destination asks no station |
| `dropped_failures` | a restroom anywhere | *violation*: a failed lookup decides and is not reported |
| `restriction_is_real` | elevators whose state is partly unknown | *violation*: running and unknown is told as restricted |
| `questions` | four stations, two of them with two lines, one with one and one with another operator's, three places; dialogues that begin with one station or place and two phrases, or two and one; ten states of the elevators and four of the restrooms | what is asked back and that it is asked once; that nothing is looked up undecided; the answers with every mix of fresh, stale and failed lookups; no deadlock |
| `alternative_runs` | as `questions` | *violation*: an elevator nobody reports to run is offered instead |

The lists of routes have a direct one, one with a change, one without lines in
its segments, one that is unusable and one on the line the name does not stand
for.  The states of the elevators are those the engine tells apart: all run, one
is repaired, some of several are out (one more than the table shows, and so many run
that the reasons do not name them all), only
installation data, a leg nobody names or the installation data alone, none but an
escalator, one that runs beside one of unknown state, more closed ones than the
reasons name.  An end of the trip that is outside the coverage, without a code or both
gives the notes that take the places of other notices.  In `questions` there are also
plans that contradict the report, missing places, and more rows than `MaxRows`.
In `trip` one traveller who needs elevators and one who needs a restroom anywhere meet
every mix of fresh, stale and failed lookups of the route, the facilities and the
elevator status, or of the restrooms; for the others some of these always answer, which
keeps the run short, and the installation data answers for all.
Three stations are a beginning, a change and an end; with more, only the cut to
five stations in the list for another way would be new.  The fourth station of
`questions` is a second one with two lines, which is what it takes to be asked for
"the line" when two stations leave theirs open.

A dialogue of `questions` begins with at most two names and three pieces in all,
which is what it takes to leave any one thing out or to have it twice.  Its end is
not stated as a liveness property, since TLC's check of it takes too long; it follows
from what is checked: there is no deadlock before `Done`, no question is asked twice
(`AskedOnce`), and there are finitely many questions.

The properties of `trip` and `questions` are conjunctions of named parts, one for each
thing that is said of their subject: `UnknownWhereFailed` (`CriticalFailureIsUnknown`,
`JudgedBeforeUnknown`), `VerdictAgrees` (`LevelScoreWords`, `CautionHasCause`),
`ElevatorsAreTold` (`RunningIsKnown`, `RestrictionIsTold`), `UnknownIsTold`
(`GapsAreAsked`, `FailureIsTold`, `UnverifiedIsListed`, `ChargerIsMentioned`),
`PartsAgree` (`SummaryAgrees`, `WayAgrees`, `PointsAgree`, `AnotherWayAgrees`);
`AskedOrDecided` (`LookedUpIsDecided`, `QuestionIsOpen`), `StatesAreTold`
(`TroubleIsTold`, `AllRunIsKnown`), `SourcesAreTold` (`StatusIsExplained`,
`OneTimeIsTrue`).  Each part has a mutant of its own.  The types of `GatherLimited`
and `HttpSecurity` are proved and not checked again.

Deadlock is checked where the system has a step left: not in `Trip`, which ends
with its answer.  `SourceLookup`, `Questions` and the others have an explicit step
of rest.

Bounds in guards: `MaxTime` and `MaxVersion` (`SourceLookup`, `HttpSecurity`),
`MaxRows` (`PagedFetch`), `MaxJobs` (`GatherLimited`), `MaxBody` is the setting.

Fairness: a step of the event loop that is ready is taken (`Recheck`, `Begin`,
`Merge`, `Return`, `Raise`, `Recover`), and an await on the network ends, because
every request has the HTTP client's timeout and Redis its socket timeouts;
nothing is assumed of how it ends.  A lock or a permit that is handed over in order
needs weak fairness only.  Cancellation, new requests, the sources' changes and
the clock have none.

## 5. Proofs

For every value of the constants that satisfies the named assumptions, of which TLC
evaluates each on its instance.

### What is proved, and along which argument

* `SourceLookupProofs`, for either cache: `TypeCorrect`, with what is in flight as
  strengthening (`TypeInv`: a request that awaits a reply or a write has one), and
  `SingleFlight`.  Mutual exclusion is not inductive: `LockInv` adds that of two
  requests in line for a lock one is ahead of the other, and that a holder has nobody
  ahead.  `LineSteps` reduces every action to joining the line, moving in it or
  leaving it.  `AnswerSteps` reduces every action to giving one answer or none;
  `MetricsCountAnswers` follows by counting (`CountInv`), and `NothingPastItsWindow`
  from what the deadlines of an entry say of its time (`AgeInv`), whether the entry is
  stored, on its way late, or was evicted.
* The same module, for the memory cache: `OneFetchPerTtl`, `StatusTellsAge`,
  `NothingUsableIsLost`, `LookupTimesOrderData`, `CacheIsMonotonic` and
  `LookupImplementsContract`, from one invariant `Inv`: the holder of the lock alone
  replaces the entry of its key, and it got past its second `get` only because the
  entry had expired (`HolderSeesExpired`), so what it brings is later by more than the
  TTL than all that was served (`HolderBringsNewer`), and every answer with data was
  served from the entry or from an older one (`ServedFrom`).
* `GatherProofs`: `GatherTypeCorrect`, `BoundHolds`, `NoneLeftBehind`.
  Their conjunction with the type is inductive: the bound needs nothing of the
  caller's state, which is why it survives a failure.
* `PagedFetchProofs`: `FetchTypeCorrect`, `ErrorsAreFinal`, `EveryCallCountedOnce`,
  `NoRowIsLost`, and `PagesGathered`, the refinement of `GatherLimited` for any number
  of fetches and pages.  `IInv` says which states of the calls go with which state of
  the fetch.  `RowsInv` says that, until a row is dropped, each page has the rows of
  its own range (`PagesFit`); two ranges that meet are one range (`RunsJoin`), so the
  merge has them all.
* `HttpSecurityProofs`: `SecurityTypeCorrect`, `RateIsLimited`, `RefusalIsDue`,
  `BodyIsLimited`, `BodyArrives`.  The deque of a key is the part of the log of its
  allowed requests that was not trimmed (`LogInv`: the log is ordered and what was
  trimmed is older than the window, for good), and a refused request keeps the
  full window it was refused for (`RefusedInv`).
* `LookupsProofs`: what one result says of how its lookup ended, for trips and
  questions alike (`LookupEnds`).
* `TripProofs`: `TripTypeCorrect`, `UnknownExactlyWhereFailed`, `LevelScoreAndWordsAgree`
  (the part `LevelScoreWords` of `VerdictAgrees`), `LowIsAPromise`,
  `LineFitsTheRoute`, `HighConfidenceWasRead` and `PossibleHasRestroom`.  The invariant says where an
  answer comes from: every fact is what its query returned for the station on its line
  and stays so (`FactsInv`), and the answer is the one `Judge` builds from all of them
  (`AnswerInv`); the candidates that were kept have the lines the traveller named
  (`RoutesInv`).  The rest is about the rules: a score is in 0 .. 100 however many
  reasons there are (`ScoreInRange`), the order of the candidates has a first one, a
  level stands for its band, and no failure is lost between a lookup and the answer.
* `TripMessageProofs`: `ElevatorsAreToldAlways`, `UnknownIsAlwaysTold`,
  `VerdictAgreesAlways`, and `PartsAlwaysAgree` with its parts `SummaryAlwaysAgrees`,
  `WayAlwaysAgrees`, `PointsAlwaysAgree` and `AnotherWayAlwaysAgrees`.  The invariant is
  that of `TripProofs`; the argument goes from below.  The checks are one per station
  (`ChecksAre`, `CheckForm`), a check says what the elevators of its station say
  (`CheckSays`), a fact what its query tells of its sources (`FactsTell`).  The table
  shows three elevators of each station, in an order that puts a restricted one first
  (`VisibleIs`).  The cut of the notices does hide some that name a failure, so what
  failed is found in the groups of sources and in the table (`TripFailures`,
  `UnresolvedIsTold`), where nothing is cut, and `NoticesAre` says which notices can
  stand before the one of the charger (`TripCharger`).  The reasons name the locations
  that no other one is before (`ForemostIs`, `NamedStationsAre`): all of them if there
  are three or fewer (`TripSummary`).  A caution that names no cause is refuted: its route has no reason
  against it (`NothingFound`), so its score is 0, its level LOW, and it is called
  possible.  For the way, `SameStations` says that the code of the checks and the code
  of the message find the same stations on any route, though the one compares each
  segment with the last one that has a line, and the other carries that line along
  (`FoldOfSegments`, `LineAfter`).
* `QuestionsProofs`: `QuestionTypesCorrect`, `OnlyOpenIsAsked`, `SourcesToldTruly`,
  `StatesToldTruly`, `AlternativesToldTruly` and `NothingAskedTwice`.  The invariant says
  what each phase rests on: what is unclear is answered by its clarification, what is
  looked up needs none, every result is what its query returned for the station that was
  decided.  Then the rules: what is asked for is missing in the text (`UnclearMention`),
  what a result says of its sources (`ReadSays`), a state of its rows (`StateTells`), the
  title of the worst state (`ClaimsTell`), and which rows the table has before its cut
  (`ListedRows`).  `NothingAskedTwice` is the action property `AskedOnce`.  The service
  keeps nothing between two questions, so the reason is in the text alone: what was asked
  for is settled by it (`Settled`), a reply settles what it was asked for (`ReplySettles`)
  and leaves settled what was before (`ReplyKeepsSettled`), and what is settled is not
  asked (`SettledIsNotAsked`).
* Two lemmas stand in for the induction theorems of the library, which take an
  operator: a set of natural numbers has a smallest one (`NatMin`), and a set with 0 and
  with the successor of each of its members has every number (`UpTo`).  With them the
  recursive functions of the model (the merge of pages, the sum of the scores, the fold
  over the segments, the order of the mentions and of the stops) are reasoned about for
  inputs of any length.

### What is assumed

Of the caches only `BackendAssumption`, `MemoryAssumption` (one process),
`RequestAssumption` and `TimeAssumption`; zero and negative TTLs are allowed, as the
code clamps them.  Of paging that the indices are positive; `Limit` is any integer, as
`gather_limited` clamps it.  Of trips that there are finitely many stations and lines, and
finitely many records of a station, that the four facility sources cover the same operators, as
`source_coverage.yaml` says, and that the limit of changes is none or not negative
(section 6).  Of trips and questions that a registered station has a
line, that a place names registered stations (so it is for all 11 places of
`app/data` and all rows of its registry), that route candidates and records have the
types of `schemas/route.py` and `schemas/facility.py`, that a source gives records of
the type it was asked for, and for questions that both elevator sources cover the same
operators, as `source_coverage.yaml` says.  `None` is none of the values it stands beside.

Some theorems have a hypothesis on the constants that is not an assumption, because the
code does not enforce it:

* `NoRowIsLost` needs `Window`, that the first page does not end below the row before its
  first one.  The settings accept any two indices (`core/config.py:94`); with
  4 and 2 the further pages begin below the first one, and the result has rows that
  were not asked for.  The defaults, 1 and 1000, satisfy it.
* `PossibleHasRestroom` needs `EndsKeepRole`, that of the two ends of a route one at least is
  not also a station to change at.  A route whose only segment is marked as a change
  has two such ends, so that no requirement is asked of either, and the answer may be "possible"
  without a restroom; the run `destination_restroom` is the same weakness at the
  destination alone.
* `VerdictAgreesAlways` needs `EndOnTheWay`, that the stations a route lists have one of
  its ends.  The ends are the names of the request, the list is made of the rows of the
  route source (`normalizers/route_normalizer.py:179`), and a restroom that may be
  anywhere on the route is looked for at the stations of the list.
* `WayAlwaysAgrees`, and so `PartsAlwaysAgree`, needs `WayListed`: a route begins and ends
  at different stations, its list leads from one to the other and has the ends of all
  segments, each once.  A station that is not in the list is told after all others
  (`user_message_accessibility.py:563`), behind the destination.

The routes of the run `trip` satisfy all three hypotheses on routes.

### What proving changed in the model

`AlternativeAgrees` failed its proof for a reason: a facility that is reported but has no
place to be named by is not offered, and the title may still praise.  The exception is
now stated, and the instance has a station of this kind.  `SummaryAgrees` and
`AnotherWayAgrees` held on the instance only because it was small: of four elevators of
one station three of unknown state hide the one that runs, and whoever has a stroller or a
cane is warned of without a check that says so.  Both are corrected, and the
instance has such stations and travellers.  With the notes on the ends of a trip, and
with the cut of the reasons to three locations, it was no longer true that a notice
names what failed, that the charger is always mentioned, and that the reasons name all
that the lead calls restricted; the properties now say what is left of it.  `AskedOnce` was false of a trip that names a
facility between two stations that both leave their lines open, because the reply gave
one line where the question names no station; a reply now gives all lines that are open,
and the instance has a second station with two lines (section 6).  The order of the stops and of the elevators
shown became a choice of one listing in the order of the code, which the prover can
expand, in place of a sort it cannot.  A `CASE` with arms that overlap
became a chain of conditions in the order of the code, since TLA+ does not say which arm
is taken, and some functions that were given by `:>` and `@@` became explicit.

### What is only checked

Liveness under fairness: `EveryLookupEnds` and both `EverythingEnds`.  It rests on
`ENABLED`, which is beyond the prover.  The five runs that expect a violation are
instances and claim nothing beyond them.

## 6. Where the code and its documents differ

Five have a run that exhibits them, and an entry under `findings`:

1. `docs/architecture.md:206` promises that concurrent misses of one key are
   merged; after a failure they are not (`services/source_helpers.py:43`).
2. `tests/unit/test_restroom_policy.py:34` says the requirement DESTINATION fails
   without a restroom there; as a transfer point the destination is not asked.
3. `docs/architecture.md:196` says failed sources are delivered with the answer;
   those of stations between the ends are dropped, though they may decide.
4. The comment at `services/user_message_decision.py:53` says a restriction is
   written only where one was confirmed; running and unknown is enough.
5. `services/alternative_message.py:57` says facilities of an unconfirmed state were
   not recommended; those that only the installation data knows are.

The others were met while modelling, and the properties leave them room:

* `docs/architecture.md:170` says level, score and words do not conflict; for a
  stroller they may be LOW and "caution" (`engine/mobility_profile.py:6` against
  `user_message_decision.py:829`), and without the evidence of a caution a table with
  a restricted elevator may stand below "possible" for who does not need elevators.
* The comment at `services/station_context.py:133` says the facilities of the line
  really boarded are looked at; with candidates on two lines they are not.
* When one elevator source failed and the other one knows none, a facility question
  says "not found" (`facility_question.py:81`), though `docs/architecture.md:39` keeps
  failure and absence apart.  From stale records alone a question about elevators may
  be titled as running, one about restrooms as not confirmed above a table of rows.
* The message for another facility calls a source outside its coverage a failed one
  (`alternative_message.py:192`), and shows a station of mixed state as unknown
  (`alternative_message.py:241`).
* A place with several stations is asked for first even if the trip is decided without
  it (`question_clarification.py:188`); a third station that was named makes the
  reason say one was not found (`question_clarification.py:317`).
* A trip that also names a facility is asked for "the line" without the station it is
  meant of (`question_clarification.py:242`); who answers for one of two stations is
  asked the same again.  `AskedOnce` speaks of those who answer for all that is open.
* `schemas/accessibility.py:98` accepts a negative `max_transfer_count`, which makes
  every route one with too many changes (`engine/decision_engine.py:164`), of which the
  message has no word.  The model leaves such limits out.
* The comment at `user_message_sources.py:145` says that the charger that could not be
  checked is still mentioned where there is no lead.  Where the trip cannot be told, a
  note on an end of the trip takes the third and last place (`user_message.py:296`), and
  it is not; the notice that data is not confirmed may be cut the same way, but what
  failed is among the sources.
* The reasons name three of the restricted locations without saying that there are
  more (`user_message_decision.py:734`), as they do of those that run (`:724`).
* A misspelt name that was matched with a row of another line gives the notes on that
  line, though the route runs on the other one (`accessibility_service.py:101`).
* "Cannot tell" drops the first question to the offices, as if it were the primary
  action, which it is not there (`user_message.py:255`).

## 7. Not modelled

The splitting of questions and rows into words and fields, wording and layout of
messages, logging and redaction, configuration, the authentication library, the
tools and the server around the services, fixture mode and scripts: text,
declarations and calls without state of their own.  The key of the route cache (the
hour in it, the spellings it leaves out) and the shared HTTP client at shutdown are
the last points of the plan; the times of merged metadata are not part of any
model.  `add_same_line_direct_candidate` needs a verified path that no caller passes.
Redis payloads of another version, clocks of several processes that differ, and
`reset` of the metrics (called by a script and by tests) are left out of
`SourceLookup`.  `BodyIsWhole` speaks of clients that stay connected:
`_read_limited_body` passes on what it has read when one disconnects.
