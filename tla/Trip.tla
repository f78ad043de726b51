-------------------------------- MODULE Trip --------------------------------
(***************************************************************************)
(* AccessibilityService.check_accessible_trip: the two stations are        *)
(* resolved, the candidates are looked up and filtered, every station of   *)
(* every candidate is asked for its facilities, its elevators and, if the  *)
(* traveller needs one, its restrooms, and then the candidates are judged, *)
(* ranked and the best one is answered.                                    *)
(*                                                                         *)
(* The queries run side by side (GatherLimited) and each of them is one or *)
(* two cached lookups (SourceLookup).  Here a query is one action: it may  *)
(* return in any order, and every lookup in it ends in its own way, so one *)
(* source may fail for one station and succeed for the next.  The trip     *)
(* sees no result before all queries have ended.                           *)
(***************************************************************************)
EXTENDS Lookups

CONSTANTS
    LastLine,        \* LastLine[s]: the line of the last row of station_aliases.yaml for s
    Requests,        \* what may be asked: [from, to, fromLine, toLine, misspelt, profile]
    RouteLists,      \* RouteLists[q]: what the route source may return, each a set of routes
    Worlds,          \* Worlds[q]: what the facility sources may hold, each [Station -> records]
    StaleRows,       \* StaleRows[s]: the records that are still in the cache
    Outcomes         \* Outcomes[q][source]: how a lookup may end: "ok", "stale", "failed"

RouteSegment == [from : Station, to : Station, line : Line \cup {NoLine}, transfer : BOOLEAN]

\* minutes is 0 where the source gives none; the order of the ids is that of numbers.
RouteCandidate ==
    [id : Nat, origin : Station, destination : Station, stations : Seq(Station),
     segments : Seq(RouteSegment), transfers : Nat, minutes : Nat]

ASSUME RequestAssumption ==
    /\ IsFiniteSet(Station) /\ IsFiniteSet(Line)
    /\ LastLine \in [Station -> Line]
    /\ \A s \in Station : LastLine[s] \in RegistryLines[s]
    /\ \A q \in Requests : {q.from, q.to} \subseteq Station /\ {q.fromLine, q.toLine} \subseteq Line \cup {NoLine}
    \* -1 is that the number of changes is not limited.
    /\ \A q \in Requests : q.profile.max_transfer_count \in Nat \cup {-1}

ASSUME SourceAssumption ==
    /\ DOMAIN Worlds = Requests
    /\ \A q \in Requests : RouteLists[q] # {} /\ \A list \in RouteLists[q] : list \subseteq RouteCandidate
    /\ \A q \in Requests : \A w \in Worlds[q], s \in Station :
          /\ IsFiniteSet(w[s] \cup StaleRows[s])
          /\ \A f \in w[s] \cup StaleRows[s] : f.status \in FacilityStatus
    /\ Outcomes \in [Requests -> [FacilitySources \cup {"shortest_route"} -> SUBSET {"ok", "stale", "failed"}]]

VARIABLES
    request,    \* the arguments of the call
    world,      \* what the sources hold
    phase,      \* "asked", "routing", "querying", "answered" or "raised"
    routes,     \* route_candidates
    routeRead,  \* the sources and failed sources of the route lookup
    facts,      \* the results of the queries that have returned
    answer      \* the AccessibilityResult

vars == <<request, world, phase, routes, routeRead, facts, answer>>

-----------------------------------------------------------------------------
(* Stations and their lines. *)

\* A misspelt name is matched by similarity, with the last row of that name.
ResolveQuery(s, line) ==
    IF s \notin request.misspelt THEN Resolve(s, line)
    ELSE [matched |-> line \in {NoLine, LastLine[s]}, line |-> IF line = NoLine THEN LastLine[s] ELSE line]

Endpoints == {<<request.from, request.fromLine>>, <<request.to, request.toLine>>}

\* A candidate that misses a line the traveller named is dropped.
LineMismatch(route) ==
    \E e \in Endpoints : /\ e[2] # NoLine
                         /\ LinesAt({route}, e[1]) # {}
                         /\ e[2] \notin LinesAt({route}, e[1])

Usable(route) == route.segments # <<>>

\* Mutant: the line the name was resolved with, whatever the route runs on.
EndpointLineOfName(e, lines) == ResolveQuery(e[1], e[2]).line

EndpointLine(e, lines) ==
    LET named == ResolveQuery(e[1], e[2]).line
    IN  IF e[2] # NoLine \/ Cardinality(lines) # 1 \/ named \in lines
        THEN named
        ELSE CHOOSE l \in lines : TRUE

\* The line of each station's context, over all candidates.
ContextLine(s) ==
    LET lines == LinesAt(routes, s)
        ends == {e \in Endpoints : e[1] = s}
        through == \E r \in routes : s \in Range(r.stations)
    IN  CASE ends # {} -> EndpointLine(CHOOSE e \in ends : TRUE, lines)
          [] ends = {} /\ ~through -> NoLine
          [] OTHER -> Resolve(s, IF Cardinality(lines) = 1 THEN CHOOSE l \in lines : TRUE
                                                           ELSE NoLine).line

-----------------------------------------------------------------------------
(* The queries. *)

QueriesOf(candidates, profile) ==
    (UNION {RouteStations(r) : r \in candidates})
        \X ({"facilities", "elevators"} \cup {k \in {"restrooms"} : profile.need_accessible_restroom})

Queries == QueriesOf(routes, request.profile)

-----------------------------------------------------------------------------
(* The answers. *)

NoAnswer == [selected |-> {}]

\* The answer without a judged route.  mismatch: a candidate was dropped for
\* the line the traveller named.
Unjudged(status, score, read, mismatch) ==
    [selected |-> {}, mismatch |-> mismatch, status |-> status, level |-> "UNKNOWN", score |-> score,
     codes |-> {}, checks |-> {}, sources |-> read.sources, failed |-> read.failed, confidence |-> "LOW",
     judgement |-> Judgement(status, "UNKNOWN", {}, read.failed, {}, request.profile)]

BuildTrip(best) ==
    [selected |-> {best.route}, mismatch |-> FALSE, status |-> best.status, level |-> best.level,
     score |-> best.score, codes |-> best.codes, checks |-> best.checks,
     sources |-> best.sources, failed |-> best.failed,
     confidence |-> Confidence(best.status, best.level, best.failed, best.sources),
     judgement |-> Judgement(best.status, best.level, best.codes, best.failed, best.checks,
                             request.profile)]

AssessAll ==
    LET lines == [s \in Station |-> ContextLine(s)]
    IN  {Assess(r, request.profile, facts, lines, routeRead) : r \in routes}

Init ==
    /\ request \in Requests
    /\ world \in Worlds[request]
    /\ phase = "asked"
    /\ routes = {}
    /\ routeRead = Nothing
    /\ facts = <<>>
    /\ answer = NoAnswer

ResolveStations ==
    /\ phase = "asked"
    /\ IF \A e \in Endpoints : ResolveQuery(e[1], e[2]).matched
       THEN phase' = "routing" /\ answer' = answer
       ELSE /\ phase' = "answered"
            /\ answer' = Unjudged("NEEDS_CLARIFICATION", 25,
                                   [Nothing EXCEPT !.failed = {"station_resolution"}], FALSE)
    /\ UNCHANGED <<request, world, routes, routeRead, facts>>

\* Mutant: only an empty list of routes ends the call, not an empty rest of it.
LookUpRoutesUnchecked ==
    /\ phase = "routing"
    /\ \E outcome \in Outcomes[request]["shortest_route"], list \in RouteLists[request] :
          LET read == Read("shortest_route", outcome, list, list)
          IN  /\ routes' = {r \in read.value : Usable(r) /\ ~LineMismatch(r)}
              /\ routeRead' = [read EXCEPT !.value = {}]
              /\ IF read.value = {}
                 THEN /\ phase' = "answered"
                      /\ answer' = Unjudged("FAILED", 0, read, \E r \in read.value : Usable(r) /\ LineMismatch(r))
                 ELSE phase' = "querying" /\ answer' = answer
    /\ UNCHANGED <<request, world, facts>>

LookUpRoutes ==
    /\ phase = "routing"
    /\ \E outcome \in Outcomes[request]["shortest_route"], list \in RouteLists[request] :
          LET read == Read("shortest_route", outcome, list, list)
              candidates == {r \in read.value : Usable(r) /\ ~LineMismatch(r)}
          IN  /\ routes' = candidates
              /\ routeRead' = [read EXCEPT !.value = {}]
              /\ IF candidates = {}
                 THEN /\ phase' = "answered"
                      /\ answer' = Unjudged("FAILED", 0, read, \E r \in read.value : Usable(r) /\ LineMismatch(r))
                 ELSE phase' = "querying" /\ answer' = answer
    /\ UNCHANGED <<request, world, facts>>

QueryReturns(q) ==
    /\ phase = "querying"
    /\ q \in Queries \ DOMAIN facts
    /\ \E outcome \in Endings(q[2], Outcomes[request]) :
          facts' = [k \in DOMAIN facts \cup {q} |->
                       IF k \in DOMAIN facts THEN facts[k]
                       ELSE Query(q[1], ContextLine(q[1]), q[2], outcome, world[q[1]], StaleRows[q[1]])]
    /\ UNCHANGED <<request, world, phase, routes, routeRead, answer>>

\* Only a PublicApiError becomes a result; anything else ends the call.
LookupRaises ==
    /\ phase \in {"routing", "querying"}
    /\ phase = "querying" => Queries # DOMAIN facts
    /\ phase' = "raised"
    /\ UNCHANGED <<request, world, routes, routeRead, facts, answer>>

\* From the last result to the answer nothing is awaited.
Judge ==
    /\ phase = "querying"
    /\ DOMAIN facts = Queries
    /\ answer' = BuildTrip(Selected(AssessAll))
    /\ phase' = "answered"
    /\ UNCHANGED <<request, world, routes, routeRead, facts>>

Next ==
    \/ ResolveStations
    \/ LookUpRoutes
    \/ \E q \in Queries : QueryReturns(q)
    \/ LookupRaises
    \/ Judge

Spec == Init /\ [][Next]_vars

-----------------------------------------------------------------------------
(* Properties. *)

TypeOK ==
    /\ request \in Requests
    /\ world \in Worlds[request]
    /\ phase \in {"asked", "routing", "querying", "answered", "raised"}
    /\ \E list \in RouteLists[request] : routes \subseteq list
    /\ DOMAIN facts \subseteq Queries
    /\ Cardinality(answer.selected) <= 1
    /\ answer.selected \subseteq routes
    /\ phase = "querying" => routes # {}

Judged == phase = "answered" /\ answer.selected # {}
TheRoute == CHOOSE r \in answer.selected : TRUE
Legs(role) == {"platform", IF role = "transfer" THEN "transfer" ELSE "exit"}

\* For a traveller who cannot do without elevators the level LOW is a promise
\* about the world: the route has no change, and at every station where they
\* need one all elevators the status source lists are running, and the records
\* name every leg of the way.  However the lookups ended, whatever was still in
\* the cache (decision_engine.py, accessibility_checks.py, risk_alignment.py).
LowMeansRunning ==
    Judged /\ answer.level = "LOW" /\ RequiresElevator(request.profile) =>
        \A s \in ElevatorCheckStations(TheRoute) :
            LET elevators == {f \in world[s] : f.type = "ELEVATOR" /\ f.line \in {NoLine, ContextLine(s)}}
                reported == {f \in elevators : f.source = "elevator_status"}
            IN  /\ TheRoute.transfers = 0
                /\ reported # {} /\ \A f \in reported : f.status = "AVAILABLE"
                /\ \A leg \in Legs(StationRole(TheRoute, s)) : \E e \in elevators : leg \in e.paths

\* If the elevator status could not be read freshly for a station with a role
\* on the answered route, or the route itself was not, the answer is that it
\* cannot be told, in its level and in its words (risk_scoring.py).
CriticalFailureIsUnknown ==
    Judged /\ (\/ routeRead.failed # {}
               \/ \E s \in ElevatorCheckStations(TheRoute) :
                     "elevator_status" \in facts[<<s, "elevators">>].failed) =>
        answer.level = "UNKNOWN" /\ answer.judgement = "cannot tell" /\ answer.confidence = "LOW"

\* A candidate that cannot be judged is not answered while another one can be:
\* what failed for a station of one route says nothing of the others
\* (route_ranking.py, _metadata_for_route).
JudgedBeforeUnknown ==
    Judged /\ answer.level = "UNKNOWN" /\ routeRead.failed = {} =>
        \A r \in routes : \E s \in ElevatorCheckStations(r) :
            "elevator_status" \in facts[<<s, "elevators">>].failed

\* What failed makes unknown what it concerns, and nothing else.
UnknownWhereFailed == CriticalFailureIsUnknown /\ JudgedBeforeUnknown

\* The level, the score and the words agree as far as the code makes them:
\* each level has its band of scores, "possible" is only said of a LOW route of
\* which nothing failed, and UNKNOWN and HIGH have words of their own
\* (risk_alignment.py, user_message_decision.py).
LevelScoreWords ==
    Judged =>
        /\ answer.level = "LOW" => answer.score < 35 /\ answer.judgement \in {"possible", "caution"}
        /\ answer.level = "CAUTION" => answer.score \in 35 .. 69 /\ answer.judgement = "caution"
        /\ answer.level = "HIGH" => answer.score \in 70 .. 100 /\ answer.judgement = "not recommended"
        /\ answer.level = "UNKNOWN" <=> answer.judgement = "cannot tell"
        /\ answer.judgement = "possible" => answer.failed = {} /\ answer.status = "SUCCESS"

\* The elevators of a station are looked up on one line, found over all candidates
\* before one of them is chosen.  All the same it is a line the answered route has
\* there, and the only way for it to be another one is that the candidates run on
\* several lines there and the traveller named none, or asked for a trip from a station
\* to itself with one line and without (build_route_station_contexts,
\* route_line_mismatch_limitations).
LineIsOfTheRoute ==
    Judged =>
        \A c \in answer.checks :
            \/ c.line \in {NoLine} \cup LinesAt({TheRoute}, c.station) \/ LinesAt({TheRoute}, c.station) = {}
            \/ /\ Cardinality(LinesAt(routes, c.station)) > 1
               /\ request.from = request.to \/ \A e \in Endpoints : e[1] = c.station => e[2] = NoLine

\* HIGH confidence says of every station with a role that its core sources
\* were asked and gave a fresh answer, not of some station (evidence.py).
HighConfidenceIsFresh ==
    Judged /\ answer.confidence = "HIGH" =>
        \A s \in ElevatorCheckStations(TheRoute), name \in Core \ {"shortest_route"} :
            \E m \in facts[<<s, "facilities">>].sources \cup facts[<<s, "elevators">>].sources :
                m.name = name /\ m.success /\ ~m.stale

\* A route with a requirement on the restroom of its first or last station is
\* not called possible when that station is known to have none, nor one with a
\* requirement on all key stations or on any station that the stations do not
\* meet, unless it was met by a stale record of a station without a role
\* (see FailuresAreReported; restroom_policy.py).
RestroomWhereNeeded ==
    Judged /\ answer.judgement = "possible" /\ request.profile.need_accessible_restroom =>
        LET has(s) == \E f \in world[s] : f.type = "ACCESSIBLE_RESTROOM" /\ f.status = "AVAILABLE"
            ends == {TheRoute.origin, TheRoute.destination}
        IN  CASE request.profile.restroom = "ALL_KEY_STATIONS" -> \A s \in ElevatorCheckStations(TheRoute) : has(s)
              [] request.profile.restroom = "ANY_ROUTE_STATION" ->
                    \E s \in Range(TheRoute.stations) :
                        \/ has(s)
                        \/ facts[<<s, "restrooms">>].failed # {} /\ s \notin ElevatorCheckStations(TheRoute)
              [] request.profile.restroom = "ORIGIN_OR_DESTINATION" -> \E s \in ends : has(s)
              [] OTHER -> TRUE

-----------------------------------------------------------------------------
(* What the comments, documents and tests say, and the code does not do. *)

\* test_restroom_policy.py: a destination without a restroom fails the
\* requirement on the destination.
DestinationIsChecked ==
    Judged /\ request.profile.need_accessible_restroom
      /\ request.profile.restroom = "DESTINATION" /\ ~RestroomAt(facts, TheRoute.destination) =>
        answer.codes \cap {"no_accessible_restroom_when_required", "restroom_source_unsupported"} # {}

\* docs/architecture.md: the failed sources are delivered with the answer.
\* Here: those of every restroom lookup that the requirement was judged by.
FailuresAreReported ==
    Judged /\ request.profile.need_accessible_restroom
      /\ request.profile.restroom = "ANY_ROUTE_STATION" =>
        UNION {facts[<<s, "restrooms">>].failed : s \in Range(TheRoute.stations)} \subseteq answer.failed
=============================================================================
