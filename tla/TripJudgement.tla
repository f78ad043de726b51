--------------------------- MODULE TripJudgement ---------------------------
(***************************************************************************)
(* What the risk engine and the services around it conclude about one      *)
(* route candidate from the facility records that were collected for it:   *)
(* the stations that count and their roles, the state of a station's       *)
(* elevators, the evidence for each leg of the way through the station,    *)
(* the restroom requirement, the score and the level, their alignment, the *)
(* confidence and the words of the verdict.                                *)
(*                                                                         *)
(* A route is [id, origin, destination, stations, segments, transfers,     *)
(* minutes], a segment [from, to, line, transfer].  A facility record is   *)
(* [type, source, status, line, paths, id] where paths are the legs its    *)
(* texts name ("platform", "transfer", "exit", and "door" for a door of a  *)
(* train) and id what tells the elevator from the others at its station,   *)
(* if they say.  facts maps <<station, kind>> to what that query returned: *)
(* [value, sources, failed].                                               *)
(***************************************************************************)
EXTENDS Integers, Sequences, FiniteSets, FiniteSetsExt, Functions

CONSTANT NoLine

FacilityStatus == {"AVAILABLE", "UNAVAILABLE", "MAINTENANCE", "UNKNOWN"}

Critical == {"shortest_route", "elevator_status"}
Core == Critical \cup {"facility_info"}

-----------------------------------------------------------------------------
(* The stations of a route. *)

\* Segment i departs on another line than the last segment with a line.
LineChange(segs, i) ==
    \E j \in 1 .. i - 1 :
        /\ NoLine \notin {segs[i].line, segs[j].line}
        /\ segs[i].line # segs[j].line
        /\ \A k \in j + 1 .. i - 1 : segs[k].line = NoLine

TransferPoints(route) ==
    LET segs == route.segments
        marked == {i \in DOMAIN segs : segs[i].transfer}
        changed == {i \in DOMAIN segs : LineChange(segs, i)}
    IN  {segs[i].from : i \in marked \cup changed} \cup {segs[i].to : i \in marked}

ElevatorCheckStations(route) ==
    {route.origin, route.destination} \cup TransferPoints(route)

\* "transfer" replaces the role of an end of the route.
StationRole(route, s) ==
    IF s \in TransferPoints(route) THEN "transfer"
    ELSE IF s = route.origin THEN "origin" ELSE "destination"

\* The checks find their stations by the same rule, in code of their own.
CheckStations(route) == ElevatorCheckStations(route)

KeyStations(route, role) ==
    {s \in ElevatorCheckStations(route) : StationRole(route, s) = role}

RouteStations(route) ==
    {route.origin, route.destination} \cup Range(route.stations)
        \cup UNION {{g.from, g.to} : g \in Range(route.segments)}

LinesAt(routes, s) ==
    {g.line : g \in {g \in UNION {Range(r.segments) : r \in routes} : s \in {g.from, g.to}}}
        \ {NoLine}

-----------------------------------------------------------------------------
(* Elevators. *)

RequiresElevator(p) == p.need_elevator_only \/ p.wheelchair \/ ~p.can_use_stairs

RequiresElevatorForCheck(p) ==
    RequiresElevator(p) \/ p.stroller \/ p.cane_or_walker \/ ~p.can_use_escalator

RequiresElevatorForMessage(p) ==
    \/ p.wheelchair \/ p.stroller \/ p.cane_or_walker
    \/ ~p.can_use_stairs \/ ~p.can_use_escalator \/ p.need_elevator_only

RecordsAt(facts, s, kinds, type) ==
    {f \in UNION {facts[q].value : q \in DOMAIN facts \cap ({s} \X kinds)} : f.type = type}

ElevatorsAt(facts, s) == RecordsAt(facts, s, {"facilities", "elevators"}, "ELEVATOR")

\* Only the status source says how an elevator runs.
Operational(elevators) == {e \in elevators : e.source = "elevator_status"}

AnswerState(elevators) ==
    LET seen == {e.status : e \in Operational(elevators)}
    IN  CASE Cardinality(seen) > 1 -> "MIXED"
          [] Cardinality(seen) = 1 -> CHOOSE status \in seen : TRUE
          [] seen = {} /\ elevators # {} -> "UNKNOWN"
          [] OTHER -> "NOT_FOUND"

RepresentativeStatus(state) ==
    IF state \in {"AVAILABLE", "MAINTENANCE", "UNAVAILABLE"} THEN state ELSE "UNKNOWN"

StationSources(facts, s) ==
    UNION {facts[q].sources : q \in {q \in DOMAIN facts : q[1] = s}}

\* An elevator that was not found is one the sources had to know about.
AlignedState(state, sources) ==
    LET relevant == {m \in sources : m.name \in {"facility_info", "elevator_status", "elevator_info"}}
        covered == {m \in relevant : ~m.unsupported}
    IN  IF state # "NOT_FOUND" THEN state
        ELSE IF relevant # {} /\ covered = {} THEN "UNSUPPORTED"
        ELSE IF covered # {} /\ (\A m \in covered : m.success) THEN "NOT_FOUND" ELSE "UNKNOWN"

SourcesUnsupported(facts, s, names) ==
    LET relevant == {m \in StationSources(facts, s) : m.name \in names}
    IN  relevant # {} /\ \A m \in relevant : m.unsupported

-----------------------------------------------------------------------------
(* The restroom requirement. *)

RestroomAt(facts, s) ==
    \E f \in RecordsAt(facts, s, {"restrooms"}, "ACCESSIBLE_RESTROOM") : f.status = "AVAILABLE"

\* Mutant: an end without a restroom is not required.
RestroomStationsConfirmed(route, need, facts) ==
    LET ends == KeyStations(route, "origin") \cup KeyStations(route, "destination")
    IN  CASE need = "ORIGIN" -> KeyStations(route, "origin")
          [] need = "TRANSFER" -> KeyStations(route, "transfer")
          [] need = "DESTINATION" -> KeyStations(route, "destination")
          [] need = "ORIGIN_OR_DESTINATION" -> {s \in ends : RestroomAt(facts, s)}
          [] need = "ALL_KEY_STATIONS" -> ElevatorCheckStations(route)
          [] OTHER -> {}

RestroomStations(route, need, facts) ==
    LET ends == KeyStations(route, "origin") \cup KeyStations(route, "destination")
        confirmed == {s \in ends : RestroomAt(facts, s)}
    IN  CASE need = "ANY_ROUTE_STATION" -> {}
          [] need = "ORIGIN" -> KeyStations(route, "origin")
          [] need = "TRANSFER" -> KeyStations(route, "transfer")
          [] need = "DESTINATION" -> KeyStations(route, "destination")
          [] need = "ORIGIN_OR_DESTINATION" -> IF confirmed # {} THEN confirmed ELSE ends
          [] OTHER -> ElevatorCheckStations(route)

MissingRestrooms(route, need, facts) ==
    {s \in RestroomStations(route, need, facts) : ~RestroomAt(facts, s)}

RestroomSatisfied(route, need, facts) ==
    IF need = "ANY_ROUTE_STATION"
    THEN \E s \in Range(route.stations) : RestroomAt(facts, s)
    ELSE MissingRestrooms(route, need, facts) = {}

-----------------------------------------------------------------------------
(* Reasons, score and level.  A reason is <<code, station>>. *)

Nowhere == "-"

RuleScore ==
    [elevator_unavailable |-> 50, elevator_mixed |-> 35, elevator_unknown |-> 20,
     elevator_not_found |-> 30, escalator_only_for_wheelchair |-> 35,
     transfer_required |-> 10, too_many_transfers |-> 20,
     no_accessible_restroom_when_required |-> 20, stale_data |-> 15, api_failure |-> 25]

ElevatorCode(state) ==
    CASE state = "MIXED" -> {"elevator_mixed"}
      [] state \in {"MAINTENANCE", "UNAVAILABLE"} -> {"elevator_unavailable"}
      [] state = "UNKNOWN" -> {"elevator_unknown"}
      [] state = "NOT_FOUND" -> {"elevator_not_found"}
      [] OTHER -> {}

EscalatorOnly(facts, p, s) ==
    /\ p.wheelchair
    /\ \A e \in Operational(ElevatorsAt(facts, s)) : e.status # "AVAILABLE"
    /\ \E f \in RecordsAt(facts, s, {"facilities"}, "ESCALATOR") : f.status = "AVAILABLE"

ElevatorReasons(route, p, facts) ==
    IF ~RequiresElevator(p) THEN {}
    ELSE UNION {(ElevatorCode(AnswerState(ElevatorsAt(facts, s)))
                    \cup {c \in {"escalator_only_for_wheelchair"} : EscalatorOnly(facts, p, s)})
                 \X {s} : s \in ElevatorCheckStations(route)}

TooManyTransfers(route, p) ==
    IF p.max_transfer_count >= 0 THEN route.transfers > p.max_transfer_count
                                 ELSE p.avoid_many_transfers /\ route.transfers > 1

RestroomReasons(route, p, facts) ==
    LET missing == MissingRestrooms(route, p.restroom, facts)
    IN  IF ~p.need_accessible_restroom \/ RestroomSatisfied(route, p.restroom, facts) THEN {}
        ELSE {"no_accessible_restroom_when_required"} \X (IF missing # {} THEN missing ELSE {Nowhere})

RouteReasons(route, p, failed, sources) ==
    {c \in {"transfer_required", "too_many_transfers", "api_failure", "stale_data"} :
        CASE c = "transfer_required" -> route.transfers > 0
          [] c = "too_many_transfers" -> TooManyTransfers(route, p)
          [] c = "api_failure" -> failed # {}
          [] OTHER -> \E m \in sources : m.stale} \X {Nowhere}

EvaluateRoute(route, p, facts, failed, sources) ==
    ElevatorReasons(route, p, facts) \cup RestroomReasons(route, p, facts)
        \cup RouteReasons(route, p, failed, sources)

ClampScore(score) == IF score > 100 THEN 100 ELSE IF score < 0 THEN 0 ELSE score

\* Of the stations without a restroom only the first one scores.
TotalScore(reasons) ==
    LET restroom == {r \in reasons : r[1] = "no_accessible_restroom_when_required"}
    IN  ClampScore(MapThenSumSet(LAMBDA r : RuleScore[r[1]], reasons \ restroom)
                     + IF restroom # {} THEN RuleScore.no_accessible_restroom_when_required ELSE 0)

CriticalFailure(failed) == failed \cap Critical # {}

\* Mutant: a failed source is only part of the score.
RiskLevelByScore(score, failed) ==
    IF score >= 70 THEN "HIGH" ELSE IF score >= 35 THEN "CAUTION" ELSE "LOW"

RiskLevel(score, failed) ==
    IF CriticalFailure(failed) THEN "UNKNOWN"
    ELSE IF score >= 70 THEN "HIGH" ELSE IF score >= 35 THEN "CAUTION" ELSE "LOW"

AlignCoverage(reasons, facts) ==
    LET code(r) ==
          CASE /\ r[1] = "elevator_not_found"
               /\ SourcesUnsupported(facts, r[2], {"elevator_status", "elevator_info"})
                 -> "elevator_source_unsupported"
            [] /\ r[1] = "no_accessible_restroom_when_required"
               /\ SourcesUnsupported(facts, r[2], {"restroom"})
                 -> "restroom_source_unsupported"
            [] OTHER -> r[1]
    IN  {<<code(r), r[2]>> : r \in reasons}

-----------------------------------------------------------------------------
(* The list of a station's elevators: those the status source reports, with  *)
(* the texts of the one installation record that has their id or name, and   *)
(* the installation records that are left over, whose state nobody knows.    *)

NoId == ""

\* The richest of the installation records of one elevator.
References(elevators) ==
    LET installed == elevators \ Operational(elevators)
        same(f) == {g \in installed : /\ g.line = f.line /\ g.id = f.id
                                      /\ f.id = NoId => g.paths = f.paths}
    IN  {CHOOSE g \in same(f) : \A h \in same(f) : Cardinality(h.paths) <= Cardinality(g.paths)
            : f \in installed}

\* One match or none: of two the code takes neither.
MatchReference(e, references) ==
    LET found == {r \in references : e.id # NoId /\ r.id = e.id}
    IN  IF Cardinality(found) = 1 THEN found ELSE {}

ElevatorEvidence(elevators) ==
    LET references == References(elevators)
        operational == Operational(elevators)
        used == UNION {MatchReference(e, references) : e \in operational}
    IN  {[id |-> e.id, reported |-> TRUE, status |-> e.status,
          paths |-> IF e.paths # {} THEN e.paths
                    ELSE UNION {r.paths : r \in MatchReference(e, references)}] : e \in operational}
        \cup {[id |-> r.id, reported |-> FALSE, status |-> "UNKNOWN", paths |-> r.paths]
                : r \in references \ used}

-----------------------------------------------------------------------------
(* The evidence of one station. *)

LineEvidence(has, elevators, line) ==
    LET lines == {e.line : e \in elevators} \ {NoLine}
    IN  IF has = "FAILED" THEN "FAILED"
        ELSE IF elevators = {} \/ line = NoLine \/ lines = {} THEN "UNVERIFIED"
        ELSE IF line \in lines THEN "CONFIRMED" ELSE "FAILED"

\* Mutant: a leg that no text names is taken to be there.
PathEvidenceAssumed(required, has, elevators, leg) ==
    IF ~required THEN "NOT_APPLICABLE" ELSE IF has = "FAILED" THEN "FAILED" ELSE "CONFIRMED"

PathEvidence(required, has, elevators, leg) ==
    IF ~required THEN "NOT_APPLICABLE"
    ELSE IF has = "FAILED" THEN "FAILED"
    ELSE IF \E e \in elevators : leg \in e.paths THEN "CONFIRMED" ELSE "UNVERIFIED"

StatusEvidence(has, state) ==
    IF has = "FAILED" THEN "FAILED"
    ELSE IF state \in {"MIXED", "AVAILABLE", "MAINTENANCE", "UNAVAILABLE"} THEN "CONFIRMED" ELSE "UNVERIFIED"

\* A station is left by the way to the other line, or out.
Check(route, p, facts, lineOf, s) ==
    LET elevators == ElevatorsAt(facts, s)
        state == AlignedState(AnswerState(elevators), StationSources(facts, s))
        role == StationRole(route, s)
        has == IF elevators # {} THEN "CONFIRMED" ELSE IF state = "NOT_FOUND" THEN "FAILED" ELSE "UNVERIFIED"
        path(leg, ofRole) == PathEvidence(RequiresElevatorForCheck(p) /\ ofRole, has, elevators, leg)
    IN  [station |-> s, role |-> role, line |-> lineOf[s],
         state |-> state, status |-> RepresentativeStatus(state),
         details |-> ElevatorEvidence(elevators),
         has |-> has, lineMatch |-> LineEvidence(has, elevators, lineOf[s]),
         statusVerified |-> StatusEvidence(has, state),
         platform |-> path("platform", TRUE),
         transfer |-> path("transfer", role = "transfer"),
         exit |-> path("exit", role # "transfer"),
         restroomRequired |-> p.need_accessible_restroom /\ s \in RestroomStations(route, p.restroom, facts),
         restroom |-> IF ~p.need_accessible_restroom THEN "not asked" ELSE IF RestroomAt(facts, s) THEN "yes" ELSE "no",
         restroomUnsupported |-> SourcesUnsupported(facts, s, {"restroom"})]

Gap(evidence) == evidence \in {"UNVERIFIED", "FAILED"}

Unverified(check) ==
    \/ check.status = "UNKNOWN"
    \/ \E field \in {"has", "lineMatch", "statusVerified", "platform", "transfer", "exit"} : Gap(check[field])

RestroomMissing(check) == check.restroomRequired /\ check.restroom = "no"

-----------------------------------------------------------------------------
(* Alignment, confidence and the words. *)

CautionCodes ==
    {"transfer_required", "too_many_transfers", "no_accessible_restroom_when_required",
     "restroom_source_unsupported", "elevator_unknown", "elevator_not_found",
     "elevator_source_unsupported", "elevator_mixed", "elevator_unavailable", "stale_data"}

\* Mutant: the floor looks at the reasons only.
CautionFloorByReasons(codes, checks, p) == codes \cap CautionCodes # {}

CautionFloor(codes, checks, p) ==
    \/ codes \cap CautionCodes # {}
    \/ RequiresElevator(p) /\ \E c \in checks : Unverified(c)
    \/ \E c \in checks : RestroomMissing(c)

\* Mutant: the floor raises the level and leaves the score.
AlignedLevelOnly(score, codes, failed, checks, p) ==
    LET level == RiskLevel(score, failed)
    IN  [score |-> score,
         level |-> IF level = "LOW" /\ CautionFloor(codes, checks, p) THEN "CAUTION" ELSE level]

\* The statuses of a candidate are SUCCESS and PARTIAL.
AlignedRisk(score, codes, failed, checks, p) ==
    LET level == RiskLevel(score, failed)
        floor == level # "UNKNOWN" /\ CautionFloor(codes, checks, p)
    IN  [score |-> IF floor /\ score < 35 THEN 35 ELSE score,
         level |-> IF floor /\ level = "LOW" THEN "CAUTION" ELSE level]

CandidateStatus(failed, sources) ==
    IF failed # {} \/ (\E m \in sources : m.unsupported) THEN "PARTIAL" ELSE "SUCCESS"

\* Mutant: a source that succeeded once counts for every station.
ConfidenceByName(status, level, failed, sources) ==
    IF \/ status \in {"FAILED", "NEEDS_CLARIFICATION"} \/ level = "UNKNOWN" \/ CriticalFailure(failed)
       \/ ~(Core \subseteq {m.name : m \in {m \in sources : m.success}} \cup failed)
    THEN "LOW"
    ELSE IF failed # {} THEN "MEDIUM" ELSE "HIGH"

Confidence(status, level, failed, sources) ==
    IF \/ status \in {"FAILED", "NEEDS_CLARIFICATION"} \/ level = "UNKNOWN" \/ CriticalFailure(failed)
       \/ ~(Core \subseteq {m.name : m \in {m \in sources : m.success}} \cup failed)
    THEN "LOW"
    ELSE IF failed # {} \/ (\E m \in sources : m.stale \/ m.unsupported \/ ~m.success) THEN "MEDIUM" ELSE "HIGH"

\* The caution codes of the words are not those of the floor.
WordCautionCodes == CautionCodes \ {"elevator_mixed", "stale_data"}

Judgement(status, level, codes, failed, checks, p) ==
    IF status = "NEEDS_CLARIFICATION" THEN "more information"
    ELSE IF status = "FAILED" \/ level = "UNKNOWN" \/ CriticalFailure(failed) THEN "cannot tell"
    ELSE IF level = "HIGH" THEN "not recommended"
    ELSE IF \/ level = "CAUTION"
            \/ RequiresElevatorForMessage(p) /\ \E c \in checks : Unverified(c)
            \/ \E c \in checks : RestroomMissing(c)
            \/ codes \cap WordCautionCodes # {}
            \/ status = "PARTIAL" \/ failed # {}
         THEN "caution" ELSE "possible"

-----------------------------------------------------------------------------
(* One candidate, and the order of the candidates. *)

\* What the queries for the stations with a role say of their sources.
\* Mutant: only the two ends of the route are looked at.
MetadataOfEnds(route, facts, field) ==
    UNION {facts[q][field] : q \in {q \in DOMAIN facts : q[1] \in {route.origin, route.destination}}}

\* Mutant: every station that was queried counts for every route.
MetadataOfAll(route, facts, field) == UNION {facts[q][field] : q \in DOMAIN facts}

Metadata(route, facts, field) ==
    UNION {facts[q][field] : q \in {q \in DOMAIN facts : q[1] \in CheckStations(route)}}

Assess(route, p, facts, lineOf, routeRead) ==
    LET sources == routeRead.sources \cup Metadata(route, facts, "sources")
        failed == routeRead.failed \cup Metadata(route, facts, "failed")
        found == EvaluateRoute(route, p, facts, failed, sources)
        codes == {r[1] : r \in AlignCoverage(found, facts)}
        checks == {Check(route, p, facts, lineOf, s) : s \in CheckStations(route)}
        risk == AlignedRisk(TotalScore(found), codes, failed, checks, p)
    IN  [route |-> route, status |-> CandidateStatus(failed, sources),
         score |-> risk.score, level |-> risk.level,
         codes |-> codes, checks |-> checks, sources |-> sources, failed |-> failed]

RiskOrder == [LOW |-> 0, CAUTION |-> 1, HIGH |-> 2, UNKNOWN |-> 3]

SortKey(a) ==
    <<RiskOrder[a.level], a.score, a.route.transfers,
      IF a.route.minutes = 0 THEN 9999 ELSE a.route.minutes, a.route.id>>

Precedes(a, b) ==
    LET x == SortKey(a)  y == SortKey(b)
    IN  \E i \in DOMAIN x : x[i] < y[i] /\ \A j \in 1 .. i - 1 : x[j] = y[j]

\* The first of the sorted list.
Selected(assessments) == CHOOSE a \in assessments : \A b \in assessments : ~Precedes(b, a)
=============================================================================
