----------------------------- MODULE TripMessage -----------------------------
(***************************************************************************)
(* What the user_message of a trip says.  The text itself is left out; a   *)
(* message is the set of claims it makes: the heading, the points of the   *)
(* lead (which stations are restricted, which run, what was not            *)
(* confirmed), the questions for the station offices, the two columns of   *)
(* the table for every station, the state of every group of sources, and   *)
(* the notices.  Each claim is made by a rule of its own over the same     *)
(* checks; the properties say how the claims have to fit each other and    *)
(* what the sources had said.                                              *)
(***************************************************************************)
EXTENDS Trip, SequencesExt

CONSTANT Uncoded   \* the <<station, line>> that route_station_codes.py has no code for

ASSUME CodeAssumption == Uncoded \subseteq Station \X Line

\* source_coverage.yaml names the same operators for all four facility sources.
ASSUME CoverageAssumption ==
    \A x, y \in FacilitySources, s \in Station, l \in Line : <<x, s, l>> \in Uncovered => <<y, s, l>> \in Uncovered

Restricting == {"MAINTENANCE", "UNAVAILABLE"}
Profile == request.profile

-----------------------------------------------------------------------------
(* One check.  Checks have details exactly if has is CONFIRMED. *)

DetailsIn(c, statuses) == {d \in c.details : d.status \in statuses}

\* Mutant: a station counts as running if one of its elevators runs.
IsOperatingSome(c) == c.has = "CONFIRMED" /\ DetailsIn(c, {"AVAILABLE"}) # {}

IsOperating(c) == c.has = "CONFIRMED" /\ c.statusVerified = "CONFIRMED" /\ c.state = "AVAILABLE"

\* Mutant: only a station without any other elevator is restricted.
IsRestrictedAll(c) == c.status \in Restricting

IsRestricted(c) ==
    \/ DetailsIn(c, Restricting) # {}
    \/ c.state = "MIXED"
    \/ c.status \in Restricting

HasOperatingElevator(c) == DetailsIn(c, {"AVAILABLE"}) # {}

IsMissing(c) == c.details = {} /\ Gap(c.has)

PathGaps(c) == {leg \in {"platform", "transfer", "exit"} : Gap(c[leg])}

AllOperating(checks) == checks # {} /\ \A c \in checks : IsOperating(c)
SomePathGap(checks) == \E c \in checks : PathGaps(c) # {}

\* Elevators and required restrooms in one sentence.
AllUnsupported(c) == c.state = "UNSUPPORTED" /\ c.restroomUnsupported /\ RestroomMissing(c)

ChargerUnchecked(r) == Profile.need_wheelchair_charger /\ r.selected # {}

-----------------------------------------------------------------------------
(* The lead: what is restricted, what runs, what was not confirmed. *)

\* Outside the coverage, a lookup without a hit, and a lookup that failed.
MissingElevators(c) ==
    CASE c.state = "UNSUPPORTED" -> "elevators unsupported"
      [] c.state = "NOT_FOUND" -> "elevators not found"
      [] OTHER -> "elevators not confirmed"

MissingWord(c) == IF AllUnsupported(c) THEN "all unsupported" ELSE MissingElevators(c)

\* The path sentences name the legs and not the stations.
UnverifiedPaths(checks) ==
    UNION {PathGaps(c) : c \in {c \in checks : c.has = "CONFIRMED" /\ HasOperatingElevator(c)}}

Unconfirmed(r) ==
    {<<MissingWord(c), c.station>> : c \in {c \in r.checks : IsMissing(c)}}
        \cup {<<"status", c.station>> :
                c \in {c \in r.checks : c.has = "CONFIRMED" /\ ~IsOperating(c) /\ ~IsRestricted(c)}}
        \cup UnverifiedPaths(r.checks) \X {Nowhere}
        \cup {<<IF c.restroomUnsupported THEN "restroom unsupported" ELSE "restroom", c.station>> :
                c \in {c \in r.checks : RestroomMissing(c) /\ ~AllUnsupported(c)}}
        \cup {x \in {<<"charger", Nowhere>>} : ChargerUnchecked(r)}

RestrictedSentences(checks) ==
    {<<c.station, HasOperatingElevator(c)>> : c \in {c \in checks : IsRestricted(c)}}

OperatingStations(checks) == {c.station : c \in {c \in checks : IsOperating(c)}}

\* The running stations whose exits are said to be reached.
ExitsReached(checks) ==
    LET ends == {c \in checks : IsOperating(c) /\ c.role # "transfer"}
    IN  IF \A c \in ends : c.exit = "CONFIRMED" THEN {c.station : c \in ends} ELSE {}

NoLead == [restricted |-> {}, running |-> {}, exits |-> {}, unconfirmed |-> {}]

LeadPoints(r) ==
    IF \/ r.judgement \notin {"caution", "not recommended"}
       \/ RestrictedSentences(r.checks) \cup Unconfirmed(r) = {}
    THEN NoLead
    ELSE [restricted |-> RestrictedSentences(r.checks), running |-> OperatingStations(r.checks),
          exits |-> ExitsReached(r.checks), unconfirmed |-> Unconfirmed(r)]

-----------------------------------------------------------------------------
(* The heading, and the headline of the summary. *)

RouteNotFound(r) == r.status = "FAILED" /\ r.selected = {} /\ r.failed = {}

\* The blocked facilities of a route are restricted elevators of its checks.
HasConfirmedRestriction(r) == \E c \in r.checks : IsRestricted(c)

CannotTellHeading(r) ==
    CASE RouteNotFound(r) /\ r.mismatch -> "no route of that line"
      [] RouteNotFound(r) /\ ~r.mismatch -> "no route"
      [] OTHER -> "data not confirmed"

CautionHeading(r) ==
    IF HasConfirmedRestriction(r) THEN "avoid the elevator"
    ELSE IF \E c \in r.checks : IsMissing(c) THEN "find the elevator"
    ELSE IF AllOperating(r.checks) /\ SomePathGap(r.checks) THEN "check the way"
    ELSE IF \E c \in r.checks : RestroomMissing(c) THEN "check the restroom" ELSE "check first"

ActionHeading(r) ==
    CASE r.judgement = "more information" -> "one more thing"
      [] r.judgement = "cannot tell" -> CannotTellHeading(r)
      [] r.judgement = "possible" -> "can be used"
      [] r.judgement = "caution" -> CautionHeading(r)
      [] r.judgement = "not recommended" ->
            IF HasConfirmedRestriction(r) THEN "not recommended" ELSE "not recommended on what is known"

\* The sentence that also explains an answer without a lead.
Headline(r) ==
    CASE r.judgement = "more information" -> "stations not decided"
      [] r.judgement = "cannot tell" -> CannotTellHeading(r)
      [] r.judgement = "possible" -> "no restriction known"
      [] r.judgement = "caution" -> CautionHeading(r)
      [] r.judgement = "not recommended" ->
            IF HasConfirmedRestriction(r) THEN "a restriction is known" ELSE "an elevator is not confirmed"

-----------------------------------------------------------------------------
(* What to ask the station offices before leaving: [ask, stations].         *)

Question(ask, checks) == [ask |-> ask, stations |-> {c.station : c \in checks}]
Posed(question) == IF question.stations = {} THEN <<>> ELSE <<question>>

\* One question for a restricted station, one for a station without elevators.
BlockingActions(checks) ==
    LET restricted(alternative) == {c \in checks : IsRestricted(c) /\ HasOperatingElevator(c) = alternative}
        missing(restroom) ==
            {c \in checks : IsMissing(c) /\ (c.restroomRequired /\ c.restroom # "yes") = restroom}
    IN  Posed(Question({"other elevators"}, restricted(TRUE))) \o Posed(Question({"elevator or help"}, restricted(FALSE)))
            \o Posed(Question({"elevator", "restroom"}, missing(TRUE))) \o Posed(Question({"elevator"}, missing(FALSE)))

\* The stations of one and the same question are asked together.  Which of two
\* path questions comes first depends on the order of the stations.
PathActions(checks) ==
    SetToSeq({Question(legs, {c \in checks : PathGaps(c) = legs}) : legs \in {PathGaps(c) : c \in checks} \ {{}}})

DetailActions(r, handled) ==
    LET open == r.checks \ handled
    IN  Posed(Question({"line"}, {c \in open : c.line # NoLine /\ c.lineMatch # "CONFIRMED"}))
        \o Posed(Question({"status"}, {c \in open : Gap(c.statusVerified)}))
        \o (IF ChargerUnchecked(r) THEN <<[ask |-> {"charger"}, stations |-> {Nowhere}]>> ELSE <<>>)
        \o Posed(Question({"restroom"}, {c \in r.checks : c.restroomRequired /\ c.restroom # "yes" /\ ~IsMissing(c)}))

\* Mutant: what blocks the way hides the other questions.
PreDepartureActionsBlocking(r) ==
    LET blocking == BlockingActions(r.checks)
    IN  IF blocking # <<>> THEN blocking ELSE PathActions(r.checks) \o DetailActions(r, {})

PreDepartureActions(r) ==
    LET handled == {c \in r.checks : IsRestricted(c) \/ IsMissing(c)}
        blocking == BlockingActions(r.checks)
    IN  IF r.judgement = "not recommended" THEN blocking
        ELSE blocking \o PathActions(r.checks \ handled) \o DetailActions(r, handled)

General(ask) == <<[ask |-> {ask}, stations |-> {Nowhere}]>>

\* At most one action, as a sequence.
PrimaryAction(r, actions) ==
    CASE r.judgement = "cannot tell" /\ r.mismatch -> General("leave out the line")
      [] r.judgement = "cannot tell" /\ ~r.mismatch ->
            General(IF RouteNotFound(r) THEN "station office" ELSE "look up again")
      [] r.judgement \notin {"cannot tell", "more information"} /\ actions # <<>> -> <<Head(actions)>>
      [] r.judgement = "not recommended" /\ actions = <<>> -> General("another route or help")
      [] r.judgement = "caution" /\ actions = <<>> -> General("the way by elevator")
      [] OTHER -> <<>>

\* Below a lead all actions are listed.  Without one, the action that the
\* primary action is taken to be is left out of the others.
ShownActions(r) ==
    LET actions == PreDepartureActions(r)
        primary == PrimaryAction(r, actions)
    IN  Range(primary) \cup
        Range(IF LeadPoints(r) = NoLead /\ primary # <<>> /\ actions # <<>> THEN Tail(actions) ELSE actions)

-----------------------------------------------------------------------------
(* The table: what is confirmed of a station, and what needs attention.     *)

StatusRank == [UNAVAILABLE |-> 0, MAINTENANCE |-> 1, UNKNOWN |-> 2, AVAILABLE |-> 3]

First(seq, n) == SubSeq(seq, 1, IF n < Len(seq) THEN n ELSE Len(seq))

\* At most n of the elements, none of which comes after one that is left out.
Foremost(S, n, key) ==
    IF Cardinality(S) <= n THEN S
    ELSE CHOOSE best \in SUBSET S : /\ Cardinality(best) = n
                                   /\ \A x \in best, y \in S \ best : key[x] <= key[y]

Best(details, n, rank) == Foremost(details, n, [d \in details |-> rank[d.status]])

\* Mutant: the running ones come first.
VisibleRunningFirst(c) == Best(c.details, 3, [s \in DOMAIN StatusRank |-> 3 - StatusRank[s]])

\* Three elevators are shown: of a mixed station a restricted and a running one,
\* then one inside and one at an exit, then by rank.
VisibleDetails(c) ==
    LET best(details, n) == Best(details, n, StatusRank)
        restricted == DetailsIn(c, Restricting)
        running == DetailsIn(c, {"AVAILABLE"})
        pair == IF c.state = "MIXED" /\ restricted # {} /\ running # {}
                THEN best(restricted, 1) \cup best(running, 1) ELSE {}
        inside == {d \in c.details : "exit" \notin d.paths}
        with(chosen, side) == chosen \cup IF chosen \cap side = {} THEN best(side, 1) ELSE {}
        sides == with(with(pair, inside), c.details \ inside)
    IN  IF Cardinality(c.details) <= 3 THEN c.details
        ELSE sides \cup best(c.details \ sides, 3 - Cardinality(sides))

\* A platform elevator is one whose place is a door of a train.
PlatformCell(c) ==
    LET located == \E d \in c.details : "platform" \in d.paths
    IN  CASE located -> "which platform"
          [] ~located /\ (\E d \in c.details : "door" \in d.paths) -> "platform elevator"
          [] OTHER -> "platform"

TableConfirmed(c) ==
    {w \in {"running", "transfer", "exit", "restroom"} :
        CASE w = "running" -> \E d \in VisibleDetails(c) : d.status = "AVAILABLE"
          [] w = "restroom" -> c.restroom = "yes"
          [] OTHER -> c[w] = "CONFIRMED"}
        \cup IF c.platform = "CONFIRMED" THEN {PlatformCell(c)} \ {"which platform"} ELSE {}

\* A station without elevators has one entry for them, whatever else is open.
\* Mutant: only a restroom that this station must have is missed.
TableAttentionRequired(c) ==
    (IF c.has # "CONFIRMED" THEN {MissingElevators(c)}
     ELSE ({d.status : d \in VisibleDetails(c)} \ {"AVAILABLE"}) \cup {w \in {"transfer", "exit"} : Gap(c[w])})
        \cup {w \in {"restroom"} : RestroomMissing(c)}

TableAttention(c) ==
    (IF c.has # "CONFIRMED" THEN {MissingElevators(c)}
     ELSE ({d.status : d \in VisibleDetails(c)} \ {"AVAILABLE"})
            \cup {w \in {"more", "line", "transfer", "exit"} :
                    CASE w = "more" -> VisibleDetails(c) # c.details
                      [] w = "line" -> c.line # NoLine /\ Gap(c.lineMatch)
                      [] OTHER -> Gap(c[w])}
            \cup IF Gap(c.platform) THEN {PlatformCell(c)} ELSE {})
        \cup IF c.restroom # "no" THEN {}
             ELSE {IF c.restroomUnsupported THEN "restroom unsupported" ELSE "restroom"}

Table(r) ==
    {[station |-> c.station, confirmed |-> TableConfirmed(c), attention |-> TableAttention(c)] : c \in r.checks}

-----------------------------------------------------------------------------
(* The sources, by group, and the notices. *)

SourceGroups ==
    [route |-> {"shortest_route"}, elevators |-> {"elevator_status", "elevator_info"},
     facilities |-> {"facility_info"}, restrooms |-> {"restroom"}]

\* A failure that no source stands for has evidence of its own.
TripEvidence(r) ==
    r.sources \cup {Meta(name, FALSE, FALSE, FALSE) : name \in r.failed \ {m.name : m \in {m \in r.sources : ~m.success}}}

\* "checked" comes with the time of the lookup.
\* Mutant: one source of the group that was read is enough.
SourceGroupStatusAny(r, names) ==
    LET sources == {m \in TripEvidence(r) : m.name \in names}
    IN  IF sources = {} THEN "not asked"
        ELSE IF \E m \in sources : m.success THEN "checked"
        ELSE IF \A m \in sources : m.unsupported THEN "unsupported" ELSE "failed"

SourceGroupStatus(r, names) ==
    LET sources == {m \in TripEvidence(r) : m.name \in names}
        failing == {m \in sources : ~m.success /\ ~m.unsupported}
    IN  IF sources = {} THEN "not asked"
        ELSE IF \A m \in sources : m.unsupported THEN "unsupported"
        ELSE IF ~\E m \in sources : m.success THEN "failed"
        ELSE IF failing = {} THEN "checked" ELSE "checked, some failed"

DataBasis(r) ==
    LET groups == {g \in DOMAIN SourceGroups :
                      g = "restrooms" => \/ Profile.need_accessible_restroom
                                         \/ \E m \in TripEvidence(r) : m.name = "restroom"}
        status(g) == SourceGroupStatus(r, SourceGroups[g])
    IN  {<<g, status(g)>> : g \in {g \in groups : /\ ~(r.selected = {} /\ status(g) = "not asked")
                                               /\ ~(r.checks # {} /\ status(g) = "unsupported")}}

ShowsElevatorStatus(r) ==
    r.selected # {} /\ (r.checks = {} \/ \E c \in r.checks : c.has = "CONFIRMED")

\* The lookups outside the coverage.  If the table already says so of the
\* elevators of the station, the limitation is not repeated.
CoverageNotices(r) ==
    UNION {{<<m.name, c.station>> : m \in {m \in StationSources(facts, c.station) : m.unsupported}}
              : c \in {c \in r.checks : c.state # "UNSUPPORTED"}}

When(condition, notice) == IF condition THEN <<notice>> ELSE <<>>

\* What is known in advance of an end of the trip, on the line it was resolved
\* with, which need not be a line of the route: the route source has no code for
\* it, a facility source does not cover it.  No facilities, no word about them.
SupportNotices(r, s, line) ==
    LET tabled == \E c \in r.checks : c.station = s /\ c.state = "UNSUPPORTED"
        limited == \E name \in FacilitySources : <<name, s, line>> \in Uncovered
    IN  When(<<s, line>> \in Uncoded /\ ~tabled, <<"route code", s>>)
          \o When(limited /\ ~tabled /\ r.selected # {}, <<"coverage limited", s>>)

EndNotices(r) ==
    LET from == ResolveQuery(request.from, request.fromLine).line
        to == ResolveQuery(request.to, request.toLine).line
    IN  SupportNotices(r, request.from, from)
          \o IF <<request.from, from>> = <<request.to, to>> THEN <<>> ELSE SupportNotices(r, request.to, to)

\* Mutant: the charger is left to the lead, except where all is possible.
NoticesPossibleOnly(r) ==
    IF r.status = "NEEDS_CLARIFICATION" THEN <<>>
    ELSE When(ShowsElevatorStatus(r), <<"status may change", Nowhere>>)
           \o When(ChargerUnchecked(r) /\ r.judgement = "possible", <<"charger", Nowhere>>)

\* The limitations of the other kinds come after these.
Notices(r) ==
    IF r.status = "NEEDS_CLARIFICATION" THEN <<>>
    ELSE When(ShowsElevatorStatus(r), <<"status may change", Nowhere>>)
           \o When(r.selected # {}, <<"scope", Nowhere>>)
           \o EndNotices(r)
           \o SetToSeq(CoverageNotices(r))
           \o When(ChargerUnchecked(r) /\ LeadPoints(r) = NoLead, <<"charger", Nowhere>>)
           \o When(r.status # "FAILED" /\ r.failed # {}, <<"some data not confirmed", Nowhere>>)

-----------------------------------------------------------------------------
(* The message, and the structured summary that is returned beside it. *)

Message(r) ==
    IF r.judgement = "more information"
    THEN [heading |-> ActionHeading(r), headline |-> "none", lead |-> NoLead, actions |-> {}, transfers |-> FALSE,
          table |-> {}, basis |-> {}, notices |-> {}]
    ELSE [heading |-> ActionHeading(r),
          headline |-> IF r.judgement = "cannot tell" \/ LeadPoints(r) # NoLead THEN "none" ELSE Headline(r),
          lead |-> LeadPoints(r), actions |-> ShownActions(r),
          transfers |-> \E route \in r.selected : route.transfers > 0,
          table |-> Table(r), basis |-> DataBasis(r), notices |-> Range(First(Notices(r), 3))]

\* When a station is passed; one that the route does not list comes last.
PlaceOf(route, s) ==
    IF s \in Range(route.stations) THEN SelectLastInSeq(route.stations, LAMBDA t : t = s) ELSE 10000

\* Where the elevators of some statuses are.  Two elevators of a station are
\* taken to be at two places.
Locations(checks, statuses) == UNION {{<<c.station, {d}>> : d \in DetailsIn(c, statuses)} : c \in checks}

\* A restricted station without a restricted elevator stands for itself.
RestrictedLocations(checks) ==
    Locations(checks, Restricting)
        \cup {<<c.station, {}>> : c \in {c \in checks : IsRestricted(c) /\ DetailsIn(c, Restricting) = {}}}

\* The stations of the first three locations on the way.
NamedStations(r, locations) ==
    LET route == CHOOSE route \in r.selected : TRUE
    IN  {x[1] : x \in Foremost(locations, 3, [x \in locations |-> PlaceOf(route, x[1])])}

\* The reasons of the summary are found by tests of their own.  Only of the
\* running elevators is it said that there are more than the three named.
Reasons(r) ==
    LET stations(test(_)) == {c.station : c \in {c \in r.checks : test(c)}}
        running == Locations(r.checks, {"AVAILABLE"})
    IN  ({"running"} \X NamedStations(r, running))
        \cup ({x \in {"more running"} : Cardinality(running) > 3} \X {Nowhere})
        \cup ({"restricted"} \X NamedStations(r, RestrictedLocations(r.checks)))
        \cup ({"status"} \X stations(LAMBDA c : (\A d \in c.details : d.status = "UNKNOWN")
                                                  /\ (c.status = "UNKNOWN" \/ c.statusVerified # "CONFIRMED")))
        \cup ({"path"} \X stations(LAMBDA c : PathGaps(c) # {}))
        \cup ({"restroom"} \X stations(LAMBDA c : RestroomMissing(c)))
        \cup ({c \in r.codes : c \notin {"escalator_only_for_wheelchair", "elevator_mixed"}} \X {Nowhere})
        \cup ({x \in {"limits"} : r.failed # {} \/ r.status = "PARTIAL"} \X {Nowhere})

-----------------------------------------------------------------------------
(* The way, the key points and the evidence of the structured answer.       *)

\* Mutant: only a segment that is marked is a change.
CriticalRouteStationsMarked(route) ==
    {route.origin, route.destination}
        \cup UNION {{g.from, g.to} : g \in {g \in Range(route.segments) : g.transfer}}

\* The third place that finds out where one has to change.
CriticalRouteStations(route) ==
    LET step(seen, g) ==
            [line |-> IF g.line = NoLine THEN seen.line ELSE g.line,
             stations |-> seen.stations
                \cup (IF g.transfer THEN {g.from, g.to} ELSE {})
                \cup IF NoLine \notin {seen.line, g.line} /\ seen.line # g.line THEN {g.from} ELSE {}]
        start == [line |-> NoLine, stations |-> {route.origin, route.destination}]
    IN  FoldLeft(step, start, route.segments).stations

\* Each stop with whether it is called a change, in the order they are passed;
\* those that the route does not list come last, in any order.
RecommendedRoute(route) ==
    LET stops == CHOOSE f \in SetToSeqs(CriticalRouteStations(route)) :
                    \A i, j \in DOMAIN f : i < j => PlaceOf(route, f[i]) <= PlaceOf(route, f[j])
    IN  IF Len(stops) <= 2 THEN <<<<route.origin, FALSE>>, <<route.destination, FALSE>>>>
        ELSE [i \in DOMAIN stops |-> <<stops[i], stops[i] \notin {route.origin, route.destination}>>]

\* Mutant: the running ones come first, as nowhere else.
PointElevatorsRunningFirst(c) ==
    IF c.details # {} THEN {d.status : d \in VisibleRunningFirst(c)} \cup {w \in {"more"} : Cardinality(c.details) > 3}
    ELSE {IF c.has = "FAILED" THEN "none known" ELSE "not confirmed"}

PointElevators(c) ==
    IF c.details # {} THEN {d.status : d \in VisibleDetails(c)} \cup {w \in {"more"} : VisibleDetails(c) # c.details}
    ELSE {IF c.has = "FAILED" THEN "none known" ELSE "not confirmed"}

\* The state of elevators that are not listed.
PointStatus(c) ==
    CASE c.state = "MIXED" -> "some restricted"
      [] c.state # "MIXED" /\ c.statusVerified = "CONFIRMED" -> c.status
      [] OTHER -> c.statusVerified

\* One point for each check, beside the row of the table.
KeyPoint(c) ==
    {<<"elevator", w>> : w \in PointElevators(c)}
        \cup {<<"line", c.lineMatch>> : l \in {c.line} \ {NoLine}}
        \cup {<<"status", PointStatus(c)>> : none \in {{}} \cap {c.details}}
        \cup {<<leg, c[leg]>> : leg \in {leg \in {"platform", "transfer", "exit"} : c[leg] # "NOT_APPLICABLE"}}
        \cup {<<"restroom", c.restroom>> : w \in {c.restroom} \ {"not asked"}}

\* Mutant: only what failed is listed.
UnverifiedPartsFailed(r) == {<<"failed", name>> : name \in r.failed}

\* The limitations that are listed as well are left out.
UnverifiedParts(r) ==
    {<<"failed", name>> : name \in r.failed}
        \cup {<<"outside coverage", m.name>> : m \in {m \in r.sources : m.unsupported}}
        \cup {<<"no success", m.name>> : m \in {m \in r.sources : ~m.unsupported /\ ~m.success}}
        \cup {<<"stale", m.name>> : m \in {m \in r.sources : ~m.unsupported /\ m.stale}}

-----------------------------------------------------------------------------
(* The answer to who asks for another way, which is judged by the level alone. *)

\* Mutant: only a call that failed cannot tell.
RouteVerdictByStatus(r) ==
    CASE r.status = "FAILED" -> "cannot tell"
      [] r.status # "FAILED" /\ r.level = "HIGH" -> "none to recommend"
      [] OTHER -> IF r.level = "CAUTION" THEN "with care" ELSE "another way"

RouteVerdict(r) ==
    CASE r.status = "FAILED" \/ r.level = "UNKNOWN" -> "cannot tell"
      [] r.status # "FAILED" /\ r.level = "HIGH" -> "none to recommend"
      [] OTHER -> IF r.level = "CAUTION" THEN "with care" ELSE "another way"

\* The code lists at most five stations.
RouteAlternative(r) ==
    [verdict |-> RouteVerdict(r),
     recommended |-> IF r.level \in {"HIGH", "UNKNOWN"} THEN {} ELSE r.selected,
     stations |-> {<<c.station, c.status>> : c \in r.checks},
     limited |-> r.failed # {}]

-----------------------------------------------------------------------------
(* Properties. *)

Said == Message(answer)
Cells(column) == UNION {{<<row.station, w>> : w \in row[column]} : row \in Said.table}
Reported(s, status) == \E e \in Operational(ElevatorsAt(facts, s)) : e.status = status
StatusFailed(s) == "elevator_status" \in facts[<<s, "elevators">>].failed

\* An elevator is said to run only at a station where the status source has one
\* that runs.  If that was read from an expired entry, the answer is that it
\* cannot be told, and the elevator sources are said to have failed.  The lead
\* names a station only if all its reported elevators run
\* (user_message_decision.py _operating_sentence, user_message_sources.py).
RunningIsKnown ==
    Judged =>
        /\ \A s \in Said.lead.running \cup {x[1] : x \in {x \in Cells("confirmed") : x[2] = "running"}} :
              /\ Reported(s, "AVAILABLE")
              /\ StatusFailed(s) => /\ Said.heading = "data not confirmed"
                                    /\ \E b \in Said.basis : b[1] = "elevators" /\ b[2] # "checked"
        /\ \A s \in Said.lead.running : \A status \in DOMAIN StatusRank \ {"AVAILABLE"} : ~Reported(s, status)

\* A restricted elevator of a station that counts is always in the table, however
\* many elevators are listed, and in a caution or a warning it is in the lead,
\* in the heading, and in a question to the station; another elevator is said
\* to run there only if one does (_select_elevator_details, _restricted_sentences).
RestrictionIsTold ==
    Judged =>
        \A c \in answer.checks : (\E status \in Restricting : Reported(c.station, status)) =>
            /\ \E x \in Cells("attention") : x[1] = c.station /\ x[2] \in Restricting
            /\ answer.judgement \in {"caution", "not recommended"} =>
                  /\ <<c.station, Reported(c.station, "AVAILABLE")>> \in Said.lead.restricted
                  /\ Said.heading \in {"avoid the elevator", "not recommended"}
                  /\ \E a \in Said.actions : c.station \in a.stations
                                           /\ a.ask \cap {"other elevators", "elevator or help"} # {}

\* Whoever needs elevators and is told to take care is given, for every station
\* with a gap in its evidence, a question to its office, unless all that is
\* open is the line and the line is not known (pre_departure_actions).
GapsAreAsked ==
    Judged /\ answer.judgement = "caution" /\ RequiresElevatorForMessage(Profile) =>
        \A c \in answer.checks : Unverified(c) =>
            \/ \E a \in Said.actions : c.station \in a.stations
            \/ c.line = NoLine /\ PathGaps(c) = {} /\ c.status # "UNKNOWN"

\* Every failure of the answered route is told where no cut can hide it, as the
\* notice of it may be hidden by the notes on the ends of the trip: the group of
\* the source shows that something failed, and a station that could not be
\* resolved, which is no source of any group, has in the table that its elevators
\* are not confirmed (data_basis, _missing_elevator_details, notices).
FailureIsTold ==
    Judged =>
        \A name \in answer.failed :
            \/ \E b \in Said.basis : b[2] \in {"failed", "checked, some failed"} /\ name \in SourceGroups[b[1]]
            \/ /\ name \notin UNION Range(SourceGroups)
               /\ \E s \in ElevatorCheckStations(TheRoute) :
                     /\ name \in facts[<<s, "elevators">>].failed
                     /\ <<s, "elevators not confirmed">> \in Cells("attention")

\* A caution says what to take care of, in the lead, the table or the sources,
\* or names a change, although the level, the table and the sources are told by
\* rules of their own; no cut of the notices matters.  Only a station whose line
\* is not known makes a caution without a word (risk_alignment.py,
\* build_accessibility_table).
CautionHasCause ==
    Judged /\ answer.judgement = "caution" =>
        \/ Said.lead # NoLead \/ Said.transfers
        \/ \E row \in Said.table : row.attention # {}
        \/ \E b \in Said.basis : b[2] # "checked"
        \/ \E c \in answer.checks : c.line = NoLine

\* The reasons of the summary, which name three locations of either kind, do
\* not contradict the lead and the table: where the lead or the table has something
\* running, the reasons name it or say that there is more, and where the lead has
\* something restricted, they name it, or more than three locations are restricted
\* (which they do not say).  The lead says that all runs only where no reason says
\* otherwise; what runs for the reasons is in the table, unless it is left out for
\* elevators of which nobody knows, and then the table says that there are more;
\* nothing runs in the table where the state is to be asked again; and where a
\* reason names a restriction the headline does not say that none is known, to
\* whoever cannot do without elevators (reasons, lead_points, headline).
SummaryAgrees ==
    Judged =>
        LET reasons == Reasons(answer)
            named(kind) == {x[2] : x \in {x \in reasons : x[1] = kind}}
            tabled == {x[1] : x \in {x \in Cells("confirmed") : x[2] = "running"}}
        IN  /\ named("more running") = {} => Said.lead.running \cup tabled \subseteq named("running")
            /\ \/ {x[1] : x \in Said.lead.restricted} \subseteq named("restricted")
               \/ Cardinality(RestrictedLocations(answer.checks)) > 3
            /\ Said.lead.running \cap (named("restricted") \cup named("status")) = {}
            /\ \A s \in named("running") \ tabled : {<<s, "more">>, <<s, "UNKNOWN">>} \subseteq Cells("attention")
            /\ tabled \cap named("status") = {}
            /\ Said.headline = "no restriction known" /\ RequiresElevator(Profile) => named("restricted") = {}

\* The way of the answer names the stations where one has to change, and no
\* others, as the checks do, which find them by code of their own; it begins at
\* the first station and ends at the last one (recommended_route,
\* critical_route_stations, elevator_check_stations).
WayAgrees ==
    Judged =>
        LET way == RecommendedRoute(TheRoute)
        IN  /\ way[1][1] = TheRoute.origin /\ way[Len(way)][1] = TheRoute.destination
            /\ {x[1] : x \in {x \in Range(way) : x[2]}} =
                  {c.station : c \in {c \in answer.checks : c.role = "transfer"}}
                      \ {TheRoute.origin, TheRoute.destination}
            /\ {x[1] : x \in Range(way)} = {c.station : c \in answer.checks}

\* The key points of the structured answer and the table of the text, made from
\* the checks by separate code, show the same elevators, legs and restrooms of
\* every station; only the table says in one entry that there are no elevators
\* (accessibility_check_points, build_accessibility_table).
PointsAgree ==
    Judged =>
        \A c \in answer.checks :
            LET point == KeyPoint(c)  confirmed == TableConfirmed(c)  attention == TableAttention(c)
            IN  /\ <<"elevator", "AVAILABLE">> \in point <=> "running" \in confirmed
                /\ \A w \in {"UNKNOWN", "more"} \cup Restricting : <<"elevator", w>> \in point <=> w \in attention
                /\ \A leg \in {"transfer", "exit"} :
                      /\ <<leg, "CONFIRMED">> \in point <=> leg \in confirmed
                      /\ leg \in attention => <<leg, "UNVERIFIED">> \in point
                /\ <<"restroom", "yes">> \in point <=> "restroom" \in confirmed
                /\ <<"restroom", "no">> \in point <=> attention \cap {"restroom", "restroom unsupported"} # {}
                /\ (\E w \in {"none known", "not confirmed"} : <<"elevator", w>> \in point)
                      <=> attention \cap {"elevators unsupported", "elevators not found", "elevators not confirmed"} # {}

\* What could not be verified is told to those who read the structured answer
\* where the text tells it: if a group of sources in the text has a failure or
\* is outside the coverage, one of its sources is among the unverified parts;
\* and if there are none of these the text has no such notice, and the
\* evidence of the answer is as sure as it can be (_build_unverified_parts).
UnverifiedIsListed ==
    Judged =>
        LET parts == UnverifiedParts(answer)
            named == {x[2] : x \in parts}
        IN  /\ \A b \in Said.basis : b[2] \in {"failed", "checked, some failed", "unsupported"} =>
                    SourceGroups[b[1]] \cap named # {}
            /\ <<"some data not confirmed", Nowhere>> \in Said.notices => parts # {}
            /\ \A s \in ElevatorCheckStations(TheRoute), q \in DOMAIN facts :
                    q[1] = s => \A m \in facts[q].sources : m.success \/ m.name \in named
            /\ answer.confidence = "HIGH" => parts = {}

\* Whoever asked for a wheelchair charger reads that it was not checked,
\* whatever the verdict is, unless the answer is that it cannot be told and a note
\* on an end of the trip takes the last place of the notices (charger_unchecked,
\* notices).
ChargerIsMentioned ==
    Judged /\ ChargerUnchecked(answer) =>
        \/ <<"charger", Nowhere>> \in Said.lead.unconfirmed \cup Said.notices
        \/ \E a \in Said.actions : a.ask = {"charger"}
        \/ /\ answer.judgement = "cannot tell"
           /\ \E n \in Said.notices : n[1] \in {"route code", "coverage limited"}

\* Whoever asks for another way is answered by a rule that does not know the
\* words of the trip: it recommends only what the trip does not warn of, it
\* recommends without care to whoever cannot do without elevators only if they
\* run at all stations it lists, and what then still made the trip cautious is said: that sources failed, or
\* were outside their coverage.  What the trip says with care for a gap in the
\* evidence, to a traveller with a stroller or a cane, is then said without
\* (build_route_alternative_message, requires_elevator_for_message).
AnotherWayAgrees ==
    phase = "answered" =>
        LET other == RouteAlternative(answer)
        IN  /\ other.recommended # {} <=> answer.judgement \in {"possible", "caution"}
            /\ other.verdict \in {"another way", "with care"} <=> other.recommended # {}
            /\ other.verdict = "another way" =>
                  /\ RequiresElevator(Profile) => \A x \in other.stations : x[2] = "AVAILABLE"
                  /\ answer.judgement = "caution" =>
                        \/ other.limited \/ answer.status = "PARTIAL"
                        \/ ~RequiresElevator(Profile) /\ \E c \in answer.checks : Unverified(c)

-----------------------------------------------------------------------------
(* What the runs check: each puts together what is said above of one subject. *)

\* The message tells of the elevators what the status source reported of them,
\* and tells it wherever it would be missed (user_message_decision.py).
ElevatorsAreTold == RunningIsKnown /\ RestrictionIsTold

\* What is not known is told to everyone, by the text and by the structured
\* answer: a gap in the evidence is asked about, a source that failed is named, a
\* charger nobody can look up is mentioned (user_message.py, evidence.py).
UnknownIsTold == GapsAreAsked /\ FailureIsTold /\ UnverifiedIsListed /\ ChargerIsMentioned

\* The parts of an answer do not contradict each other: reasons, lead, headline
\* and table; the way and the checks; the key points and the table; the trip and
\* the answer to who asks for another way (user_message_decision.py,
\* user_message_accessibility.py, alternative_message.py).
PartsAgree == SummaryAgrees /\ WayAgrees /\ PointsAgree /\ AnotherWayAgrees

\* The level, the score and the verdict agree, and what makes the verdict a
\* caution is said (risk_alignment.py, user_message_decision.py).
VerdictAgrees == LevelScoreWords /\ CautionHasCause

-----------------------------------------------------------------------------
(* What the comments and the messages themselves say, and the code does not do. *)

\* user_message_decision.py: a station is said to be restricted only if an
\* elevator there was confirmed to be repaired or out of use.
RestrictionIsReal ==
    Judged => \A x \in Said.lead.restricted : \E status \in Restricting : Reported(x[1], status)
=============================================================================
