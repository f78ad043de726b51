------------------------------ MODULE Questions ------------------------------
(***************************************************************************)
(* AccessibilityService.answer_accessibility_question: a question in words *)
(* is parsed, what is missing in it is asked for, and what is decided is   *)
(* looked up and answered: the facilities of a station, another facility   *)
(* there, or a trip (Trip), of which only the arguments are kept here.     *)
(* Nothing is stored between two questions: whoever is asked something     *)
(* asks the whole question again.                                          *)
(*                                                                         *)
(* A question is [spans, phrases].  A span is a piece of the text that     *)
(* names a station, a place, or a place over the name of a station:        *)
(* [station, line, place, longer], longer if the text of the place goes    *)
(* beyond the one of the station.  A phrase stands for the words that the  *)
(* parser treats alike.                                                    *)
(***************************************************************************)
EXTENDS FacilityQuestion

CONSTANTS
    NoStation, NoPlace,
    Candidates,   \* Candidates[p]: the <<station, line>> that place_aliases.yaml has for p
    Starts,       \* the <<question, scene>> a dialogue may begin with; a scene is [held, old,
                  \* ends], the records of the sources and of the cache at each station, and
                  \* how the lookup of each source may end
    OwnWords,     \* the <<station, line>>, or without a line, that a traveller names when asked
    Ageing        \* the sources whose cached answer may be more than five minutes old

\* The parser knows only the names of the registry, and only places with
\* candidates that are registered.
ASSUME RegisteredAssumption ==
    /\ IsFiniteSet(Line) /\ NoStation \notin Station /\ NoPlace \notin DOMAIN Candidates
    /\ \A s \in Station : RegistryLines[s] # {}
    /\ \A p \in DOMAIN Candidates : Candidates[p] \in Seq(Station \X Line)
    /\ OwnWords \subseteq Station \X (Line \cup {NoLine})

\* The status is kept for three minutes.  Both elevator sources cover the same
\* operators (source_coverage.yaml).
ASSUME SourcesAssumption ==
    /\ Ageing \subseteq {"elevator_info", "restroom"}
    /\ \A s \in Station, l \in Line : <<"elevator_status", s, l>> \in Uncovered <=> <<"elevator_info", s, l>> \in Uncovered

TextSpan ==
    {span \in [station : Station \cup {NoStation}, line : Line \cup {NoLine},
               place : DOMAIN Candidates \cup {NoPlace}, longer : BOOLEAN] :
        span.station # NoStation \/ span.place # NoPlace}

\* normalize_facilities keeps of each source the records of the type that was asked for.
SourceType == [elevator_status |-> Elevator, elevator_info |-> Elevator, restroom |-> AccessibleRestroom]

ASSUME StartAssumption ==
    \A start \in Starts :
        /\ start[1].spans \in Seq(TextSpan)
        /\ start[2].ends \in [FacilitySources -> SUBSET {"ok", "stale", "failed"}]
        /\ \A s \in Station : LET records == start[2].held[s] \cup start[2].old[s] IN
              /\ IsFiniteSet(records)
              /\ \A f \in records : /\ f.status \in FacilityStatus
                                    /\ f.source \in DOMAIN SourceType /\ f.type = SourceType[f.source]

VARIABLES
    question,  \* the question as it was last asked
    scene,     \* what the sources hold, and how lookups may end
    phase,     \* "asked", "unclear", "looking up", "travelling", "answered" or "raised"
    reads,     \* the results of the lookups by kind of facility
    aged,      \* the sources that were answered from an old entry of the cache
    answer,    \* the AccessibilityQuestionResult
    dialogue   \* what was asked back so far

vars == <<question, scene, phase, reads, aged, answer, dialogue>>

-----------------------------------------------------------------------------
(* The words. *)

AlternativeTerms == {"another", "detour", "fewer transfers", "current route"}
RouteSignals == {"detour", "fewer transfers", "no transfers", "current route", "at a transfer", "on the way"}
ElevatorWords == {"elevator", "elevator only"}
RestroomWords == {"restroom", "accessible restroom"}
FacilityWords == ElevatorWords \cup RestroomWords \cup {"broken"}
TravelWords == {"can I get to"}
MobilitySignals == {"wheelchair", "stroller", "cane", "no stairs", "no escalator", "elevator only",
                    "accessible restroom", "no transfers", "fewer transfers"}
KindWords == [broken |-> "STATUS", where |-> "LOCATION", exists |-> "EXISTENCE"]

Says(words) == question.phrases \cap words # {}

\* The first of the words decides what the traveller needs a restroom for.
RestroomNeed ==
    CASE Says({"at the destination"}) -> "DESTINATION"
      [] ~Says({"at the destination"}) /\ Says({"at the origin"}) -> "ORIGIN"
      [] ~Says({"at the destination", "at the origin"}) /\ Says({"at a transfer"}) -> "TRANSFER"
      [] OTHER -> IF Says({"on the way"}) THEN "ANY_ROUTE_STATION" ELSE "ALL_KEY_STATIONS"

SpokenProfile ==
    [wheelchair |-> Says({"wheelchair"}), stroller |-> Says({"stroller"}), cane_or_walker |-> Says({"cane"}),
     can_use_stairs |-> ~Says({"wheelchair", "stroller", "cane", "no stairs", "elevator only"}),
     can_use_escalator |-> ~Says({"wheelchair", "stroller", "no escalator", "elevator only"}),
     need_elevator_only |-> Says({"wheelchair", "no stairs", "no escalator", "elevator only"}),
     need_accessible_restroom |-> Says({"accessible restroom"}),
     need_wheelchair_charger |-> FALSE, avoid_many_transfers |-> TRUE,
     restroom |-> IF Says({"accessible restroom"}) THEN RestroomNeed ELSE "ALL_KEY_STATIONS",
     max_transfer_count |-> IF Says({"no transfers"}) THEN 0 ELSE IF Says({"fewer transfers"}) THEN 1 ELSE -1]

FacilityTypesAsked ==
    {t \in Range(FacilityTypes) : IF t = Elevator THEN Says(ElevatorWords) ELSE Says({"accessible restroom"})}

GenericRestroom == Says(RestroomWords) /\ AccessibleRestroom \notin FacilityTypesAsked

FacilityQuestionKind ==
    CASE Says({"broken"}) -> KindWords.broken
      [] ~Says({"broken"}) /\ Says({"where"}) -> KindWords.where
      [] OTHER -> IF Says({"exists"}) THEN KindWords.exists ELSE "OVERVIEW"

-----------------------------------------------------------------------------
(* The stations and places of the question. *)

\* A station or a place counts where it is named first.
StationSpans ==
    {i \in DOMAIN question.spans :
        /\ question.spans[i].station # NoStation
        /\ \A j \in 1 .. i - 1 : question.spans[j].station # question.spans[i].station}

PlaceSpans ==
    {i \in DOMAIN question.spans :
        /\ question.spans[i].place # NoPlace
        /\ \A j \in 1 .. i - 1 : question.spans[j].place # question.spans[i].place}

InOrder(numbers) ==
    CHOOSE f \in [1 .. Cardinality(numbers) -> numbers] : \A i, j \in DOMAIN f : i < j => f[i] < f[j]

NoQuery == <<>>

\* A place stands for its station if it has only one.
QueryOf(i) ==
    LET span == question.spans[i]
    IN  CASE i \in StationSpans -> <<span.station, span.line>>
          [] i \notin StationSpans /\ Len(Candidates[span.place]) = 1 -> Candidates[span.place][1]
          [] OTHER -> NoQuery

Mentions ==
    LET spans == InOrder(StationSpans \cup PlaceSpans)
    IN  [n \in DOMAIN spans |-> QueryOf(spans[n])]

\* The places that are not just a spelling of a station's name.
ContextPlaces ==
    InOrder({i \in PlaceSpans : i \in StationSpans => question.spans[i].longer})

-----------------------------------------------------------------------------
(* What is asked for. *)

Intent ==
    CASE Says(AlternativeTerms) -> "alternative_request"
      [] ~Says(AlternativeTerms) /\ Len(Mentions) >= 2 -> "trip_accessibility"
      [] ~Says(AlternativeTerms) /\ Len(Mentions) < 2 /\ Says(FacilityWords) -> "facility_status"
      [] OTHER -> IF Says(TravelWords) THEN "trip_accessibility" ELSE "unknown"

AlternativeKind ==
    CASE Intent # "alternative_request" -> "none"
      [] Intent = "alternative_request" /\ Says({"current route"}) -> "CURRENT_ROUTE"
      [] OTHER -> IF Len(Mentions) = 1 /\ Says(ElevatorWords \cup RestroomWords) /\ ~Says(RouteSignals)
                  THEN "STATION_FACILITY" ELSE "ROUTE"

\* Whoever asks for a way around an elevator is taken to need elevators.
ElevatorAlternative ==
    AlternativeKind = "ROUTE" /\ Elevator \in FacilityTypesAsked /\ ~Says(MobilitySignals)

MobilityProfile ==
    IF ~ElevatorAlternative THEN SpokenProfile
    ELSE [SpokenProfile EXCEPT !.can_use_stairs = FALSE, !.can_use_escalator = FALSE, !.need_elevator_only = TRUE]

\* Mutant: a traveller is known by what they need.
MobilityKnownByNeeds ==
    SpokenProfile.need_elevator_only \/ SpokenProfile.need_accessible_restroom \/ ElevatorAlternative

MobilityKnown == Says(MobilitySignals) \/ ElevatorAlternative

AboutStation == Intent = "facility_status" \/ AlternativeKind = "STATION_FACILITY"

Target == IF AboutStation /\ Len(Mentions) = 1 THEN Mentions[1] ELSE NoQuery

End(n) == IF Len(Mentions) = 2 THEN Mentions[n] ELSE NoQuery

\* The messages are those of a facility question also for a trip, if it names one.
IsFacilityQuestion ==
    IF AlternativeKind # "none" THEN AlternativeKind = "STATION_FACILITY"
    ELSE AboutStation \/ FacilityTypesAsked # {}

-----------------------------------------------------------------------------
(* What is not clear. *)

NeedsClarification(query) == ~Resolve(query[1], query[2]).matched
OutsideRegistry(query) == NeedsClarification(query) /\ RegistryLines[query[1]] = {}

ContextReason(queries) ==
    IF \E query \in queries : /\ NeedsClarification(query) /\ query[2] # NoLine
                              /\ RegistryLines[query[1]] # {}
    THEN "station_line_mismatch" ELSE "ambiguous_station"

\* Mutant: a station with several lines is taken as it is.
FacilityReasonUnresolved ==
    CASE FacilityTypesAsked = {} ->
            IF GenericRestroom THEN "accessible_restroom_confirmation" ELSE "missing_facility_type"
      [] FacilityTypesAsked # {} /\ Target = NoQuery -> "missing_facility_station"
      [] OTHER -> "none"

FacilityReason ==
    CASE FacilityTypesAsked = {} ->
            IF GenericRestroom THEN "accessible_restroom_confirmation" ELSE "missing_facility_type"
      [] FacilityTypesAsked # {} /\ Target = NoQuery -> "missing_facility_station"
      [] OTHER -> IF ~NeedsClarification(Target) THEN "none"
                  ELSE IF OutsideRegistry(Target) THEN "station_not_in_coverage" ELSE ContextReason({Target})

\* Only a trip looks for stations that are not registered.
EndsReason(missing) ==
    LET ends == {End(1), End(2)}
    IN  CASE NoQuery \in ends -> missing
          [] NoQuery \notin ends /\ ~MobilityKnown -> "missing_mobility_profile"
          [] OTHER -> IF ~\E query \in ends : NeedsClarification(query) THEN "none"
                      ELSE IF AlternativeKind = "none" /\ (\E query \in ends : OutsideRegistry(query))
                      THEN "station_not_in_coverage" ELSE ContextReason(ends)

ClarificationReason ==
    IF AboutStation THEN FacilityReason
    ELSE IF AlternativeKind = "CURRENT_ROUTE" THEN "current_route_context"
    ELSE IF AlternativeKind = "ROUTE" THEN EndsReason("missing_alternative_route")
    ELSE IF Intent = "trip_accessibility" THEN EndsReason("missing_station") ELSE "unsupported_intent"

-----------------------------------------------------------------------------
(* The one question that is asked back: [what, about]. *)

\* The first station that is not clear; a trip that names a facility has no
\* target, so that the line is asked for without a station.
UnclearStation ==
    LET queries == IF IsFacilityQuestion THEN <<Target>> ELSE <<End(1), End(2)>>
        unclear == {i \in DOMAIN queries : queries[i] # NoQuery /\ NeedsClarification(queries[i])}
    IN  IF unclear = {} THEN NoQuery ELSE queries[Min(unclear)]

FirstPlace == question.spans[Head(ContextPlaces)].place

\* Mutant: what is missing is asked before the place is decided.
ShownQuestionByReason ==
    [what |-> CASE ClarificationReason = "accessible_restroom_confirmation" -> "accessible restroom"
                [] ClarificationReason = "missing_facility_type" -> "facility"
                [] ClarificationReason = "missing_facility_station" -> "station"
                [] ClarificationReason = "missing_mobility_profile" -> "mobility"
                [] ClarificationReason \in {"ambiguous_station", "station_line_mismatch"} -> "line"
                [] OTHER -> "route",
     about |-> IF ClarificationReason \in {"ambiguous_station", "station_line_mismatch"} THEN UnclearStation ELSE NoQuery]

ShownQuestion ==
    LET unclear == ClarificationReason \in {"ambiguous_station", "station_line_mismatch"}
    IN  IF ContextPlaces # <<>> THEN [what |-> "place", about |-> FirstPlace]
        ELSE [what |-> CASE ClarificationReason = "accessible_restroom_confirmation" -> "accessible restroom"
                         [] ClarificationReason = "missing_facility_type" -> "facility"
                         [] ClarificationReason = "missing_facility_station" -> "station"
                         [] ClarificationReason = "missing_mobility_profile" -> "mobility"
                         [] ClarificationReason = "station_not_in_coverage" -> "registered station"
                         [] unclear -> "line"
                         [] OTHER -> "route",
              about |-> IF unclear THEN UnclearStation ELSE NoQuery]

FacilityReasonText ==
    CASE ClarificationReason = "accessible_restroom_confirmation" -> "which restroom"
      [] ClarificationReason = "ambiguous_station" -> "lines have their own facilities"
      [] OTHER -> IF ContextPlaces # <<>> THEN "place not decided"
                  ELSE IF ClarificationReason = "station_not_in_coverage" THEN "coverage" ELSE "none"

QuestionReasonText ==
    CASE ContextPlaces # <<>> -> "place not decided"
      [] ContextPlaces = <<>> /\ ClarificationReason = "missing_station" ->
            IF Range(Mentions) \ {NoQuery} # {} THEN "a station was not found" ELSE "none"
      [] OTHER -> CASE ClarificationReason = "unsupported_intent" -> "scope"
                    [] ClarificationReason = "current_route_context" -> "routes are not kept"
                    [] ClarificationReason = "missing_mobility_profile" -> "the way depends on it"
                    [] ClarificationReason = "station_not_in_coverage" -> "coverage"
                    [] OTHER -> "none"

Clarification ==
    [kind |-> "clarification", status |-> "NEEDS_CLARIFICATION", reason |-> ClarificationReason,
     question |-> ShownQuestion,
     because |-> IF IsFacilityQuestion THEN FacilityReasonText ELSE QuestionReasonText]

-----------------------------------------------------------------------------
(* The steps. *)

NoAnswer == [kind |-> "none"]

\* The context of the target, with the line of its one row if none was named.
TargetLine == Resolve(Target[1], Target[2]).line

Init ==
    /\ \E start \in Starts : question = start[1] /\ scene = start[2]
    /\ phase = "asked"
    /\ reads = <<>>
    /\ aged = {}
    /\ answer = NoAnswer
    /\ dialogue = {}

Clarify ==
    /\ phase = "asked"
    /\ ClarificationReason # "none"
    /\ answer' = Clarification
    /\ dialogue' = dialogue \cup {ShownQuestion}
    /\ phase' = "unclear"
    /\ UNCHANGED <<question, scene, reads, aged>>

\* Up to the first lookup nothing is awaited.
Begin ==
    /\ phase = "asked"
    /\ ClarificationReason = "none"
    /\ phase' = IF AboutStation THEN "looking up" ELSE "travelling"
    /\ UNCHANGED <<question, scene, reads, aged, answer, dialogue>>

\* Mutant: the other kind is looked up too.
ToLookUpAll == Range(FacilityTypes) \ DOMAIN reads

ToLookUp == FacilityTypesAsked \ DOMAIN reads

\* One kind of facility after the other.
LookUp(t) ==
    /\ phase = "looking up"
    /\ t \in ToLookUp
    /\ t = AccessibleRestroom => Elevator \notin ToLookUp
    /\ \E outcome \in Endings(KindOf[t], scene.ends) :
          /\ reads' = [k \in DOMAIN reads \cup {t} |->
                          IF k \in DOMAIN reads THEN reads[k]
                          ELSE Query(Target[1], TargetLine, KindOf[t], outcome,
                                     scene.held[Target[1]], scene.old[Target[1]])]
          /\ \E old \in SUBSET (Ageing \cap {name \in DOMAIN outcome : outcome[name] = "ok"}) :
                aged' = aged \cup old
    /\ UNCHANGED <<question, scene, phase, answer, dialogue>>

AnswerFacilities ==
    /\ phase = "looking up"
    /\ ToLookUp = {}
    /\ LET result == FacilityResult(reads)
       IN  answer' = [kind |-> IF Intent = "facility_status" THEN "facilities" ELSE "alternatives",
                      status |-> result.status, result |-> result, about |-> FacilityQuestionKind,
                      message |-> IF Intent = "facility_status" THEN FacilityMessage(result, aged)
                                                                ELSE AlternativeMessage(result)]
    /\ phase' = "answered"
    /\ UNCHANGED <<question, scene, reads, aged, dialogue>>

\* The answer of the trip is passed on as it is, or as an alternative route.
AnswerTrip ==
    /\ phase = "travelling"
    /\ answer' = [kind |-> IF AlternativeKind = "none" THEN "trip" ELSE "alternative route",
                  from |-> End(1), to |-> End(2), profile |-> MobilityProfile]
    /\ phase' = "answered"
    /\ UNCHANGED <<question, scene, reads, aged, dialogue>>

\* Only a PublicApiError becomes a result; anything else ends the call.
LookupRaises ==
    /\ phase = "travelling" \/ (phase = "looking up" /\ ToLookUp # {})
    /\ phase' = "raised"
    /\ UNCHANGED <<question, scene, reads, aged, answer, dialogue>>

-----------------------------------------------------------------------------
(* The traveller asks again, with what they were asked for. *)

Named(query) == [station |-> query[1], line |-> query[2], place |-> NoPlace, longer |-> FALSE]

\* The spans that the answer to a question about a line is about, all that are
\* not clear if it names no station; and the lines they may be answered with.
Unclear(query) ==
    {i \in StationSpans : LET named == QueryOf(i)
                          IN  NeedsClarification(named) /\ query \in {named, NoQuery}}

LinesFor(spans) ==
    {lines \in [spans -> Line] : \A i \in spans : lines[i] \in RegistryLines[question.spans[i].station]}

Replies(asked) ==
    LET with(spans, words) == [spans |-> spans, phrases |-> words]
        again(words) == with(question.spans, words)
    IN  CASE asked.what = "place" ->
                {with([i \in DOMAIN question.spans |->
                         IF question.spans[i].place = asked.about THEN Named(c) ELSE question.spans[i]],
                      question.phrases) : c \in Range(Candidates[asked.about])}
          [] asked.what = "line" ->
                {with([i \in DOMAIN question.spans |->
                         IF i \in DOMAIN lines THEN [question.spans[i] EXCEPT !.line = lines[i]] ELSE question.spans[i]],
                      question.phrases) : lines \in LinesFor(Unclear(asked.about))}
          [] asked.what = "station" -> {with(<<Named(query)>>, question.phrases) : query \in OwnWords}
          [] asked.what = "route" ->
                {with(<<Named(ends[1]), Named(ends[2])>>, question.phrases \ {"current route"}) :
                    ends \in {e \in OwnWords \X OwnWords : e[1][1] # e[2][1]}}
          [] asked.what = "mobility" -> {again(question.phrases \cup {word}) : word \in {"wheelchair", "cane"}}
          [] asked.what = "facility" ->
                {again(question.phrases \cup {word}) : word \in {"elevator", "accessible restroom"}}
          [] OTHER -> {again((question.phrases \ {"restroom"}) \cup {"accessible restroom"})}

AskAgain ==
    /\ phase = "unclear"
    /\ question' \in Replies(answer.question)
    /\ phase' = "asked"
    /\ answer' = NoAnswer
    /\ UNCHANGED <<scene, reads, aged, dialogue>>

\* The end of a dialogue.
Done ==
    /\ phase \in {"answered", "raised"}
    /\ UNCHANGED vars

Next ==
    \/ Clarify
    \/ Begin
    \/ \E t \in Range(FacilityTypes) : LookUp(t)
    \/ AnswerFacilities
    \/ AnswerTrip
    \/ LookupRaises
    \/ AskAgain
    \/ Done

Spec == Init /\ [][Next]_vars

-----------------------------------------------------------------------------
(* Properties. *)

TypeOK ==
    /\ scene.ends \in [FacilitySources -> SUBSET {"ok", "stale", "failed"}]
    /\ question.spans \in Seq(TextSpan)
    /\ phase \in {"asked", "unclear", "looking up", "travelling", "answered", "raised"}
    /\ DOMAIN reads \subseteq FacilityTypesAsked
    /\ aged \subseteq Ageing
    /\ answer.kind \in {"none", "clarification", "facilities", "alternatives", "trip", "alternative route"}

\* Nothing is looked up before it is decided what for: the asserts behind the
\* clarification hold, the station has one line, of which alone the facilities
\* are read, and a trip has two ends and a traveller
\* (question_clarification.py, _resolved_facility_context).
LookedUpIsDecided ==
    /\ phase = "looking up" =>
          /\ Target # NoQuery /\ FacilityTypesAsked # {}
          /\ TargetLine \in RegistryLines[Target[1]]
          /\ \A t \in DOMAIN reads : \A f \in reads[t].value : f.line \in {NoLine, TargetLine}
    /\ phase = "travelling" =>
          /\ MobilityKnown
          /\ \A n \in {1, 2} : End(n) # NoQuery /\ Resolve(End(n)[1], End(n)[2]).line \in RegistryLines[End(n)[1]]

\* What is asked for, other than a place, is something that the question does
\* not say or that does not fit, whatever the order of the tests and of the
\* questions is (_question_clarification_questions).
QuestionIsOpen ==
    phase = "unclear" =>
        CASE answer.question.what = "mobility" -> ~Says(MobilitySignals)
          [] answer.question.what = "facility" -> ~Says(ElevatorWords \cup RestroomWords)
          [] answer.question.what = "accessible restroom" ->
                Says({"restroom"}) /\ ~Says({"accessible restroom"} \cup ElevatorWords)
          [] answer.question.what = "station" -> question.spans = <<>>
          [] answer.question.what = "line" ->
                \E i \in DOMAIN question.spans : LET span == question.spans[i] IN
                    span.station # NoStation /\ IF span.line = NoLine THEN Cardinality(RegistryLines[span.station]) > 1
                                               ELSE span.line \notin RegistryLines[span.station]
          [] answer.question.what = "route" -> Len(Mentions) = 2 => Says({"current route"})
          [] OTHER -> TRUE

\* What a question lacks is asked for, and what it says is not: behind the
\* clarification all is decided, and it asks for nothing that was
\* (question_clarification.py).
AskedOrDecided == LookedUpIsDecided /\ QuestionIsOpen

\* A traveller who gives what was asked for is not asked for it again, although
\* every question is parsed from nothing: what is added to it does not turn it
\* into another kind of question that lacks the same thing (question_parser.py).
AskedOnce == [][phase = "asked" /\ phase' = "unclear" => answer'.question \notin dialogue]_vars

Trouble == {"some restricted", "under repair", "out of use"}
Praise == {"all run", "the known ones run", "can be used"}
Said == answer.message
Result == answer.result

\* A facility that is reported not to work is in the title, unless nothing could be
\* looked up freshly, and in the table, unless the table is cut, whatever the
\* other facilities are like (_title, _display_facilities).
TroubleIsTold ==
    answer.kind = "facilities" /\ Result.status # "FAILED" =>
        \A t \in DOMAIN reads : \A f \in reads[t].value : DisplayStatus(f) \in Blocked =>
            /\ Said.title[1] \in Trouble
            /\ Row(f) \in Said.table.rows \/ Said.table.omitted > 0

\* The facilities are said to run or to be usable only if every kind that was
\* asked for has one that was reported so, and none was reported otherwise;
\* "all run" only if none in the table is unreported (_title).
AllRunIsKnown ==
    answer.kind = "facilities" /\ Said.title[1] \in Praise =>
        /\ \A t \in DOMAIN reads :
              LET seen == {DisplayStatus(f) : f \in reads[t].value}
              IN  "AVAILABLE" \in seen /\ seen \subseteq {"AVAILABLE", "UNREPORTED"}
        /\ Said.title[1] = "all run" => \A row \in Said.table.rows : row.status = "AVAILABLE"

\* The answer tells of the facilities what was reported of them, in the title and
\* in the table (facility_message.py).
StatesAreTold == TroubleIsTold /\ AllRunIsKnown

\* The status of the response and those of the lookups, which the other tools
\* return, are found by rules of their own: SUCCESS needs all lookups to have
\* succeeded, FAILED that none has, and what is not SUCCESS is explained
\* (facility_question.py, lookup_result.py).
StatusIsExplained ==
    answer.kind \in {"facilities", "alternatives"} =>
        LET classes == {LookupClass(reads[t])[1] : t \in DOMAIN reads}
        IN  /\ Result.status = "SUCCESS" => classes = {"SUCCESS"}
            /\ Result.status = "FAILED" => "SUCCESS" \notin classes
            /\ Result.status # "SUCCESS" => UnverifiedParts(Result) # {}

\* One time is shown for the whole answer only if every source gave it, and
\* none but the plans of the elevators was older than it by more than five
\* minutes (_checked_at_lines).
OneTimeIsTrue ==
    answer.kind = "facilities" /\ Said.times = {} =>
        /\ \A t \in DOMAIN reads : reads[t].failed = {} /\ \A m \in reads[t].sources : m.success
        /\ DOMAIN reads = Range(FacilityTypes) => "restroom" \notin aged

\* What the answer says of its sources, its status and its time, is so of all of
\* them (facility_question.py, facility_message.py).
SourcesAreTold == StatusIsExplained /\ OneTimeIsTrue

\* The verdict for who wants another facility and the title for who asks for the
\* facilities of the same station are found by rules of their own and do not
\* contradict each other, except for a kind of which the state of one is not
\* known, or is known of an old installation record only, or if no facility that is
\* reported has a place to be named by (alternative_message.py, facility_message.py).
AlternativeAgrees ==
    answer.kind = "alternatives" =>
        LET title == Title(Result)[1]
        IN  /\ Said.verdict = "nothing is broken" => title \notin {"under repair", "out of use"}
            /\ Said.verdict \in {"nothing is broken", "others can be used"} =>
                  \E f \in AllFacilities(Result) : f \in Said.offered /\ f.status = "AVAILABLE" /\ f.place # NoText
            /\ title \in Trouble => \/ Said.verdict # "nothing is broken"
                                     \/ \E f \in AllFacilities(Result) : f.status = "UNKNOWN"
            /\ title \in Praise => \/ Said.verdict = "nothing is broken"
                                   \/ \A f \in AllFacilities(Result) : DisplayStatus(f) # "UNREPORTED" => f.place = NoText
                                   \/ \E f \in BlockedAt(Result) : DisplayStatus(f) = "UNREPORTED"

-----------------------------------------------------------------------------
(* What the messages themselves say, and the code does not do. *)

\* alternative_message.py: a facility whose state is not confirmed is not offered
\* as another one to use.
AlternativeRuns ==
    answer.kind = "alternatives" => \A f \in Said.offered : DisplayStatus(f) # "UNREPORTED"
=============================================================================
