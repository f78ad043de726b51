----------------------------- MODULE MCQuestions -----------------------------
(* Instances of Questions for TLC: a station of one line, one of two, and    *)
(* one of another operator.                                                  *)
EXTENDS Questions

Registry == [s \in Station |-> CASE s = "a" -> {"1"} [] s \in {"b", "d"} -> {"1", "2"} [] OTHER -> {"9"}]
OtherOperator == FacilitySources \X {"c"} \X {"9"}
Own == {<<"a", NoLine>>, <<"b", NoLine>>, <<"b", "2">>, <<"c", NoLine>>}
Places == [square |-> <<<<"a", "1">>>>, junction |-> <<<<"b", "1">>, <<"b", "2">>>>,
           hall |-> <<<<"a", "1">>, <<"c", "9">>>>]

Span(station, line, place, longer) == [station |-> station, line |-> line, place |-> place, longer |-> longer]
Name(station, line) == Span(station, line, NoPlace, FALSE)
At(place) == Span(NoStation, NoLine, place, FALSE)
Ask(spans, phrases) == [spans |-> spans, phrases |-> phrases]

\* A station of one line, one of two without a line, with one and with a wrong
\* one, another operator's; a place, and a place over the name of a station.
Spans == {Name("a", NoLine), Name("b", NoLine), Name("b", "2"), Name("b", "9"), Name("c", NoLine), Name("d", NoLine),
          At("square"), At("junction"), At("hall"),
          Span("b", "1", "junction", TRUE), Span("b", NoLine, "junction", FALSE)}
Phrases == AlternativeTerms \cup RouteSignals \cup FacilityWords \cup TravelWords \cup MobilitySignals
              \cup {"where", "exists", "at the destination", "at the origin"}

UpTo(n) == UNION {[1 .. k -> Spans] : k \in 0 .. n}
WordsUpTo(n) == UNION {kSubset(k, Phrases) : k \in 0 .. n}
Dialogues == {Ask(s, w) : s \in UpTo(1), w \in WordsUpTo(2)} \cup {Ask(s, w) : s \in UpTo(2), w \in WordsUpTo(1)}
Direct == {Ask(<<Name(s, NoLine)>>, t \cup w) :
              s \in {"a", "c"}, w \in {{"where"}, {"exists", "another"}},
              t \in SUBSET {"elevator", "accessible restroom"} \ {{}}}

Facility(type, source, status, line, place, name) ==
    [type |-> type, source |-> source, status |-> status, line |-> line, place |-> place, name |-> name]
Lift(status, place) == {Facility(Elevator, "elevator_status", status, l, place, "lift") : l \in Line}
\* The status of an installation record is what it was at some time.
PlanOf(status, place) == {Facility(Elevator, "elevator_info", status, l, place, "lift") : l \in Line}
Plan(place) == PlanOf("AVAILABLE", place)
Toilet(status, place) == {Facility(AccessibleRestroom, "restroom", status, NoLine, place, NoText)}

\* All run and are planned; a second one is planned only; one is repaired; one
\* runs and one does not; of one nobody knows; only plans; plans that say
\* otherwise; more than the table shows; places are missing, of all or of those
\* that are reported; nothing.
Lifts == {Lift("AVAILABLE", "exit 1") \cup Plan("exit 1"),
          Lift("AVAILABLE", "exit 1") \cup Plan("exit 2"),
          Lift("MAINTENANCE", "exit 1") \cup Plan("exit 1"),
          Lift("AVAILABLE", "exit 1") \cup Lift("UNAVAILABLE", "exit 2"),
          Lift("AVAILABLE", "exit 1") \cup Lift("UNKNOWN", "exit 2"),
          Plan("exit 1"),
          Lift("AVAILABLE", "exit 1") \cup PlanOf("MAINTENANCE", "exit 1") \cup PlanOf("UNKNOWN", "exit 2"),
          Lift("AVAILABLE", "exit 1") \cup Lift("MAINTENANCE", "exit 2") \cup Lift("AVAILABLE", "exit 3")
              \cup Plan("exit 4"),
          Lift("AVAILABLE", NoText) \cup Plan(NoText),
          Lift("AVAILABLE", NoText) \cup PlanOf("UNKNOWN", "exit 1"),
          {}}
Toilets == {{}, Toilet("AVAILABLE", "inside"), Toilet("UNAVAILABLE", NoText),
            Toilet("AVAILABLE", "inside") \cup Toilet("UNKNOWN", "outside")}

Scene(lifts, toilets, ends) ==
    [held |-> [s \in Station |-> lifts \cup toilets],
     old |-> [s \in Station |-> Lift("AVAILABLE", "exit 1") \cup Toilet("AVAILABLE", "inside")],
     ends |-> [n \in FacilitySources |-> ends]]
Quiet == Scene(Lift("AVAILABLE", "exit 1"), Toilet("AVAILABLE", "inside"), {"ok"})
StartsHere == {<<q, Quiet>> : q \in Dialogues}
                 \cup {<<q, Scene(l, t, {"ok", "stale", "failed"})>> : q \in Direct, l \in Lifts, t \in Toilets}
=============================================================================
