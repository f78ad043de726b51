--------------------------- MODULE QuestionsProofs ---------------------------
(***************************************************************************)
(* Proofs about Questions.                                                 *)
(*                                                                         *)
(* IInv says what each phase rests on: a question that is unclear is       *)
(* answered by its clarification, one that is looked up or travelled for   *)
(* has none, every result is what its query returns for the station of the *)
(* question, and an answer about a station is made of all of them.  The    *)
(* properties of the questions that are asked back then follow from the    *)
(* rules that find them, those of the answers from the rules of            *)
(* FacilityQuestion and Lookups.  DialogueInv says of a dialogue that what *)
(* was asked in it is settled: said, and kept by every later reply.        *)
(***************************************************************************)
EXTENDS Questions, LookupsProofs, FiniteSetTheorems, SequenceTheorems

-----------------------------------------------------------------------------
(* The order of the spans. *)

Increasing(f, S) ==
    f \in [1 .. Cardinality(S) -> S] /\ \A i, j \in DOMAIN f : i < j => f[i] < f[j]

\* A finite set of numbers can be listed in their order.
LEMMA OrderExists ==
    ASSUME NEW S, IsFiniteSet(S), S \subseteq Nat
    PROVE  \E f : Increasing(f, S)
<1> DEFINE T == {n \in Nat : \A s \in SUBSET S : Cardinality(s) = n => \E f : Increasing(f, s)}
<1>1. \A s \in SUBSET S : IsFiniteSet(s) /\ Cardinality(s) \in Nat BY FS_Subset, FS_CardinalityType
<1>2. 0 \in T
  <2>1. SUFFICES ASSUME NEW s \in SUBSET S, Cardinality(s) = 0 PROVE \E f : Increasing(f, s) OBVIOUS
  <2>2. [i \in 1 .. 0 |-> 0] \in [1 .. Cardinality(s) -> s] BY <2>1
  <2>3. Increasing([i \in 1 .. 0 |-> 0], s) BY <2>2 DEF Increasing
  <2> QED BY <2>3
<1>3. ASSUME NEW m \in Nat, m \in T PROVE m + 1 \in T
  <2>1. SUFFICES ASSUME NEW s \in SUBSET S, Cardinality(s) = m + 1 PROVE \E f : Increasing(f, s) OBVIOUS
  <2>2. s # {} BY <2>1, FS_EmptySet
  <2>3. PICK x \in s : \A y \in s : x <= y BY <2>2, NatMin
  <2>4. Cardinality(s \ {x}) = m
    <3>1. IsFiniteSet(s) BY <1>1
    <3>2. Cardinality(s \ {x}) = Cardinality(s) - 1 BY <2>3, <3>1, FS_RemoveElement
    <3> QED BY <2>1, <3>2
  <2>5. PICK g : Increasing(g, s \ {x}) BY <1>3, <2>4
  <2> DEFINE f == [i \in 1 .. m + 1 |-> IF i = 1 THEN x ELSE g[i - 1]]
  <2>6. g \in [1 .. m -> s \ {x}] /\ \A i, j \in 1 .. m : i < j => g[i] < g[j]
    BY <2>4, <2>5 DEF Increasing
  <2>7. \A i \in 1 .. m + 1 : i # 1 => i - 1 \in 1 .. m /\ f[i] = g[i - 1] /\ x < f[i]
    <3>1. SUFFICES ASSUME NEW i \in 1 .. m + 1, i # 1 PROVE i - 1 \in 1 .. m /\ f[i] = g[i - 1] /\ x < f[i] OBVIOUS
    <3>2. i - 1 \in 1 .. m BY <3>1
    <3>3. g[i - 1] \in s \ {x} BY <2>6, <3>2
    <3>4. x <= g[i - 1] /\ x # g[i - 1] /\ x \in Nat /\ g[i - 1] \in Nat BY <2>3, <3>3
    <3> QED BY <3>1, <3>2, <3>4
  <2>8. f[1] = x OBVIOUS
  <2>9. f \in [1 .. Cardinality(s) -> s]
    <3>1. \A i \in 1 .. m + 1 : f[i] \in s BY <2>6, <2>7, <2>8
    <3> QED BY <2>1, <3>1
  <2>10. ASSUME NEW i \in 1 .. m + 1, NEW j \in 1 .. m + 1, i < j PROVE f[i] < f[j]
    <3>1. j # 1 BY <2>10
    <3>2. CASE i = 1 BY <2>7, <2>8, <3>1, <3>2
    <3>3. CASE i # 1
      <4>1. i - 1 \in 1 .. m /\ j - 1 \in 1 .. m /\ i - 1 < j - 1 BY <2>10, <3>1, <3>3
      <4> QED BY <2>6, <2>7, <3>1, <3>3, <4>1
    <3> QED BY <3>2, <3>3
  <2> HIDE DEF f
  <2>11. Increasing(f, s) BY <2>1, <2>9, <2>10 DEF Increasing
  <2> QED BY <2>11
<1> HIDE DEF T
<1>4. \A n \in Nat : n \in T
  <2>1. SUFFICES ASSUME NEW n \in Nat PROVE n \in T OBVIOUS
  <2>2. 0 .. n \subseteq T BY <1>2, <1>3, UpTo
  <2> QED BY <2>2
<1> QED BY <1>1, <1>4 DEF T

\* What InOrder lists is the whole set.
LEMMA InOrderIs ==
    ASSUME NEW S, IsFiniteSet(S), S \subseteq Nat
    PROVE  /\ InOrder(S) \in [1 .. Cardinality(S) -> S]
           /\ \A x \in S : \E n \in 1 .. Cardinality(S) : InOrder(S)[n] = x
<1> DEFINE f == InOrder(S)
           D == 1 .. Cardinality(S)
<1>1. Increasing(f, S)
  <2>1. \E g \in [1 .. Cardinality(S) -> S] : \A i, j \in DOMAIN g : i < j => g[i] < g[j]
    BY OrderExists DEF Increasing
  <2> QED BY <2>1 DEF InOrder, Increasing
<1> HIDE DEF f
<1>2. Cardinality(S) \in Nat BY FS_CardinalityType
<1>3. f \in Injection(D, S)
  <2>1. \A i, j \in D : f[i] = f[j] => i = j
    <3>1. SUFFICES ASSUME NEW i \in D, NEW j \in D, f[i] = f[j], i # j PROVE FALSE OBVIOUS
    <3>2. f[i] \in Nat /\ f[j] \in Nat BY <1>1 DEF Increasing
    <3>3. i < j \/ j < i BY <1>2, <3>1
    <3> QED BY <1>1, <3>1, <3>2, <3>3 DEF Increasing
  <2> QED BY <1>1, <2>1 DEF Increasing, Injection, IsInjective
<1>4. Cardinality(D) = Cardinality(S) /\ IsFiniteSet(D) BY <1>2, FS_Interval
<1>5. f \in Surjection(D, S) BY <1>3, <1>4, FS_Injection
<1> QED BY <1>1, <1>5 DEF Increasing, Surjection, f

-----------------------------------------------------------------------------
(* The stations and places of a question. *)

Spans == StationSpans \cup PlaceSpans
StationQuery == Station \X (Line \cup {NoLine})

\* The spans that count are pieces of the text.
LEMMA SpansAre ==
    ASSUME question.spans \in Seq(TextSpan)
    PROVE  /\ Spans \subseteq 1 .. Len(question.spans) /\ Spans \subseteq Nat /\ IsFiniteSet(Spans)
           /\ \A i \in Spans : question.spans[i] \in TextSpan
           /\ question.spans # <<>> => Spans # {}
<1>1. Len(question.spans) \in Nat /\ DOMAIN question.spans = 1 .. Len(question.spans) OBVIOUS
<1>2. Spans \subseteq 1 .. Len(question.spans) BY <1>1 DEF Spans, StationSpans, PlaceSpans
<1>3. IsFiniteSet(1 .. Len(question.spans)) BY <1>1, FS_Interval
<1>4. IsFiniteSet(Spans) BY <1>2, <1>3, FS_Subset
<1>5. ASSUME question.spans # <<>> PROVE Spans # {}
  <2>1. 1 \in DOMAIN question.spans /\ question.spans[1] \in TextSpan BY <1>5
  <2>2. question.spans[1].station # NoStation \/ question.spans[1].place # NoPlace BY <2>1 DEF TextSpan
  <2>3. 1 \in Spans BY <2>1, <2>2 DEF Spans, StationSpans, PlaceSpans
  <2> QED BY <2>3
<1> QED BY <1>1, <1>2, <1>4, <1>5

\* What a span is looked up by: a station of the registry, or nothing.
LEMMA QueryIs ==
    ASSUME question.spans \in Seq(TextSpan), NEW i \in Spans
    PROVE  /\ QueryOf(i) \in StationQuery \cup {NoQuery}
           /\ i \in StationSpans => QueryOf(i) = <<question.spans[i].station, question.spans[i].line>>
                                    /\ QueryOf(i) \in StationQuery
<1> DEFINE span == question.spans[i]
<1>1. span \in TextSpan BY SpansAre
<1>2. CASE i \in StationSpans
  <2>1. span.station # NoStation BY <1>2 DEF StationSpans
  <2>2. span.station \in Station /\ span.line \in Line \cup {NoLine} BY <1>1, <2>1 DEF TextSpan
  <2>3. QueryOf(i) = <<span.station, span.line>> BY <1>2 DEF QueryOf
  <2> QED BY <2>2, <2>3 DEF StationQuery
<1>3. CASE i \notin StationSpans
  <2>1. span.place \in DOMAIN Candidates
    <3>1. span.place # NoPlace BY <1>3 DEF Spans, PlaceSpans
    <3> QED BY <1>1, <3>1 DEF TextSpan
  <2>2. Candidates[span.place] \in Seq(Station \X Line) BY <2>1, RegisteredAssumption
  <2>3. Len(Candidates[span.place]) = 1 => Candidates[span.place][1] \in Station \X Line BY <2>2
  <2>4. QueryOf(i) = IF Len(Candidates[span.place]) = 1 THEN Candidates[span.place][1] ELSE NoQuery
    BY <1>3 DEF QueryOf
  <2> QED BY <1>3, <2>3, <2>4 DEF StationQuery
<1> QED BY <1>2, <1>3

\* The mentions are what the spans are looked up by, one for each of them.
LEMMA MentionsAre ==
    ASSUME question.spans \in Seq(TextSpan)
    PROVE  /\ Len(Mentions) = Cardinality(Spans) /\ Len(Mentions) \in Nat
           /\ \A n \in 1 .. Len(Mentions) : \E i \in Spans : Mentions[n] = QueryOf(i)
           /\ \A n \in 1 .. Len(Mentions) : Mentions[n] \in StationQuery \cup {NoQuery}
<1> DEFINE order == InOrder(Spans)
           D == 1 .. Cardinality(Spans)
<1>1. Cardinality(Spans) \in Nat BY SpansAre, FS_CardinalityType
<1>2. order \in [D -> Spans] BY SpansAre, InOrderIs
<1>3. Mentions = [n \in D |-> QueryOf(order[n])] BY <1>2 DEF Mentions, Spans
<1>4. ASSUME NEW n \in D PROVE order[n] \in Spans /\ QueryOf(order[n]) \in StationQuery \cup {NoQuery}
  BY <1>2, QueryIs
<1> HIDE DEF order
<1>5. Len(Mentions) = Cardinality(Spans) BY <1>1, <1>3
<1> QED BY <1>1, <1>3, <1>4, <1>5

\* The places that are asked about are spans with a place.
LEMMA PlacesAre ==
    ASSUME question.spans \in Seq(TextSpan)
    PROVE  /\ ContextPlaces # <<>> => /\ FirstPlace \in DOMAIN Candidates
                                      /\ \E i \in DOMAIN question.spans : question.spans[i].place = FirstPlace
           /\ ContextPlaces = <<>> => PlaceSpans \subseteq StationSpans
<1> DEFINE S == {i \in PlaceSpans : i \in StationSpans => question.spans[i].longer}
<1>1. S \subseteq Spans BY DEF Spans
<1>2. IsFiniteSet(S) /\ S \subseteq Nat BY <1>1, SpansAre, FS_Subset
<1>3. Cardinality(S) \in Nat BY <1>2, FS_CardinalityType
<1>4. ContextPlaces = InOrder(S) BY DEF ContextPlaces
<1>5. /\ ContextPlaces \in [1 .. Cardinality(S) -> S]
      /\ \A x \in S : \E n \in 1 .. Cardinality(S) : ContextPlaces[n] = x
  BY <1>2, <1>4, InOrderIs
<1>6. ASSUME ContextPlaces # <<>>
      PROVE  /\ FirstPlace \in DOMAIN Candidates
             /\ \E i \in DOMAIN question.spans : question.spans[i].place = FirstPlace
  <2>1. Cardinality(S) # 0 BY <1>5, <1>6
  <2>2. ContextPlaces[1] \in S /\ Head(ContextPlaces) = ContextPlaces[1] BY <1>3, <1>5, <2>1
  <2>3. question.spans[ContextPlaces[1]].place # NoPlace BY <2>2 DEF PlaceSpans
  <2>4. question.spans[ContextPlaces[1]] \in TextSpan BY <1>1, <2>2, SpansAre
  <2>5. ContextPlaces[1] \in DOMAIN question.spans BY <2>2 DEF PlaceSpans
  <2> QED BY <2>2, <2>3, <2>4, <2>5 DEF TextSpan, FirstPlace
<1>7. ASSUME ContextPlaces = <<>> PROVE PlaceSpans \subseteq StationSpans
  <2>1. S = {}
    <3>1. DOMAIN ContextPlaces = 1 .. Cardinality(S) BY <1>5
    <3>2. 1 .. Cardinality(S) = {} BY <1>7, <3>1
    <3> QED BY <1>5, <3>2
  <2> QED BY <2>1
<1> QED BY <1>6, <1>7

-----------------------------------------------------------------------------
(* The invariant. *)

SpansInv == question.spans \in Seq(TextSpan) /\ \E start \in Starts : scene = start[2]

Returned(t, outcome) ==
    Query(Target[1], TargetLine, KindOf[t], outcome, scene.held[Target[1]], scene.old[Target[1]])

ReadsInv ==
    /\ DOMAIN reads \subseteq FacilityTypesAsked
    /\ DOMAIN reads # {} => AboutStation /\ ClarificationReason = "none"
    /\ \A t \in DOMAIN reads : \E outcome \in Endings(KindOf[t], scene.ends) : reads[t] = Returned(t, outcome)
    /\ aged \subseteq Ageing

\* The answer that is made of the results of the lookups.
StationAnswer ==
    LET result == FacilityResult(reads)
    IN  [kind |-> IF Intent = "facility_status" THEN "facilities" ELSE "alternatives",
         status |-> result.status, result |-> result, about |-> FacilityQuestionKind,
         message |-> IF Intent = "facility_status" THEN FacilityMessage(result, aged)
                                                   ELSE AlternativeMessage(result)]

PhaseInv ==
    /\ phase \in {"asked", "unclear", "looking up", "travelling", "answered", "raised"}
    /\ phase \in {"asked", "unclear"} => reads = <<>>
    /\ phase \notin {"asked", "unclear"} => ClarificationReason = "none"
    /\ phase = "unclear" => ClarificationReason # "none" /\ answer = Clarification
    /\ phase = "looking up" => AboutStation
    /\ phase = "travelling" => ~AboutStation
    /\ phase \notin {"unclear", "answered"} => answer = NoAnswer
    /\ phase = "answered" => \/ answer.kind \in {"trip", "alternative route"}
                             \/ AboutStation /\ ToLookUp = {} /\ answer = StationAnswer

IInv == SpansInv /\ ReadsInv /\ PhaseInv

\* All that is parsed depends on the question alone.
LEMMA SameQuestion ==
    ASSUME question' = question
    PROVE  /\ FacilityTypesAsked' = FacilityTypesAsked /\ Intent' = Intent /\ AboutStation' = AboutStation
           /\ FacilityQuestionKind' = FacilityQuestionKind
           /\ Target' = Target /\ TargetLine' = TargetLine
           /\ ClarificationReason' = ClarificationReason /\ Clarification' = Clarification
<1>1. \A words : Says(words)' = Says(words) BY DEF Says
<1>2. StationSpans' = StationSpans /\ PlaceSpans' = PlaceSpans BY DEF StationSpans, PlaceSpans
<1>3. \A i : QueryOf(i)' = QueryOf(i) BY <1>2 DEF QueryOf
<1>4. Mentions' = Mentions BY <1>2, <1>3 DEF Mentions
<1>5. ContextPlaces' = ContextPlaces BY <1>2 DEF ContextPlaces
<1>6. FacilityTypesAsked' = FacilityTypesAsked BY <1>1 DEF FacilityTypesAsked
<1>7. Intent' = Intent BY <1>1, <1>4 DEF Intent
<1>8. AlternativeKind' = AlternativeKind BY <1>1, <1>4, <1>7 DEF AlternativeKind
<1>9. FacilityQuestionKind' = FacilityQuestionKind BY <1>1 DEF FacilityQuestionKind
<1>10. AboutStation' = AboutStation BY <1>7, <1>8 DEF AboutStation
<1>11. Target' = Target BY <1>4, <1>10 DEF Target
<1>12. \A n : End(n)' = End(n) BY <1>4 DEF End
<1>13. GenericRestroom' = GenericRestroom BY <1>1, <1>6 DEF GenericRestroom
<1>14. MobilityKnown' = MobilityKnown BY <1>1, <1>6, <1>8 DEF MobilityKnown, ElevatorAlternative
<1>15. FacilityReason' = FacilityReason BY <1>6, <1>11, <1>13 DEF FacilityReason
<1>16. \A m : EndsReason(m)' = EndsReason(m) BY <1>8, <1>12, <1>14 DEF EndsReason
<1>17. ClarificationReason' = ClarificationReason
  BY <1>7, <1>8, <1>10, <1>15, <1>16 DEF ClarificationReason
<1>18. IsFacilityQuestion' = IsFacilityQuestion BY <1>6, <1>8, <1>10 DEF IsFacilityQuestion
<1>19. UnclearStation' = UnclearStation BY <1>11, <1>12, <1>18 DEF UnclearStation
<1>20. FirstPlace' = FirstPlace BY <1>5 DEF FirstPlace
<1>21. ShownQuestion' = ShownQuestion BY <1>5, <1>17, <1>19, <1>20 DEF ShownQuestion
<1>22. Clarification' = Clarification
  BY <1>4, <1>5, <1>17, <1>18, <1>21 DEF Clarification, FacilityReasonText, QuestionReasonText
<1> QED BY <1>6, <1>7, <1>9, <1>10, <1>11, <1>17, <1>22 DEF TargetLine

\* What is asked for again is a question too.
LEMMA RepliesAreQuestions ==
    ASSUME question.spans \in Seq(TextSpan), NEW q \in Replies(ShownQuestion)
    PROVE  q.spans \in Seq(TextSpan)
<1> DEFINE asked == ShownQuestion
           spans == question.spans
<1>1. \A query \in StationQuery : Named(query) \in TextSpan
  <2>1. SUFFICES ASSUME NEW query \in StationQuery PROVE Named(query) \in TextSpan OBVIOUS
  <2>2. query[1] \in Station /\ query[2] \in Line \cup {NoLine} BY <2>1 DEF StationQuery
  <2>3. query[1] # NoStation BY <2>2, RegisteredAssumption
  <2> QED BY <2>2, <2>3 DEF Named, TextSpan
<1>2. Len(spans) \in Nat /\ DOMAIN spans = 1 .. Len(spans) OBVIOUS
<1>3. CASE asked.what = "place"
  <2>1. ContextPlaces # <<>> /\ asked.about = FirstPlace
    BY <1>3 DEF ShownQuestion
  <2>2. Candidates[FirstPlace] \in Seq(Station \X Line) BY <2>1, PlacesAre, RegisteredAssumption
  <2>3. PICK c \in Range(Candidates[FirstPlace]) :
           q = [spans |-> [i \in DOMAIN spans |-> IF spans[i].place = FirstPlace THEN Named(c) ELSE spans[i]],
                phrases |-> question.phrases]
    BY <1>3, <2>1 DEF Replies
  <2>4. c \in StationQuery BY <2>2, <2>3 DEF Range, StationQuery
  <2>5. Named(c) \in TextSpan BY <1>1, <2>4
  <2>6. q.spans = [i \in 1 .. Len(spans) |-> IF spans[i].place = FirstPlace THEN Named(c) ELSE spans[i]]
    BY <1>2, <2>3
  <2>7. \A i \in 1 .. Len(spans) : (IF spans[i].place = FirstPlace THEN Named(c) ELSE spans[i]) \in TextSpan
    BY <2>5
  <2> QED BY <1>2, <2>6, <2>7
<1>4. CASE asked.what = "line"
  <2>1. PICK lines \in LinesFor(Unclear(asked.about)) :
           q = [spans |-> [i \in DOMAIN spans |->
                             IF i \in DOMAIN lines THEN [spans[i] EXCEPT !.line = lines[i]] ELSE spans[i]],
                phrases |-> question.phrases]
    BY <1>4 DEF Replies
  <2>2. \A i \in DOMAIN lines : lines[i] \in Line BY <2>1 DEF LinesFor
  <2>3. \A i \in DOMAIN lines : i \in StationSpans BY <2>1 DEF LinesFor, Unclear
  <2>4. ASSUME NEW i \in 1 .. Len(spans), i \in DOMAIN lines PROVE [spans[i] EXCEPT !.line = lines[i]] \in TextSpan
    <3>1. spans[i] \in TextSpan /\ spans[i].station # NoStation BY <2>3, <2>4 DEF StationSpans
    <3> QED BY <2>2, <2>4, <3>1 DEF TextSpan
  <2>5. q.spans = [i \in 1 .. Len(spans) |->
                      IF i \in DOMAIN lines THEN [spans[i] EXCEPT !.line = lines[i]] ELSE spans[i]]
    BY <1>2, <2>1
  <2>6. \A i \in 1 .. Len(spans) :
           (IF i \in DOMAIN lines THEN [spans[i] EXCEPT !.line = lines[i]] ELSE spans[i]) \in TextSpan
    BY <2>4
  <2> QED BY <1>2, <2>5, <2>6
<1>5. CASE asked.what = "station"
  <2>1. PICK query \in OwnWords : q = [spans |-> <<Named(query)>>, phrases |-> question.phrases]
    BY <1>5 DEF Replies
  <2>2. Named(query) \in TextSpan BY <1>1, <2>1, RegisteredAssumption DEF StationQuery
  <2> QED BY <2>1, <2>2
<1>6. CASE asked.what = "route"
  <2>1. PICK ends \in OwnWords \X OwnWords :
           q = [spans |-> <<Named(ends[1]), Named(ends[2])>>, phrases |-> question.phrases \ {"current route"}]
    BY <1>6 DEF Replies
  <2>2. Named(ends[1]) \in TextSpan /\ Named(ends[2]) \in TextSpan
    BY <1>1, <2>1, RegisteredAssumption DEF StationQuery
  <2>3. q.spans = <<Named(ends[1]), Named(ends[2])>> BY <2>1
  <2>4. \A a, b \in TextSpan : <<a, b>> \in Seq(TextSpan) OBVIOUS
  <2> QED BY <2>2, <2>3, <2>4
<1>7. CASE asked.what \notin {"place", "line", "station", "route"}
  <2>1. \E words : q = [spans |-> spans, phrases |-> words] BY <1>7 DEF Replies
  <2> QED BY <2>1
<1> QED BY <1>3, <1>4, <1>5, <1>6, <1>7

\* A dialogue begins inside the invariant.
LEMMA QuestionsInit == Init => IInv
<1> SUFFICES ASSUME Init PROVE IInv OBVIOUS
<1>1. SpansInv BY StartAssumption DEF Init, SpansInv
<1>2. DOMAIN reads = {} BY DEF Init
<1>3. ReadsInv BY <1>2 DEF Init, ReadsInv
<1>4. PhaseInv BY DEF Init, PhaseInv
<1> QED BY <1>1, <1>3, <1>4 DEF IInv

\* While the question stays, a step has only to keep what it changes.
LEMMA ReadsStay ==
    ASSUME ReadsInv, question' = question, scene' = scene, reads' = reads, aged' = aged
    PROVE  ReadsInv'
<1>1. /\ FacilityTypesAsked' = FacilityTypesAsked /\ AboutStation' = AboutStation
      /\ ClarificationReason' = ClarificationReason /\ Target' = Target /\ TargetLine' = TargetLine
  BY SameQuestion
<1> QED BY <1>1 DEF ReadsInv, Returned

\* Every step of a dialogue keeps the invariant.
LEMMA QuestionsNext == IInv /\ [Next]_vars => IInv'
<1> SUFFICES ASSUME IInv, [Next]_vars PROVE IInv' OBVIOUS
<1> USE DEF IInv
<1>1. CASE Clarify
  <2>1. question' = question /\ scene' = scene /\ reads' = reads /\ aged' = aged BY <1>1 DEF Clarify
  <2>2. SpansInv' BY <2>1 DEF SpansInv
  <2>3. ReadsInv' BY <2>1, ReadsStay
  <2>4. PhaseInv' BY <1>1, <2>1, SameQuestion DEF Clarify, PhaseInv
  <2> QED BY <2>2, <2>3, <2>4
<1>2. CASE Begin
  <2>1. question' = question /\ scene' = scene /\ reads' = reads /\ aged' = aged BY <1>2 DEF Begin
  <2>2. SpansInv' BY <2>1 DEF SpansInv
  <2>3. ReadsInv' BY <2>1, ReadsStay
  <2>4. /\ phase = "asked" /\ ClarificationReason = "none" /\ answer' = answer
        /\ phase' = IF AboutStation THEN "looking up" ELSE "travelling"
    BY <1>2 DEF Begin
  <2>5. AboutStation' = AboutStation /\ ClarificationReason' = ClarificationReason BY <2>1, SameQuestion
  <2>6. /\ phase' \in {"looking up", "travelling"}
        /\ phase' = "looking up" => AboutStation'
        /\ phase' = "travelling" => ~AboutStation'
    BY <2>4, <2>5
  <2>7. answer' = NoAnswer BY <2>4 DEF PhaseInv
  <2>8. PhaseInv' BY <2>4, <2>5, <2>6, <2>7 DEF PhaseInv, NoAnswer
  <2> QED BY <2>2, <2>3, <2>8
<1>3. ASSUME NEW t \in Range(FacilityTypes), LookUp(t) PROVE IInv'
  <2>1. question' = question /\ scene' = scene BY <1>3 DEF LookUp
  <2>2. SpansInv' BY <2>1 DEF SpansInv
  <2>3. /\ FacilityTypesAsked' = FacilityTypesAsked /\ AboutStation' = AboutStation
        /\ ClarificationReason' = ClarificationReason /\ Target' = Target /\ TargetLine' = TargetLine
    BY <2>1, SameQuestion
  <2>4. phase = "looking up" /\ phase' = phase /\ answer' = answer /\ t \in FacilityTypesAsked \ DOMAIN reads
    BY <1>3 DEF LookUp, ToLookUp
  <2>5. PICK outcome \in Endings(KindOf[t], scene.ends) :
           /\ reads' = [k \in DOMAIN reads \cup {t} |-> IF k \in DOMAIN reads THEN reads[k] ELSE Returned(t, outcome)]
           /\ \E old \in SUBSET (Ageing \cap {name \in DOMAIN outcome : outcome[name] = "ok"}) : aged' = aged \cup old
    BY <1>3 DEF LookUp, Returned
  <2>6. ReadsInv'
    <3>1. AboutStation /\ ClarificationReason = "none" BY <2>4 DEF PhaseInv
    <3>2. DOMAIN reads' = DOMAIN reads \cup {t} /\ DOMAIN reads' \subseteq FacilityTypesAsked
      BY <2>4, <2>5 DEF ReadsInv
    <3>3. \A k \in DOMAIN reads' : \E o \in Endings(KindOf[k], scene.ends) : reads'[k] = Returned(k, o)
      BY <2>4, <2>5 DEF ReadsInv
    <3>4. aged' \subseteq Ageing BY <2>5 DEF ReadsInv
    <3>5. \A k, o : Returned(k, o)' = Returned(k, o) BY <2>1, <2>3 DEF Returned
    <3> HIDE DEF IInv
    <3> QED BY <2>1, <2>3, <3>1, <3>2, <3>3, <3>4, <3>5 DEF ReadsInv
  <2>7. PhaseInv' BY <2>3, <2>4 DEF PhaseInv
  <2> QED BY <2>2, <2>6, <2>7
<1>4. CASE AnswerFacilities
  <2>1. question' = question /\ scene' = scene /\ reads' = reads /\ aged' = aged BY <1>4 DEF AnswerFacilities
  <2>2. SpansInv' BY <2>1 DEF SpansInv
  <2>3. ReadsInv' BY <2>1, ReadsStay
  <2>4. phase = "looking up" /\ phase' = "answered" /\ ToLookUp = {} /\ answer' = StationAnswer
    BY <1>4 DEF AnswerFacilities, StationAnswer
  <2>5. StationAnswer' = StationAnswer
    BY <2>1, SameQuestion DEF StationAnswer
  <2>6. ToLookUp' = ToLookUp BY <2>1, SameQuestion DEF ToLookUp
  <2>7. AboutStation' = AboutStation /\ ClarificationReason' = ClarificationReason BY <2>1, SameQuestion
  <2>8. PhaseInv' BY <2>4, <2>5, <2>6, <2>7 DEF PhaseInv
  <2> QED BY <2>2, <2>3, <2>8
<1>5. CASE AnswerTrip
  <2>1. question' = question /\ scene' = scene /\ reads' = reads /\ aged' = aged BY <1>5 DEF AnswerTrip
  <2>2. SpansInv' BY <2>1 DEF SpansInv
  <2>3. ReadsInv' BY <2>1, ReadsStay
  <2>4. answer'.kind \in {"trip", "alternative route"} BY <1>5 DEF AnswerTrip
  <2>5. PhaseInv' BY <1>5, <2>1, <2>4, SameQuestion DEF AnswerTrip, PhaseInv
  <2> QED BY <2>2, <2>3, <2>5
<1>6. CASE LookupRaises
  <2>1. question' = question /\ scene' = scene /\ reads' = reads /\ aged' = aged BY <1>6 DEF LookupRaises
  <2>2. SpansInv' BY <2>1 DEF SpansInv
  <2>3. ReadsInv' BY <2>1, ReadsStay
  <2>4. PhaseInv' BY <1>6, <2>1, SameQuestion DEF LookupRaises, PhaseInv
  <2> QED BY <2>2, <2>3, <2>4
<1>7. CASE AskAgain
  <2>1. /\ scene' = scene /\ reads' = reads /\ aged' = aged /\ phase' = "asked" /\ answer' = NoAnswer
        /\ phase = "unclear" /\ question' \in Replies(answer.question)
    BY <1>7 DEF AskAgain
  <2>2. reads = <<>> /\ answer.question = ShownQuestion BY <2>1 DEF PhaseInv, Clarification
  <2>3. question'.spans \in Seq(TextSpan) BY <2>1, <2>2, RepliesAreQuestions DEF SpansInv
  <2>4. SpansInv' BY <2>1, <2>3 DEF SpansInv
  <2>5. DOMAIN reads' = {} BY <2>1, <2>2
  <2>6. ReadsInv' BY <2>1, <2>5 DEF ReadsInv
  <2>7. PhaseInv' BY <2>1, <2>2 DEF PhaseInv
  <2> QED BY <2>4, <2>6, <2>7
<1>8. CASE Done \/ UNCHANGED vars
  <2>1. /\ question' = question /\ scene' = scene /\ reads' = reads /\ aged' = aged
        /\ phase' = phase /\ answer' = answer
    BY <1>8 DEF Done, vars
  <2>2. SpansInv' BY <2>1 DEF SpansInv
  <2>3. ReadsInv' BY <2>1, ReadsStay
  <2>4. StationAnswer' = StationAnswer
    BY <2>1, SameQuestion DEF StationAnswer
  <2>5. ToLookUp' = ToLookUp BY <2>1, SameQuestion DEF ToLookUp
  <2>6. /\ AboutStation' = AboutStation /\ ClarificationReason' = ClarificationReason
        /\ Clarification' = Clarification
    BY <2>1, SameQuestion
  <2>7. PhaseInv' BY <2>1, <2>4, <2>5, <2>6 DEF PhaseInv
  <2> QED BY <2>2, <2>3, <2>7
<1> QED BY <1>1, <1>2, <1>3, <1>4, <1>5, <1>6, <1>7, <1>8 DEF Next

\* The invariant holds in every dialogue.
LEMMA QuestionsInvariant == Spec => []IInv
BY QuestionsInit, QuestionsNext, PTL DEF Spec

\* TypeOK of Questions: what is asked for is what the questions ask, however
\* often they are asked again.
THEOREM QuestionTypesCorrect == Spec => []TypeOK
<1>1. ASSUME IInv PROVE TypeOK
  <2>1. scene.ends \in [FacilitySources -> SUBSET {"ok", "stale", "failed"}]
    BY <1>1, StartAssumption DEF IInv, SpansInv
  <2>2. answer.kind \in {"none", "clarification", "facilities", "alternatives", "trip", "alternative route"}
    <3>1. NoAnswer.kind = "none" /\ Clarification.kind = "clarification" BY DEF NoAnswer, Clarification
    <3>2. StationAnswer.kind \in {"facilities", "alternatives"} BY DEF StationAnswer
    <3> QED BY <1>1, <3>1, <3>2 DEF IInv, PhaseInv
  <2> QED BY <1>1, <2>1, <2>2 DEF IInv, SpansInv, PhaseInv, ReadsInv, TypeOK
<1> QED BY <1>1, QuestionsInvariant, PTL

-----------------------------------------------------------------------------
(* What is decided. *)

\* A station that is clear has a line, which is one of its lines.
LEMMA ClearLine ==
    ASSUME NEW query \in StationQuery, ~NeedsClarification(query)
    PROVE  /\ Resolve(query[1], query[2]).line \in RegistryLines[query[1]]
           /\ Resolve(query[1], query[2]).line \in Line
<1> DEFINE s == query[1]
           line == query[2]
<1>1. s \in Station /\ RegistryLines[s] \subseteq Line BY RegistryAssumption DEF StationQuery
<1>2. Resolve(s, line).matched BY DEF NeedsClarification
<1>3. CASE line # NoLine BY <1>1, <1>2, <1>3 DEF Resolve
<1>4. CASE line = NoLine
  <2>1. Cardinality(RegistryLines[s]) = 1 BY <1>2, <1>4 DEF Resolve
  <2>2. RegistryLines[s] # {} BY <2>1, FS_EmptySet
  <2>3. (CHOOSE l \in RegistryLines[s] : TRUE) \in RegistryLines[s] BY <2>2
  <2>4. Resolve(s, line).line = CHOOSE l \in RegistryLines[s] : TRUE BY <1>2, <1>4 DEF Resolve
  <2> QED BY <1>1, <2>3, <2>4
<1> QED BY <1>3, <1>4

\* Without a reason to ask back, a question about a station has one, with its line.
LEMMA StationDecided ==
    ASSUME IInv, AboutStation, ClarificationReason = "none"
    PROVE  /\ FacilityTypesAsked # {} /\ Target \in StationQuery /\ Target # NoQuery
           /\ Target[1] \in Station /\ TargetLine \in RegistryLines[Target[1]] /\ TargetLine \in Line
<1>1. FacilityReason = "none" BY DEF ClarificationReason
<1>2. FacilityTypesAsked # {} /\ Target # NoQuery /\ ~NeedsClarification(Target)
  BY <1>1 DEF FacilityReason, ContextReason
<1>3. Target = Mentions[1] /\ Len(Mentions) = 1 BY <1>2 DEF Target
<1>4. Target \in StationQuery BY <1>2, <1>3, MentionsAre DEF IInv, SpansInv
<1> QED BY <1>2, <1>4, ClearLine DEF TargetLine, StationQuery

\* Without a reason to ask back, a trip has its ends and a traveller.
LEMMA TripDecided ==
    ASSUME IInv, ~AboutStation, ClarificationReason = "none"
    PROVE  /\ MobilityKnown
           /\ \A n \in {1, 2} : End(n) # NoQuery /\ Resolve(End(n)[1], End(n)[2]).line \in RegistryLines[End(n)[1]]
<1>1. PICK missing \in {"missing_alternative_route", "missing_station"} : EndsReason(missing) = "none"
  BY DEF ClarificationReason
<1>2. /\ MobilityKnown
      /\ \A n \in {1, 2} : End(n) # NoQuery /\ ~NeedsClarification(End(n))
  BY <1>1 DEF EndsReason, ContextReason
<1>3. \A n \in {1, 2} : End(n) \in StationQuery
  <2>1. Len(Mentions) = 2 BY <1>2 DEF End
  <2>2. \A n \in {1, 2} : End(n) = Mentions[n] BY <2>1 DEF End
  <2> QED BY <1>2, <2>1, <2>2, MentionsAre DEF IInv, SpansInv
<1> QED BY <1>2, <1>3, ClearLine

-----------------------------------------------------------------------------
(* What is asked back. *)

\* A span that is not clear and has no place of its own is a station without a
\* line and with several, or with a line that is not one of its lines.
UnclearSpan(i) ==
    /\ i \in DOMAIN question.spans /\ question.spans[i].station # NoStation
    /\ IF question.spans[i].line = NoLine
       THEN Cardinality(RegistryLines[question.spans[i].station]) > 1
       ELSE question.spans[i].line \notin RegistryLines[question.spans[i].station]

\* If a mention needs a clarification, some span of the text does.
LEMMA UnclearMention ==
    ASSUME question.spans \in Seq(TextSpan), ContextPlaces = <<>>,
           NEW n \in 1 .. Len(Mentions), Mentions[n] # NoQuery => NeedsClarification(Mentions[n])
    PROVE  \E i \in DOMAIN question.spans : UnclearSpan(i)
<1>1. PICK i \in Spans : Mentions[n] = QueryOf(i) BY MentionsAre
<1>2. i \in StationSpans BY PlacesAre DEF Spans
<1> DEFINE span == question.spans[i]
<1>3. QueryOf(i) = <<span.station, span.line>> /\ QueryOf(i) \in StationQuery BY <1>2, QueryIs
<1>4. span.station \in Station /\ span.line \in Line \cup {NoLine} BY <1>3 DEF StationQuery
<1>5. NeedsClarification(QueryOf(i)) BY <1>1, <1>3 DEF NoQuery
<1>6. ~Resolve(span.station, span.line).matched BY <1>3, <1>5 DEF NeedsClarification
<1>7. i \in DOMAIN question.spans /\ span.station # NoStation BY <1>2 DEF StationSpans
<1>8. CASE span.line # NoLine BY <1>6, <1>7, <1>8 DEF Resolve, UnclearSpan
<1>9. CASE span.line = NoLine
  <2>1. Cardinality(RegistryLines[span.station]) # 1 BY <1>6, <1>9 DEF Resolve
  <2>2. RegistryLines[span.station] \subseteq Line /\ RegistryLines[span.station] # {}
    BY <1>4, RegistryAssumption, RegisteredAssumption
  <2>3. IsFiniteSet(RegistryLines[span.station]) BY <2>2, RegisteredAssumption, FS_Subset
  <2>4. Cardinality(RegistryLines[span.station]) \in Nat /\ Cardinality(RegistryLines[span.station]) # 0
    BY <2>2, <2>3, FS_CardinalityType, FS_EmptySet
  <2> QED BY <1>7, <1>9, <2>1, <2>4 DEF UnclearSpan
<1> QED BY <1>8, <1>9

\* Which rule gave the reason to ask back.
LEMMA ReasonRests ==
    LET R == ClarificationReason
        clear(query) == query # NoQuery /\ NeedsClarification(query)
    IN  /\ R \in {"accessible_restroom_confirmation", "missing_facility_type", "missing_facility_station"} =>
              AboutStation /\ FacilityReason = R
        /\ R = "missing_mobility_profile" => ~MobilityKnown
        /\ R \in {"ambiguous_station", "station_line_mismatch"} => clear(Target) \/ clear(End(1)) \/ clear(End(2))
        /\ R \in {"missing_station", "missing_alternative_route"} => NoQuery \in {End(1), End(2)}
        /\ R = "current_route_context" => AlternativeKind = "CURRENT_ROUTE"
        /\ R = "unsupported_intent" => /\ ~AboutStation /\ AlternativeKind \notin {"CURRENT_ROUTE", "ROUTE"}
                                       /\ Intent # "trip_accessibility"
        /\ R \in {"accessible_restroom_confirmation", "missing_facility_type", "missing_facility_station",
                  "missing_mobility_profile", "ambiguous_station", "station_line_mismatch", "missing_station",
                  "missing_alternative_route", "current_route_context", "unsupported_intent",
                  "station_not_in_coverage", "none"}
<1>1. \A queries : ContextReason(queries) \in {"ambiguous_station", "station_line_mismatch"} BY DEF ContextReason
<1>2. /\ FacilityReason \in {"accessible_restroom_confirmation", "missing_facility_type",
                             "missing_facility_station", "ambiguous_station", "station_line_mismatch",
                             "station_not_in_coverage", "none"}
      /\ FacilityReason \in {"ambiguous_station", "station_line_mismatch"} => Target # NoQuery /\ NeedsClarification(Target)
  BY <1>1 DEF FacilityReason
<1>3. ASSUME NEW missing \in {"missing_station", "missing_alternative_route"}
      PROVE  /\ EndsReason(missing) \in {missing, "missing_mobility_profile", "ambiguous_station",
                                         "station_line_mismatch", "station_not_in_coverage", "none"}
             /\ EndsReason(missing) = missing => NoQuery \in {End(1), End(2)}
             /\ EndsReason(missing) = "missing_mobility_profile" => ~MobilityKnown
             /\ EndsReason(missing) \in {"ambiguous_station", "station_line_mismatch"} =>
                   \E n \in {1, 2} : End(n) # NoQuery /\ NeedsClarification(End(n))
  <2>1. CASE NoQuery \in {End(1), End(2)}
    <3>1. EndsReason(missing) = missing BY <2>1 DEF EndsReason
    <3> QED BY <2>1, <3>1
  <2>2. CASE NoQuery \notin {End(1), End(2)} /\ ~MobilityKnown
    <3>1. EndsReason(missing) = "missing_mobility_profile" BY <2>2 DEF EndsReason
    <3> QED BY <2>2, <3>1
  <2>3. CASE NoQuery \notin {End(1), End(2)} /\ MobilityKnown
    <3>1. EndsReason(missing) =
             IF ~\E query \in {End(1), End(2)} : NeedsClarification(query) THEN "none"
             ELSE IF AlternativeKind = "none" /\ (\E query \in {End(1), End(2)} : OutsideRegistry(query))
             THEN "station_not_in_coverage" ELSE ContextReason({End(1), End(2)})
      BY <2>3 DEF EndsReason
    <3> QED BY <1>1, <2>3, <3>1
  <2> QED BY <2>1, <2>2, <2>3
<1>4. CASE AboutStation
  <2>1. ClarificationReason = FacilityReason BY <1>4 DEF ClarificationReason
  <2> QED BY <1>2, <1>4, <2>1
<1>5. CASE ~AboutStation
  <2>1. CASE AlternativeKind = "CURRENT_ROUTE"
    <3>1. ClarificationReason = "current_route_context" BY <1>5, <2>1 DEF ClarificationReason
    <3> QED BY <2>1, <3>1
  <2>2. CASE AlternativeKind = "ROUTE"
    <3>1. ClarificationReason = EndsReason("missing_alternative_route") BY <1>5, <2>2 DEF ClarificationReason
    <3> QED BY <1>3, <3>1
  <2>3. CASE AlternativeKind \notin {"CURRENT_ROUTE", "ROUTE"} /\ Intent = "trip_accessibility"
    <3>1. ClarificationReason = EndsReason("missing_station") BY <1>5, <2>3 DEF ClarificationReason
    <3> QED BY <1>3, <3>1
  <2>4. CASE AlternativeKind \notin {"CURRENT_ROUTE", "ROUTE"} /\ Intent # "trip_accessibility"
    <3>1. ClarificationReason = "unsupported_intent" BY <1>5, <2>4 DEF ClarificationReason
    <3> QED BY <1>5, <2>4, <3>1
  <2> QED BY <2>1, <2>2, <2>3, <2>4
<1> QED BY <1>4, <1>5

\* A question that names no place of its own names every station it mentions.
LEMMA MentionNames ==
    ASSUME question.spans \in Seq(TextSpan), ContextPlaces = <<>>, NEW n \in 1 .. Len(Mentions)
    PROVE  Mentions[n] # NoQuery
<1>1. PICK i \in Spans : Mentions[n] = QueryOf(i) BY MentionsAre
<1>2. i \in StationSpans BY PlacesAre DEF Spans
<1> QED BY <1>1, <1>2, QueryIs DEF NoQuery, StationQuery

\* The kinds of facility that a question names.
LEMMA KindsAsked ==
    /\ Range(FacilityTypes) = {Elevator, AccessibleRestroom}
    /\ Elevator \in FacilityTypesAsked <=> Says(ElevatorWords)
    /\ AccessibleRestroom \in FacilityTypesAsked <=> Says({"accessible restroom"})
<1>1. Range(FacilityTypes) = {Elevator, AccessibleRestroom}
  <2>1. FacilityTypes[1] = Elevator /\ FacilityTypes[2] = AccessibleRestroom /\ DOMAIN FacilityTypes = {1, 2}
    BY DEF FacilityTypes
  <2> QED BY <2>1 DEF Range
<1>2. Elevator # AccessibleRestroom BY DEF Elevator, AccessibleRestroom
<1> QED BY <1>1, <1>2 DEF FacilityTypesAsked

\* The reasons of a question about a station are those of FacilityReason.
LEMMA StationReasons ==
    /\ AboutStation => /\ ClarificationReason = FacilityReason
                       /\ ClarificationReason \in {"accessible_restroom_confirmation", "missing_facility_type",
                             "missing_facility_station", "ambiguous_station", "station_line_mismatch",
                             "station_not_in_coverage", "none"}
    /\ AboutStation => Len(Mentions) # 2
<1>1. \A queries : ContextReason(queries) \in {"ambiguous_station", "station_line_mismatch"} BY DEF ContextReason
<1>2. FacilityReason \in {"accessible_restroom_confirmation", "missing_facility_type",
                          "missing_facility_station", "ambiguous_station", "station_line_mismatch",
                          "station_not_in_coverage", "none"}
  BY <1>1 DEF FacilityReason
<1>3. AboutStation => ClarificationReason = FacilityReason BY DEF ClarificationReason
<1>4. ASSUME AboutStation, Len(Mentions) = 2 PROVE FALSE
  <2>1. Intent # "facility_status" BY <1>4 DEF Intent
  <2>2. AlternativeKind # "STATION_FACILITY" BY <1>4 DEF AlternativeKind
  <2> QED BY <1>4, <2>1, <2>2 DEF AboutStation
<1> QED BY <1>2, <1>3, <1>4

\* The station is asked for where none is named.
LEMMA StationAsked ==
    ASSUME question.spans \in Seq(TextSpan), ContextPlaces = <<>>, ClarificationReason = "missing_facility_station"
    PROVE  Len(Mentions) = 0 /\ Intent = "facility_status" /\ FacilityTypesAsked # {}
<1>1. FacilityReason = "missing_facility_station" /\ AboutStation BY ReasonRests
<1>2. Target = NoQuery /\ FacilityTypesAsked # {} BY <1>1 DEF FacilityReason, ContextReason
<1> DEFINE k == Len(Mentions)
<1>3. k \in Nat BY MentionsAre
<1>4. Intent = "facility_status" => k < 2 BY DEF Intent
<1>5. AlternativeKind = "STATION_FACILITY" => k = 1 BY DEF AlternativeKind
<1>6. k # 1 BY <1>1, <1>2, MentionNames DEF Target
<1> HIDE DEF k
<1>7. k = 0 BY <1>1, <1>3, <1>4, <1>5, <1>6 DEF AboutStation
<1>8. Intent = "facility_status" BY <1>1, <1>5, <1>7 DEF AboutStation
<1> QED BY <1>2, <1>7, <1>8 DEF k

\* With two ends, a route is asked for only instead of the current one.
LEMMA RouteAsked ==
    ASSUME question.spans \in Seq(TextSpan), ContextPlaces = <<>>, Len(Mentions) = 2,
           ClarificationReason \in {"missing_station", "missing_alternative_route", "current_route_context",
                                    "unsupported_intent"}
    PROVE  Says({"current route"})
<1> DEFINE R == ClarificationReason
<1>1. NoQuery \notin {End(1), End(2)} BY MentionNames DEF End
<1>2. CASE R = "current_route_context"
  <2>1. AlternativeKind = "CURRENT_ROUTE" BY <1>2, ReasonRests
  <2> QED BY <2>1 DEF AlternativeKind
<1>3. CASE R = "unsupported_intent"
  <2>1. ~AboutStation /\ AlternativeKind \notin {"CURRENT_ROUTE", "ROUTE"} /\ Intent # "trip_accessibility"
    BY <1>3, ReasonRests
  <2>2. Says(AlternativeTerms) BY <2>1 DEF Intent
  <2>3. Intent = "alternative_request" BY <2>2 DEF Intent
  <2>4. AlternativeKind \in {"CURRENT_ROUTE", "ROUTE", "STATION_FACILITY"} BY <2>3 DEF AlternativeKind
  <2> QED BY <2>1, <2>4 DEF AboutStation
<1> QED BY <1>1, <1>2, <1>3, ReasonRests

\* What is asked back is open.
LEMMA OpenIsAsked == IInv => QuestionIsOpen
<1> SUFFICES ASSUME IInv, phase = "unclear" PROVE QuestionIsOpen BY DEF QuestionIsOpen
<1> DEFINE R == ClarificationReason
           what == ShownQuestion.what
<1>1. answer.question.what = what /\ R # "none" BY DEF IInv, PhaseInv, Clarification
<1>2. question.spans \in Seq(TextSpan) BY DEF IInv, SpansInv
<1>3. CASE ContextPlaces # <<>>
  <2>1. what = "place" BY <1>3 DEF ShownQuestion
  <2> QED BY <1>1, <2>1 DEF QuestionIsOpen
<1>4. CASE ContextPlaces = <<>>
  <2>1. what = CASE R = "accessible_restroom_confirmation" -> "accessible restroom"
                 [] R = "missing_facility_type" -> "facility"
                 [] R = "missing_facility_station" -> "station"
                 [] R = "missing_mobility_profile" -> "mobility"
                 [] R = "station_not_in_coverage" -> "registered station"
                 [] R \in {"ambiguous_station", "station_line_mismatch"} -> "line"
                 [] OTHER -> "route"
    BY <1>4 DEF ShownQuestion
  <2>2. FacilityTypesAsked = {} => ~Says(ElevatorWords) /\ ~Says({"accessible restroom"})
    BY KindsAsked
  <2>3. CASE R = "accessible_restroom_confirmation"
    <3>1. FacilityReason = R BY <2>3, ReasonRests
    <3>2. FacilityTypesAsked = {} /\ GenericRestroom BY <2>3, <3>1 DEF FacilityReason, ContextReason
    <3>3. Says({"restroom"}) /\ ~Says({"accessible restroom"} \cup ElevatorWords)
      BY <2>2, <3>2 DEF GenericRestroom, Says, RestroomWords
    <3>4. what = "accessible restroom" BY <2>1, <2>3
    <3> QED BY <1>1, <3>3, <3>4 DEF QuestionIsOpen
  <2>4. CASE R = "missing_facility_type"
    <3>1. FacilityReason = R BY <2>4, ReasonRests
    <3>2. FacilityTypesAsked = {} /\ ~GenericRestroom BY <2>4, <3>1 DEF FacilityReason, ContextReason
    <3>3. ~Says(ElevatorWords \cup RestroomWords) BY <2>2, <3>2 DEF GenericRestroom, Says
    <3>4. what = "facility" BY <2>1, <2>4
    <3> QED BY <1>1, <3>3, <3>4 DEF QuestionIsOpen
  <2>5. CASE R = "missing_facility_station"
    <3>1. Len(Mentions) = 0 BY <1>2, <1>4, <2>5, StationAsked
    <3>2. Cardinality(Spans) = 0 BY <1>2, <3>1, MentionsAre
    <3>3. Spans = {} BY <1>2, <3>2, SpansAre, FS_EmptySet
    <3>4. question.spans = <<>> BY <1>2, <3>3, SpansAre
    <3>5. what = "station" BY <2>1, <2>5
    <3> QED BY <1>1, <3>4, <3>5 DEF QuestionIsOpen
  <2>6. CASE R = "missing_mobility_profile"
    <3>1. ~Says(MobilitySignals) BY <2>6, ReasonRests DEF MobilityKnown
    <3>2. what = "mobility" BY <2>1, <2>6
    <3> QED BY <1>1, <3>1, <3>2 DEF QuestionIsOpen
  <2>7. CASE R \in {"ambiguous_station", "station_line_mismatch"}
    <3>1. \E query \in {Target, End(1), End(2)} : query # NoQuery /\ NeedsClarification(query) BY <2>7, ReasonRests
    <3>2. \E n \in 1 .. Len(Mentions) : NeedsClarification(Mentions[n])
      <4>1. Target # NoQuery => Target = Mentions[1] /\ Len(Mentions) = 1 BY DEF Target
      <4>2. \A n \in {1, 2} : End(n) # NoQuery => End(n) = Mentions[n] /\ Len(Mentions) = 2 BY DEF End
      <4> QED BY <3>1, <4>1, <4>2
    <3>3. \E i \in DOMAIN question.spans : UnclearSpan(i) BY <1>2, <1>4, <3>2, UnclearMention
    <3>4. what = "line" BY <2>1, <2>7
    <3> QED BY <1>1, <3>3, <3>4 DEF QuestionIsOpen, UnclearSpan
  <2>8. CASE R = "station_not_in_coverage"
    <3>1. what = "registered station" BY <2>1, <2>8
    <3> QED BY <1>1, <3>1 DEF QuestionIsOpen
  <2>9. CASE R \in {"missing_station", "missing_alternative_route", "current_route_context", "unsupported_intent"}
    <3>1. what = "route" BY <2>1, <2>9
    <3>2. Len(Mentions) = 2 => Says({"current route"}) BY <1>2, <1>4, <2>9, RouteAsked
    <3> QED BY <1>1, <3>1, <3>2 DEF QuestionIsOpen
  <2> HIDE DEF R
  <2> QED BY <1>1, <2>3, <2>4, <2>5, <2>6, <2>7, <2>8, <2>9, ReasonRests DEF R
<1> QED BY <1>3, <1>4

-----------------------------------------------------------------------------
(* What the lookups of a question return. *)

\* What one source contributes for the station and the line of the question.
SourceSays(r, name) ==
    /\ IsFiniteSet(r.value)
    /\ \A f \in r.value : /\ f.source = name /\ f.type = SourceType[name] /\ f.status \in FacilityStatus
                          /\ f.line \in {NoLine, TargetLine}
    /\ \E m : /\ r.sources = {m} /\ m.name = name
              /\ m.unsupported <=> <<name, Target[1], TargetLine>> \in Uncovered
              /\ m.unsupported => r.value = {} /\ ~m.success /\ ~m.stale
              /\ m.stale => ~m.success
              /\ name \in r.failed <=> ~m.success /\ ~m.unsupported
    /\ r.failed \subseteq {name}

\* A lookup of the decided station answers for each source as SourceSays.
LEMMA SourceAnswers ==
    ASSUME IInv, AboutStation, ClarificationReason = "none",
           NEW name \in DOMAIN SourceType, NEW outcome \in {"ok", "stale", "failed"}
    PROVE  SourceSays(Lookup(name, Target[1], TargetLine, outcome, scene.held[Target[1]], scene.old[Target[1]]), name)
<1> DEFINE s == Target[1]
           line == TargetLine
           held == scene.held[s]
           old == scene.old[s]
           r == Lookup(name, s, line, outcome, held, old)
<1>1. s \in Station /\ line \in RegistryLines[s] /\ line # NoLine BY StationDecided, RegistryAssumption
<1>2. Resolve(s, line).matched /\ Resolve(s, line).line = line BY <1>1 DEF Resolve
<1>3. IsFiniteSet(held \cup old) /\ \A f \in held \cup old : f.status \in FacilityStatus /\ f.type = SourceType[f.source]
  <2>1. PICK start \in Starts : scene = start[2] BY DEF IInv, SpansInv
  <2> QED BY <1>1, <2>1, StartAssumption
<1>4. LookupSays(r, name, Rows(name, held, line), held \cup old) BY <1>2, LookupEnds
<1>5. r.value \subseteq Rows(name, held \cup old, line) BY <1>2, LookupRows
<1>6. \A m \in r.sources : m.unsupported <=> <<name, s, line>> \in Uncovered BY <1>2, LookupOutside
<1> HIDE DEF r, held, old
<1>7. /\ IsFiniteSet(r.value)
      /\ \A f \in r.value : /\ f.source = name /\ f.type = SourceType[name] /\ f.status \in FacilityStatus
                            /\ f.line \in {NoLine, line}
  <2>1. r.value \subseteq held \cup old BY <1>5 DEF Rows
  <2>2. IsFiniteSet(r.value) BY <1>3, <2>1, FS_Subset
  <2>3. \A f \in r.value : f.source = name /\ f.line \in {NoLine, line} BY <1>1, <1>5 DEF Rows
  <2> QED BY <1>3, <2>1, <2>2, <2>3
<1>8. PICK m : /\ r.sources = {m} /\ m.name = name
               /\ m.unsupported => r.value = {} /\ r.failed = {}
               /\ ~m.unsupported /\ r.failed = {} => m.success /\ ~m.stale
               /\ m.stale => r.failed = {name}
               /\ m.unsupported \/ m.stale => ~m.success
               /\ ~m.unsupported => (m.success <=> r.failed = {})
  BY <1>4 DEF LookupSays
<1>9. r.failed \subseteq {name} BY <1>4 DEF LookupSays
<1>10. m.unsupported => ~m.stale
  <2>1. {name} # {} OBVIOUS
  <2> QED BY <1>8, <2>1
<1>11. name \in r.failed <=> ~m.success /\ ~m.unsupported
  <2>1. name \in r.failed <=> r.failed # {} BY <1>9
  <2> QED BY <1>8, <2>1
<1> QED BY <1>6, <1>7, <1>8, <1>9, <1>10, <1>11 DEF SourceSays, r, held, old

\* What the lookup of one kind of facility contributes, of one source or of two:
\* either all of its sources cover the station or none does.
ReadSays(r, t) ==
    /\ IsFiniteSet(r.value)
    /\ \A f \in r.value : /\ f.type = t /\ f.source \in SourcesOf(KindOf[t]) /\ f.status \in FacilityStatus
                          /\ f.line \in {NoLine, TargetLine}
    /\ \A m \in r.sources : m.name \in SourcesOf(KindOf[t])
    /\ \A name \in SourcesOf(KindOf[t]) : \E m \in r.sources : m.name = name
    /\ \A m1, m2 \in r.sources : /\ m1.name = m2.name => m1 = m2
                                 /\ m1.unsupported <=> m2.unsupported
    /\ \A m \in r.sources : /\ m.unsupported => r.value = {} /\ ~m.success /\ ~m.stale
                            /\ m.stale => ~m.success
                            /\ m.name \in r.failed <=> ~m.success /\ ~m.unsupported
    /\ r.failed \subseteq SourcesOf(KindOf[t])

\* The kinds that are asked for, and the sources of each.
LEMMA KindsAre ==
    /\ KindOf[Elevator] = "elevators" /\ KindOf[AccessibleRestroom] = "restrooms"
    /\ SourcesOf(KindOf[Elevator]) = {"elevator_status", "elevator_info"}
    /\ SourcesOf(KindOf[AccessibleRestroom]) = {"restroom"}
<1>1. KindOf[Elevator] = "elevators" /\ KindOf[AccessibleRestroom] = "restrooms"
  BY KindsAsked DEF KindOf, Elevator, AccessibleRestroom
<1> QED BY <1>1 DEF SourcesOf

\* What a question has read is what its lookups gave.
LEMMA ReadAnswers ==
    ASSUME IInv, NEW t \in DOMAIN reads
    PROVE  t \in {Elevator, AccessibleRestroom} /\ ReadSays(reads[t], t)
<1>1. t \in {Elevator, AccessibleRestroom} /\ AboutStation /\ ClarificationReason = "none"
  BY KindsAsked DEF IInv, ReadsInv, FacilityTypesAsked
<1>2. PICK outcome \in Endings(KindOf[t], scene.ends) : reads[t] = Returned(t, outcome) BY DEF IInv, ReadsInv
<1> DEFINE s == Target[1]
           line == TargetLine
           result(name) == Lookup(name, s, line, outcome[name], scene.held[s], scene.old[s])
<1>3. \A name \in SourcesOf(KindOf[t]) : outcome[name] \in {"ok", "stale", "failed"} BY <1>2 DEF Endings
<1>4. ~Unresolved(s, line)
  <2>1. s \in Station /\ line \in RegistryLines[s] /\ line # NoLine BY <1>1, StationDecided, RegistryAssumption
  <2> QED BY <2>1 DEF Unresolved, Resolve
<1>5. CASE t = AccessibleRestroom
  <2>1. KindOf[t] = "restrooms" /\ SourcesOf(KindOf[t]) = {"restroom"} BY <1>5, KindsAre
  <2>2. (CHOOSE name \in SourcesOf(KindOf[t]) : TRUE) = "restroom" BY <2>1
  <2>3. reads[t] = result("restroom") BY <1>2, <1>4, <2>1, <2>2 DEF Returned, Query
  <2>4. "restroom" \in DOMAIN SourceType /\ SourceType["restroom"] = t BY <1>5 DEF SourceType
  <2>5. SourceSays(reads[t], "restroom") BY <1>1, <1>3, <2>1, <2>3, <2>4, SourceAnswers
  <2>6. ReadSays(reads[t], t)
    <3> DEFINE r == reads[t]
    <3> HIDE DEF r
    <3>1. SourceSays(r, "restroom") BY <2>5 DEF r
    <3>2. ReadSays(r, t) BY <2>1, <2>4, <3>1 DEF SourceSays, ReadSays
    <3> QED BY <3>2 DEF r
  <2> QED BY <1>1, <2>6
<1>6. CASE t = Elevator
  <2>1. KindOf[t] = "elevators" /\ SourcesOf(KindOf[t]) = {"elevator_status", "elevator_info"} BY <1>6, KindsAre
  <2>2. reads[t] = Both(result("elevator_status"), result("elevator_info"))
    BY <1>2, <1>4, <2>1 DEF Returned, Query
  <2>3. \A name \in {"elevator_status", "elevator_info"} : name \in DOMAIN SourceType /\ SourceType[name] = t
    BY <1>6 DEF SourceType
  <2> DEFINE r1 == result("elevator_status")
             r2 == result("elevator_info")
  <2>4. SourceSays(r1, "elevator_status") /\ SourceSays(r2, "elevator_info")
    BY <1>1, <1>3, <2>1, <2>3, SourceAnswers
  <2>5. /\ reads[t].value = r1.value \cup r2.value /\ reads[t].sources = r1.sources \cup r2.sources
        /\ reads[t].failed = r1.failed \cup r2.failed
    BY <2>2 DEF Both
  <2>6. <<"elevator_status", s, line>> \in Uncovered <=> <<"elevator_info", s, line>> \in Uncovered
    BY <1>1, StationDecided, SourcesAssumption
  <2>7. IsFiniteSet(r1.value \cup r2.value) BY <2>4, FS_Union DEF SourceSays
  <2> HIDE DEF r1, r2
  <2>8. PICK m1 : /\ r1.sources = {m1} /\ m1.name = "elevator_status"
                  /\ m1.unsupported <=> <<"elevator_status", s, line>> \in Uncovered
                  /\ m1.unsupported => r1.value = {} /\ ~m1.success /\ ~m1.stale
                  /\ m1.stale => ~m1.success
                  /\ "elevator_status" \in r1.failed <=> ~m1.success /\ ~m1.unsupported
    BY <2>4 DEF SourceSays
  <2>9. PICK m2 : /\ r2.sources = {m2} /\ m2.name = "elevator_info"
                  /\ m2.unsupported <=> <<"elevator_info", s, line>> \in Uncovered
                  /\ m2.unsupported => r2.value = {} /\ ~m2.success /\ ~m2.stale
                  /\ m2.stale => ~m2.success
                  /\ "elevator_info" \in r2.failed <=> ~m2.success /\ ~m2.unsupported
    BY <2>4 DEF SourceSays
  <2>10. r1.failed \subseteq {"elevator_status"} /\ r2.failed \subseteq {"elevator_info"} BY <2>4 DEF SourceSays
  <2>11. \A f \in reads[t].value : /\ f.type = t /\ f.source \in SourcesOf(KindOf[t]) /\ f.status \in FacilityStatus
                                   /\ f.line \in {NoLine, TargetLine}
    BY <2>1, <2>3, <2>4, <2>5 DEF SourceSays
  <2>12. reads[t].sources = {m1, m2} BY <2>5, <2>8, <2>9
  <2>13. m1.unsupported <=> m2.unsupported BY <2>6, <2>8, <2>9
  <2>14. /\ m1.unsupported => reads[t].value = {}
         /\ m2.unsupported => reads[t].value = {}
    BY <2>5, <2>8, <2>9, <2>13
  <2>15. /\ "elevator_status" \in reads[t].failed <=> ~m1.success /\ ~m1.unsupported
         /\ "elevator_info" \in reads[t].failed <=> ~m2.success /\ ~m2.unsupported
         /\ reads[t].failed \subseteq SourcesOf(KindOf[t])
    BY <2>1, <2>5, <2>8, <2>9, <2>10
  <2>16. m1.name # m2.name BY <2>8, <2>9
  <2>17. /\ \A m \in reads[t].sources : m.name \in SourcesOf(KindOf[t])
         /\ \A name \in SourcesOf(KindOf[t]) : \E m \in reads[t].sources : m.name = name
    BY <2>1, <2>8, <2>9, <2>12
  <2>18. \A n1, n2 \in reads[t].sources : /\ n1.name = n2.name => n1 = n2
                                          /\ n1.unsupported <=> n2.unsupported
    BY <2>12, <2>13, <2>16
  <2>19. \A m \in reads[t].sources : /\ m.unsupported => reads[t].value = {} /\ ~m.success /\ ~m.stale
                                     /\ m.stale => ~m.success
                                     /\ m.name \in reads[t].failed <=> ~m.success /\ ~m.unsupported
    <3>1. SUFFICES ASSUME NEW m \in reads[t].sources
                   PROVE  /\ m.unsupported => reads[t].value = {} /\ ~m.success /\ ~m.stale
                          /\ m.stale => ~m.success
                          /\ m.name \in reads[t].failed <=> ~m.success /\ ~m.unsupported
      OBVIOUS
    <3>2. m1.name \in reads[t].failed <=> ~m1.success /\ ~m1.unsupported
      <4>1. m1.name = "elevator_status" BY <2>8
      <4> QED BY <2>15, <4>1, Zenon
    <3>3. m2.name \in reads[t].failed <=> ~m2.success /\ ~m2.unsupported
      <4>1. m2.name = "elevator_info" BY <2>9
      <4> QED BY <2>15, <4>1, Zenon
    <3>4. /\ m1.unsupported => ~m1.success /\ ~m1.stale
          /\ m1.stale => ~m1.success
      BY <2>8, Zenon
    <3>5. /\ m2.unsupported => ~m2.success /\ ~m2.stale
          /\ m2.stale => ~m2.success
      BY <2>9, Zenon
    <3>6. CASE m = m1 BY <2>14, <3>2, <3>4, <3>6, Zenon
    <3>7. CASE m = m2 BY <2>14, <3>3, <3>5, <3>7, Zenon
    <3> QED BY <2>12, <3>1, <3>6, <3>7
  <2> QED BY <1>1, <2>5, <2>7, <2>11, <2>15, <2>17, <2>18, <2>19 DEF ReadSays
<1> QED BY <1>1, <1>5, <1>6

\* AskedOrDecided of Questions: nothing is looked up before it is decided what
\* for, and nothing is asked that the question says.
THEOREM OnlyOpenIsAsked == Spec => []AskedOrDecided
<1>1. ASSUME IInv PROVE LookedUpIsDecided
  <2>1. ASSUME phase = "looking up"
        PROVE  /\ Target # NoQuery /\ FacilityTypesAsked # {}
               /\ TargetLine \in RegistryLines[Target[1]]
               /\ \A t \in DOMAIN reads : \A f \in reads[t].value : f.line \in {NoLine, TargetLine}
    <3>1. AboutStation /\ ClarificationReason = "none" BY <1>1, <2>1 DEF IInv, PhaseInv
    <3> QED BY <1>1, <3>1, StationDecided, ReadAnswers DEF ReadSays
  <2>2. ASSUME phase = "travelling"
        PROVE  /\ MobilityKnown
               /\ \A n \in {1, 2} : End(n) # NoQuery /\ Resolve(End(n)[1], End(n)[2]).line \in RegistryLines[End(n)[1]]
    <3>1. ~AboutStation /\ ClarificationReason = "none" BY <1>1, <2>2 DEF IInv, PhaseInv
    <3> QED BY <1>1, <3>1, TripDecided
  <2> QED BY <2>1, <2>2 DEF LookedUpIsDecided
<1>2. IInv => AskedOrDecided BY <1>1, OpenIsAsked DEF AskedOrDecided
<1> QED BY <1>2, QuestionsInvariant, PTL

-----------------------------------------------------------------------------
(* What the answers say of their sources. *)

\* An answer about a station is made of the results of the lookups, of one kind
\* of facility at least.
LEMMA AnsweredFromReads ==
    ASSUME IInv, answer.kind \in {"facilities", "alternatives"}
    PROVE  /\ answer = StationAnswer /\ Result = FacilityResult(reads)
           /\ answer.kind = "facilities" => Said = FacilityMessage(Result, aged)
           /\ answer.kind = "alternatives" => Said = AlternativeMessage(Result)
           /\ DOMAIN reads # {} /\ DOMAIN reads \subseteq {Elevator, AccessibleRestroom}
           /\ \A t \in DOMAIN reads : ReadSays(reads[t], t)
<1>1. NoAnswer.kind = "none" /\ Clarification.kind = "clarification" BY DEF NoAnswer, Clarification
<1>2. phase = "answered" BY <1>1 DEF IInv, PhaseInv
<1>3. AboutStation /\ ToLookUp = {} /\ answer = StationAnswer /\ ClarificationReason = "none"
  BY <1>2 DEF IInv, PhaseInv
<1>4. DOMAIN reads = FacilityTypesAsked BY <1>3 DEF IInv, ReadsInv, ToLookUp
<1>5. DOMAIN reads # {} BY <1>3, <1>4, StationDecided
<1>6. Result = FacilityResult(reads) BY <1>3 DEF StationAnswer, Result
<1>7. /\ answer.kind = IF Intent = "facility_status" THEN "facilities" ELSE "alternatives"
      /\ Said = IF Intent = "facility_status" THEN FacilityMessage(Result, aged) ELSE AlternativeMessage(Result)
  BY <1>3, <1>6 DEF StationAnswer, Said
<1> QED BY <1>3, <1>5, <1>6, <1>7, ReadAnswers

\* What the response is made of.
LEMMA ResultParts ==
    ASSUME IInv, answer.kind \in {"facilities", "alternatives"}
    PROVE  /\ Result.items = [t \in DOMAIN reads |->
                                 [state |-> FacilityState(t, reads[t]), facilities |-> reads[t].value]]
           /\ Result.sources = UNION {reads[t].sources : t \in DOMAIN reads}
           /\ Result.failed = UNION {reads[t].failed : t \in DOMAIN reads}
           /\ Result.status = ResponseStatus(Result.items, Result.sources, Result.failed)
           /\ Result.sources # {}
           /\ Result.failed = {} => Failing(Result.sources) = {}
<1>1. Result = FacilityResult(reads) BY AnsweredFromReads
<1>2. /\ Result.items = [t \in DOMAIN reads |->
                           [state |-> FacilityState(t, reads[t]), facilities |-> reads[t].value]]
      /\ Result.sources = UNION {reads[t].sources : t \in DOMAIN reads}
      /\ Result.failed = UNION {reads[t].failed : t \in DOMAIN reads}
      /\ Result.status = ResponseStatus(Result.items, Result.sources, Result.failed)
  BY <1>1 DEF FacilityResult
<1>3. Result.sources # {}
  <2>1. PICK t \in DOMAIN reads : ReadSays(reads[t], t) BY AnsweredFromReads
  <2>2. t \in {Elevator, AccessibleRestroom} BY AnsweredFromReads
  <2>3. SourcesOf(KindOf[t]) # {} BY <2>2, KindsAre
  <2>4. reads[t].sources # {} BY <2>1, <2>3 DEF ReadSays
  <2> QED BY <1>2, <2>4
<1>4. ASSUME Result.failed = {}, NEW m \in Failing(Result.sources) PROVE FALSE
  <2>1. PICK t \in DOMAIN reads : m \in reads[t].sources BY <1>2, <1>4 DEF Failing
  <2>2. ReadSays(reads[t], t) BY AnsweredFromReads
  <2>3. ~m.success /\ ~m.unsupported BY <1>4 DEF Failing
  <2>4. m.name \in reads[t].failed BY <2>1, <2>2, <2>3 DEF ReadSays
  <2> QED BY <1>2, <1>4, <2>4
<1> QED BY <1>2, <1>3, <1>4

\* In the invariant, the status told is the one of some source.
LEMMA StatusExplained == IInv => StatusIsExplained
<1> SUFFICES ASSUME IInv, answer.kind \in {"facilities", "alternatives"} PROVE StatusIsExplained
  BY DEF StatusIsExplained
<1> DEFINE classes == {LookupClass(reads[t])[1] : t \in DOMAIN reads}
           items == Result.items
           sourceFailed == Result.failed # {} \/ Failing(Result.sources) # {}
           having(state) == \E t \in DOMAIN items : items[t].state = state
<1>1. Result.status =
         IF having("UNSUPPORTED") /\ ~sourceFailed THEN "PARTIAL"
         ELSE IF Succeeded(Result.sources) = {} /\ (sourceFailed \/ Result.sources = {}) THEN "FAILED"
         ELSE IF sourceFailed \/ having("UNKNOWN") THEN "PARTIAL" ELSE "SUCCESS"
  BY ResultParts DEF ResponseStatus
<1>2. sourceFailed <=> Result.failed # {} BY ResultParts
<1>3. DOMAIN items = DOMAIN reads /\ \A t \in DOMAIN reads : items[t].state = FacilityState(t, reads[t])
  BY ResultParts
<1>4. ASSUME Result.status = "SUCCESS" PROVE classes = {"SUCCESS"}
  <2>1. ~sourceFailed /\ ~having("UNSUPPORTED") BY <1>1, <1>4
  <2>2. ASSUME NEW t \in DOMAIN reads PROVE LookupClass(reads[t])[1] = "SUCCESS"
    <3> DEFINE r == reads[t]
    <3>1. ReadSays(r, t) BY AnsweredFromReads
    <3>2. r.failed = {} /\ r.sources \subseteq Result.sources BY <1>2, <2>1, ResultParts
    <3>3. ~AllOutside(r.sources)
      <4>1. AllOutside(r.sources) => FacilityState(t, r) = "UNSUPPORTED" BY DEF FacilityState
      <4> QED BY <1>3, <2>1, <4>1
    <3> HIDE DEF r
    <3>4. t \in {Elevator, AccessibleRestroom} BY AnsweredFromReads
    <3>5. r.sources # {} BY <3>1, <3>4, KindsAre DEF ReadSays
    <3>6. \A m \in r.sources : ~m.unsupported
      <4>1. PICK n \in r.sources : ~n.unsupported BY <3>3, <3>5 DEF AllOutside
      <4> QED BY <3>1, <4>1 DEF ReadSays
    <3>7. \A m \in r.sources : m.success
      <4>1. \A m \in r.sources : m.name \notin r.failed BY <3>2
      <4> QED BY <3>1, <3>6, <4>1 DEF ReadSays
    <3>8. Failing(r.sources) = {} /\ ~\E m \in r.sources : m.stale BY <3>1, <3>7 DEF ReadSays, Failing
    <3>9. LookupClass(r) = <<"SUCCESS", IF r.value # {} THEN "DATA" ELSE "EMPTY">>
      BY <3>2, <3>3, <3>6, <3>8 DEF LookupClass
    <3> QED BY <3>9 DEF r
  <2> QED BY <2>2, AnsweredFromReads
<1>5. ASSUME Result.status = "FAILED", NEW t \in DOMAIN reads, LookupClass(reads[t])[1] = "SUCCESS" PROVE FALSE
  <2> DEFINE r == reads[t]
  <2>1. Succeeded(Result.sources) = {} BY <1>1, <1>5
  <2>2. ReadSays(r, t) /\ t \in {Elevator, AccessibleRestroom} /\ r.sources \subseteq Result.sources
    BY AnsweredFromReads, ResultParts
  <2> HIDE DEF r
  <2>3. /\ ~\E m \in r.sources : m.unsupported
        /\ Failing(r.sources) = {}
    BY <1>5 DEF LookupClass, r
  <2>4. PICK m \in r.sources : TRUE BY <2>2, KindsAre DEF ReadSays
  <2>5. m.success BY <2>3, <2>4 DEF Failing
  <2> QED BY <2>1, <2>2, <2>4, <2>5 DEF Succeeded
<1>6. ASSUME Result.status # "SUCCESS" PROVE UnverifiedParts(Result) # {}
  <2>1. Result.failed # {} \/ having("UNSUPPORTED") \/ having("UNKNOWN") BY <1>1, <1>2, <1>6, ResultParts
  <2>2. CASE Result.failed # {} BY <2>2 DEF UnverifiedParts
  <2>3. ASSUME NEW t \in DOMAIN items, items[t].state \in {"UNSUPPORTED", "UNKNOWN"} PROVE UnverifiedParts(Result) # {}
    <3>1. <<items[t].state, t>> \in UnverifiedParts(Result) BY <2>3 DEF UnverifiedParts
    <3> QED BY <3>1
  <2> QED BY <2>1, <2>2, <2>3
<1> QED BY <1>4, <1>5, <1>6 DEF StatusIsExplained

\* In the invariant, a single time is told only of one time.
LEMMA OneTimeTrue == IInv => OneTimeIsTrue
<1> SUFFICES ASSUME IInv, answer.kind = "facilities", Said.times = {}
             PROVE  /\ \A t \in DOMAIN reads : reads[t].failed = {} /\ \A m \in reads[t].sources : m.success
                    /\ DOMAIN reads = Range(FacilityTypes) => "restroom" \notin aged
  BY DEF OneTimeIsTrue
<1> DEFINE shown == EvidenceSources(Result)
           names == {m.name : m \in shown}
           timed == {name \in names : CheckedAt(Result, name) = "checked"} \ {"elevator_info"}
<1>1. Result.sources \subseteq shown /\ \A m \in shown : m.success => m \in Result.sources
  BY DEF EvidenceSources, Meta
<1>2. OneTime(Result, aged)
  <2>1. CheckedAtLines(Result, aged) = {} BY AnsweredFromReads DEF FacilityMessage
  <2>2. shown # {} BY <1>1, ResultParts
  <2> QED BY <2>1, <2>2 DEF CheckedAtLines
<1>3. /\ \A name \in names : CheckedAt(Result, name) = "checked"
      /\ timed \cap aged = {} \/ timed \subseteq aged
  BY <1>2 DEF OneTime
<1> HIDE DEF shown
<1>4. ASSUME NEW t \in DOMAIN reads, NEW m \in reads[t].sources PROVE m.success /\ m.name \in names
  <2>1. ReadSays(reads[t], t) /\ t \in {Elevator, AccessibleRestroom} BY AnsweredFromReads
  <2>2. m \in shown /\ m.name \in names BY <1>1, ResultParts
  <2>3. CheckedAt(Result, m.name) = "checked" BY <1>3, <2>2
  <2>4. PICK n \in shown : n.name = m.name /\ n.success BY <2>3 DEF CheckedAt, Succeeded, shown
  <2>5. PICK u \in DOMAIN reads : n \in reads[u].sources BY <1>1, <2>4, ResultParts
  <2>6. ReadSays(reads[u], u) /\ u \in {Elevator, AccessibleRestroom} BY AnsweredFromReads
  <2>7. m.name \in SourcesOf(KindOf[t]) /\ m.name \in SourcesOf(KindOf[u])
    BY <2>1, <2>4, <2>5, <2>6 DEF ReadSays
  <2>8. u = t BY <2>1, <2>6, <2>7, KindsAre
  <2>9. n = m BY <2>1, <2>4, <2>5, <2>8 DEF ReadSays
  <2> QED BY <2>2, <2>4, <2>9
<1>5. ASSUME NEW t \in DOMAIN reads PROVE reads[t].failed = {}
  <2>1. ReadSays(reads[t], t) BY AnsweredFromReads
  <2>2. ASSUME NEW name \in reads[t].failed PROVE FALSE
    <3>1. PICK m \in reads[t].sources : m.name = name BY <2>1, <2>2 DEF ReadSays
    <3>2. ~m.success BY <2>1, <2>2, <3>1 DEF ReadSays
    <3> QED BY <1>4, <3>2
  <2> QED BY <2>2
<1>6. ASSUME DOMAIN reads = Range(FacilityTypes) PROVE "restroom" \notin aged
  <2>1. Elevator \in DOMAIN reads /\ AccessibleRestroom \in DOMAIN reads BY <1>6, KindsAsked
  <2>2. ReadSays(reads[Elevator], Elevator) /\ ReadSays(reads[AccessibleRestroom], AccessibleRestroom)
    BY <2>1, AnsweredFromReads
  <2>3. \E m \in reads[Elevator].sources : m.name = "elevator_status" BY <2>2, KindsAre DEF ReadSays
  <2>4. \E m \in reads[AccessibleRestroom].sources : m.name = "restroom" BY <2>2, KindsAre DEF ReadSays
  <2>5. {"elevator_status", "restroom"} \subseteq timed BY <1>3, <1>4, <2>1, <2>3, <2>4
  <2>6. "elevator_status" \notin aged BY SourcesAssumption DEF IInv, ReadsInv
  <2> HIDE DEF timed
  <2> QED BY <1>3, <2>5, <2>6
<1> QED BY <1>4, <1>5, <1>6

\* SourcesAreTold of Questions: what an answer says of its sources, its status
\* and its time, is so of all of them.
THEOREM SourcesToldTruly == Spec => []SourcesAreTold
<1>1. IInv => SourcesAreTold BY StatusExplained, OneTimeTrue DEF SourcesAreTold
<1> QED BY <1>1, QuestionsInvariant, PTL

-----------------------------------------------------------------------------
(* The rows of the table. *)

\* Two sequences in a row have the elements of both.
LEMMA RangeConcat ==
    ASSUME NEW S, NEW a \in Seq(S), NEW b \in Seq(S)
    PROVE  a \o b \in Seq(S) /\ Range(a \o b) = Range(a) \cup Range(b)
<1>1. /\ a \o b \in Seq(S) /\ Len(a \o b) = Len(a) + Len(b)
      /\ \A i \in 1 .. Len(a) + Len(b) : (a \o b)[i] = IF i <= Len(a) THEN a[i] ELSE b[i - Len(a)]
  BY ConcatProperties
<1>2. /\ Len(a) \in Nat /\ Len(b) \in Nat /\ DOMAIN a = 1 .. Len(a) /\ DOMAIN b = 1 .. Len(b)
      /\ DOMAIN (a \o b) = 1 .. Len(a) + Len(b)
  BY <1>1
<1>3. ASSUME NEW i \in DOMAIN (a \o b) PROVE (a \o b)[i] \in Range(a) \cup Range(b)
  <2>1. CASE i <= Len(a) BY <1>1, <1>2, <1>3, <2>1 DEF Range
  <2>2. CASE ~(i <= Len(a))
    <3>1. i - Len(a) \in DOMAIN b BY <1>2, <1>3, <2>2
    <3> QED BY <1>1, <1>2, <1>3, <2>2, <3>1 DEF Range
  <2> QED BY <2>1, <2>2
<1>4. ASSUME NEW i \in DOMAIN a PROVE a[i] \in Range(a \o b)
  <2>1. i \in 1 .. Len(a) + Len(b) /\ i <= Len(a) BY <1>2, <1>4
  <2>2. (a \o b)[i] = a[i] BY <1>1, <2>1
  <2> QED BY <1>2, <2>1, <2>2 DEF Range
<1>5. ASSUME NEW i \in DOMAIN b PROVE b[i] \in Range(a \o b)
  <2> DEFINE k == i + Len(a)
  <2>1. k \in 1 .. Len(a) + Len(b) /\ ~(k <= Len(a)) /\ k - Len(a) = i BY <1>2, <1>5
  <2> HIDE DEF k
  <2>2. (a \o b)[k] = b[i] BY <1>1, <2>1
  <2> QED BY <1>2, <2>1, <2>2 DEF Range
<1> QED BY <1>1, <1>3, <1>4, <1>5 DEF Range

\* What is cut off a sequence is counted, and something is left of it.
LEMMA FirstOfIs ==
    ASSUME NEW S, NEW seq \in Seq(S), NEW n \in Nat \ {0}
    PROVE  /\ Range(FirstOf(seq, n)) \subseteq Range(seq)
           /\ Len(FirstOf(seq, n)) <= Len(seq) /\ Len(FirstOf(seq, n)) \in Nat
           /\ Len(FirstOf(seq, n)) = Len(seq) => FirstOf(seq, n) = seq
           /\ Range(seq) # {} => Range(FirstOf(seq, n)) # {}
<1> DEFINE k == IF n < Len(seq) THEN n ELSE Len(seq)
<1>1. Len(seq) \in Nat /\ DOMAIN seq = 1 .. Len(seq) OBVIOUS
<1>2. k \in 0 .. Len(seq) /\ (Len(seq) # 0 => k # 0) BY <1>1
<1>3. FirstOf(seq, n) = SubSeq(seq, 1, k) BY DEF FirstOf
<1> HIDE DEF k
<1>4. \A i \in 1 .. k : seq[i] \in S BY <1>1, <1>2
<1>5. /\ SubSeq(seq, 1, k) \in Seq(S) /\ Len(SubSeq(seq, 1, k)) = k
      /\ \A i \in 1 .. k : SubSeq(seq, 1, k)[i] = seq[i]
  <2>1. /\ SubSeq(seq, 1, k) \in Seq(S)
        /\ Len(SubSeq(seq, 1, k)) = IF 1 <= k THEN k - 1 + 1 ELSE 0
        /\ \A i \in 1 .. k - 1 + 1 : SubSeq(seq, 1, k)[i] = seq[1 + i - 1]
    BY <1>2, <1>4, SubSeqProperties
  <2> QED BY <1>2, <2>1
<1>6. DOMAIN SubSeq(seq, 1, k) = 1 .. k BY <1>5
<1>7. Range(SubSeq(seq, 1, k)) \subseteq Range(seq) BY <1>1, <1>2, <1>5, <1>6 DEF Range
<1>8. k = Len(seq) => SubSeq(seq, 1, k) = seq BY SubSeqFull
<1>9. ASSUME Range(seq) # {} PROVE Range(SubSeq(seq, 1, k)) # {}
  <2>1. Len(seq) # 0 BY <1>1, <1>9 DEF Range
  <2>2. 1 \in 1 .. k BY <1>2, <2>1
  <2> QED BY <1>6, <2>2 DEF Range
<1> QED BY <1>2, <1>3, <1>5, <1>7, <1>8, <1>9

\* The rows of one kind are the rows of its facilities, and those of the
\* reported ones are all there.
LEMMA RowsAre ==
    ASSUME NEW t, NEW value, IsFiniteSet(value)
    PROVE  LET listed == DisplayRows(t, value)
               first == IF t = Elevator THEN Operational(value) ELSE value
           IN  /\ listed \in Seq({Row(f) : f \in value})
               /\ \A f \in first : Row(f) \in Range(listed)
<1> DEFINE first == IF t = Elevator THEN Operational(value) ELSE value
           reported == {DisplayIdentity(f) : f \in {f \in first : Identified(f)}}
           plans == {f \in value \ first : ~(Identified(f) /\ DisplayIdentity(f) \in reported)}
           R == {Row(f) : f \in value}
           R1 == {Row(f) : f \in first}
           R2 == {Row(f) : f \in plans}
<1>1. DisplayRows(t, value) = SetToSeq(R1) \o SetToSeq(R2) BY DEF DisplayRows
<1>2. first \subseteq value BY DEF Operational
<1>3. plans \subseteq value OBVIOUS
<1>4. IsFiniteSet(R)
  <2> DEFINE row == [f \in value |-> Row(f)]
  <2>1. row \in Surjection(value, R) BY DEF Surjection
  <2> HIDE DEF row, R
  <2> QED BY <2>1, FS_Surjection
<1> HIDE DEF first, plans
<1>5. R1 \subseteq R /\ R2 \subseteq R BY <1>2, <1>3
<1>6. \A f \in first : Row(f) \in R1 OBVIOUS
<1> HIDE DEF R1, R2, R
<1>7. IsFiniteSet(R1) /\ IsFiniteSet(R2) BY <1>4, <1>5, FS_Subset
<1>8. /\ SetToSeq(R1) \in Seq(R1) /\ Range(SetToSeq(R1)) = R1
      /\ SetToSeq(R2) \in Seq(R2)
  BY <1>7, SetToSeqIs
<1>9. SetToSeq(R1) \in Seq(R) /\ SetToSeq(R2) \in Seq(R) BY <1>5, <1>8
<1>10. /\ DisplayRows(t, value) \in Seq(R)
       /\ Range(DisplayRows(t, value)) = R1 \cup Range(SetToSeq(R2))
  BY <1>1, <1>8, <1>9, RangeConcat
<1> QED BY <1>6, <1>10 DEF R, first

-----------------------------------------------------------------------------
(* The states and the title. *)

\* The state of a kind of facility is told by what was reported of it: one
\* state, or that there are several.
StateSays(state, value) ==
    /\ state \in FacilityStatus \cup {"MIXED", "UNSUPPORTED", "NOT_FOUND"}
    /\ state \in {"AVAILABLE", "MAINTENANCE", "UNAVAILABLE"} => \E f \in value : DisplayStatus(f) = state
    /\ state \in {"UNSUPPORTED", "NOT_FOUND"} => value = {}
    /\ state = "MIXED" => \E f \in value : DisplayStatus(f) \in FacilityStatus \ {"AVAILABLE"}
    /\ state # "MIXED" => \A f \in value : DisplayStatus(f) \in {"UNREPORTED", state}
    /\ \A f \in value : DisplayStatus(f) \in {"UNREPORTED", f.status}

\* Of a finite set of states with more than one, one is another one.
LEMMA AnotherOne ==
    ASSUME NEW S, IsFiniteSet(S), Cardinality(S) > 1, NEW x
    PROVE  \E y \in S : y # x
<1> SUFFICES ASSUME \A y \in S : y = x PROVE FALSE OBVIOUS
<1>1. S \subseteq {x} OBVIOUS
<1>2. IsFiniteSet({x}) /\ Cardinality({x}) = 1 BY FS_Singleton
<1>3. Cardinality(S) <= 1 /\ Cardinality(S) \in Nat BY <1>1, <1>2, FS_Subset, FS_CardinalityType
<1> QED BY <1>3

\* A set of states has none, one or several.
LEMMA StatesCount ==
    ASSUME NEW S, IsFiniteSet(S)
    PROVE  /\ Cardinality(S) \in Nat
           /\ Cardinality(S) = 0 <=> S = {}
           /\ Cardinality(S) = 1 => S = {CHOOSE status \in S : TRUE}
<1>1. Cardinality(S) \in Nat BY FS_CardinalityType
<1>2. Cardinality(S) = 0 <=> S = {} BY FS_EmptySet
<1>3. ASSUME Cardinality(S) = 1 PROVE S = {CHOOSE status \in S : TRUE}
  <2>1. PICK x : S = {x} BY <1>3, FS_Singleton
  <2> QED BY <2>1
<1> QED BY <1>1, <1>2, <1>3

\* The state of a kind is one its rows support.
LEMMA StateTells ==
    ASSUME NEW t \in {Elevator, AccessibleRestroom}, NEW r, ReadSays(r, t)
    PROVE  StateSays(FacilityState(t, r), r.value)
<1> DEFINE value == r.value
           state == FacilityState(t, r)
           seen == {f.status : f \in value}
           ops == Operational(value)
           opSeen == {e.status : e \in ops}
<1>1. /\ IsFiniteSet(value)
      /\ \A f \in value : f.type = t /\ f.status \in FacilityStatus
  BY DEF ReadSays
<1>2. AllOutside(r.sources) => value = {} BY DEF ReadSays, AllOutside
<1>3. \A f \in value : DisplayStatus(f) \in {"UNREPORTED", f.status} BY DEF DisplayStatus
<1>4. \A f \in value : f.status # "UNREPORTED" BY <1>1 DEF FacilityStatus
<1>5. CASE value = {}
  <2>1. state \in {"UNSUPPORTED", "NOT_FOUND", "UNKNOWN"} BY <1>5 DEF FacilityState
  <2> QED BY <1>5, <2>1 DEF StateSays, FacilityStatus
<1>6. CASE value # {} /\ t = AccessibleRestroom
  <2>1. t # Elevator BY <1>6 DEF Elevator, AccessibleRestroom
  <2>2. \A f \in value : DisplayStatus(f) = f.status BY <1>1, <2>1 DEF DisplayStatus
  <2>3. state = IF Cardinality(seen) = 1 THEN CHOOSE status \in seen : TRUE ELSE "MIXED"
    BY <1>2, <1>6, <2>1 DEF FacilityState
  <2>4. IsFiniteSet(seen) /\ seen # {} /\ seen \subseteq FacilityStatus
    <3> DEFINE status == [f \in value |-> f.status]
    <3>1. status \in Surjection(value, seen) BY DEF Surjection
    <3>2. seen # {} /\ seen \subseteq FacilityStatus BY <1>1, <1>6
    <3> HIDE DEF status, seen, value
    <3>3. IsFiniteSet(seen) BY <1>1, <3>1, FS_Surjection
    <3> QED BY <3>2, <3>3
  <2>5. \A s \in seen : \E f \in value : DisplayStatus(f) = s BY <2>2
  <2>6. \A f \in value : DisplayStatus(f) \in seen BY <2>2
  <2> HIDE DEF seen, state, value
  <2>7. CASE Cardinality(seen) = 1
    <3>1. seen = {state} BY <2>3, <2>4, <2>7, StatesCount
    <3>2. state \in FacilityStatus BY <2>4, <3>1
    <3>3. state \notin {"MIXED", "UNSUPPORTED", "NOT_FOUND"} BY <3>2 DEF FacilityStatus
    <3>4. StateSays(state, value) BY <1>3, <2>5, <2>6, <3>1, <3>2, <3>3 DEF StateSays
    <3> QED BY <3>4 DEF state, value
  <2>8. CASE Cardinality(seen) # 1
    <3>1. state = "MIXED" BY <2>3, <2>8
    <3>2. Cardinality(seen) > 1 BY <2>4, <2>8, StatesCount
    <3>3. PICK s \in seen : s # "AVAILABLE" BY <2>4, <3>2, AnotherOne
    <3>4. \E f \in value : DisplayStatus(f) \in FacilityStatus \ {"AVAILABLE"} BY <2>4, <2>5, <3>3
    <3>5. StateSays(state, value) BY <1>3, <3>1, <3>4 DEF StateSays
    <3> QED BY <3>5 DEF state, value
  <2> QED BY <2>7, <2>8
<1>7. CASE value # {} /\ t = Elevator
  <2>1. \A f \in value : DisplayStatus(f) = IF f \in ops THEN f.status ELSE "UNREPORTED"
    BY <1>1, <1>7 DEF DisplayStatus, Operational
  <2>2. state = AnswerState(value) BY <1>2, <1>7 DEF FacilityState
  <2>3. IsFiniteSet(opSeen) /\ opSeen \subseteq FacilityStatus
    <3> DEFINE status == [f \in ops |-> f.status]
    <3>1. ops \subseteq value BY DEF Operational
    <3>2. status \in Surjection(ops, opSeen) BY DEF Surjection
    <3>3. opSeen \subseteq FacilityStatus BY <1>1, <3>1
    <3> HIDE DEF status, opSeen, ops, value
    <3>4. IsFiniteSet(ops) BY <1>1, <3>1, FS_Subset
    <3>5. IsFiniteSet(opSeen) BY <3>2, <3>4, FS_Surjection
    <3> QED BY <3>3, <3>5
  <2>4. \A s \in opSeen : \E f \in value : DisplayStatus(f) = s
    <3>1. ops \subseteq value BY DEF Operational
    <3> QED BY <2>1, <3>1
  <2>5. \A f \in value : DisplayStatus(f) \in opSeen \cup {"UNREPORTED"} BY <2>1
  <2>6. state = CASE Cardinality(opSeen) > 1 -> "MIXED"
                  [] Cardinality(opSeen) = 1 -> CHOOSE status \in opSeen : TRUE
                  [] opSeen = {} /\ value # {} -> "UNKNOWN"
                  [] OTHER -> "NOT_FOUND"
    BY <2>2 DEF AnswerState
  <2>7. Cardinality(opSeen) \in Nat /\ (Cardinality(opSeen) = 0 <=> opSeen = {}) BY <2>3, StatesCount
  <2> HIDE DEF opSeen, state, value
  <2>8. CASE Cardinality(opSeen) = 1
    <3>1. ~(Cardinality(opSeen) > 1) /\ opSeen # {} BY <2>7, <2>8
    <3>2. state = CHOOSE status \in opSeen : TRUE BY <2>6, <2>8, <3>1
    <3>3. opSeen = {state} BY <2>3, <2>8, <3>2, StatesCount
    <3>4. state \in FacilityStatus BY <2>3, <3>3
    <3>5. state \notin {"MIXED", "UNSUPPORTED", "NOT_FOUND"} BY <3>4 DEF FacilityStatus
    <3>6. StateSays(state, value) BY <1>3, <2>4, <2>5, <3>3, <3>4, <3>5 DEF StateSays
    <3> QED BY <3>6 DEF state, value
  <2>9. CASE opSeen = {}
    <3>1. ~(Cardinality(opSeen) > 1) /\ Cardinality(opSeen) # 1 BY <2>7, <2>9
    <3>2. state = "UNKNOWN" BY <1>7, <2>6, <2>9, <3>1
    <3>3. StateSays(state, value) BY <1>3, <2>5, <2>9, <3>2 DEF StateSays, FacilityStatus
    <3> QED BY <3>3 DEF state, value
  <2>10. CASE opSeen # {} /\ Cardinality(opSeen) # 1
    <3>1. Cardinality(opSeen) > 1 BY <2>7, <2>10
    <3>2. state = "MIXED" BY <2>6, <2>7, <2>10, <3>1
    <3>3. PICK s \in opSeen : s # "AVAILABLE" BY <2>3, <3>1, AnotherOne
    <3>4. \E f \in value : DisplayStatus(f) \in FacilityStatus \ {"AVAILABLE"} BY <2>3, <2>4, <3>3
    <3>5. StateSays(state, value) BY <1>3, <3>2, <3>4 DEF StateSays
    <3> QED BY <3>5 DEF state, value
  <2> QED BY <2>8, <2>9, <2>10
<1> QED BY <1>5, <1>6, <1>7

\* The first claim that is about something is taken.
LEMMA FirstClaimIs ==
    ASSUME NEW claims, NEW n \in Nat, DOMAIN claims = 1 .. n, NEW k \in 1 .. n, claims[k][2] # {}
    PROVE  \E i \in 1 .. n : /\ FirstClaim(claims) = claims[i] /\ claims[i][2] # {}
                             /\ \A j \in 1 .. i - 1 : claims[j][2] = {}
<1> DEFINE S == {i \in 1 .. n : claims[i][2] # {}}
<1>1. S \subseteq Nat /\ S # {} OBVIOUS
<1>2. PICK m \in S : \A i \in S : m <= i BY <1>1, NatMin
<1>3. \A j \in 1 .. m - 1 : claims[j][2] = {}
  <2>1. SUFFICES ASSUME NEW j \in 1 .. m - 1, claims[j][2] # {} PROVE FALSE OBVIOUS
  <2>2. j \in S /\ j < m BY <1>2, <2>1
  <2> QED BY <1>2, <2>2
<1>4. \E i \in DOMAIN claims : claims[i][2] # {} /\ \A j \in 1 .. i - 1 : claims[j][2] = {} BY <1>2, <1>3
<1> DEFINE i == CHOOSE i \in DOMAIN claims : claims[i][2] # {} /\ \A j \in 1 .. i - 1 : claims[j][2] = {}
<1>5. i \in DOMAIN claims /\ claims[i][2] # {} /\ \A j \in 1 .. i - 1 : claims[j][2] = {} BY <1>4
<1>6. FirstClaim(claims) = claims[i] BY DEF FirstClaim
<1> HIDE DEF i
<1> QED BY <1>5, <1>6

\* The claims of a title, in their order, and the first of them that is about
\* something.
Claims(mixed, repaired, out, unread, outside, missing, unreported, praise, all) ==
    <<<<"some restricted", mixed>>, <<"under repair", repaired>>, <<"out of use", out>>,
      <<"not confirmed", unread>>, <<"outside coverage", outside>>, <<"not found", missing>>,
      <<"state not confirmed", unreported>>, <<praise, all>>>>

Claimed(mixed, repaired, out, unread, outside, missing, unreported, praise) ==
    IF mixed # {} THEN "some restricted" ELSE IF repaired # {} THEN "under repair"
    ELSE IF out # {} THEN "out of use" ELSE IF unread # {} THEN "not confirmed"
    ELSE IF outside # {} THEN "outside coverage" ELSE IF missing # {} THEN "not found"
    ELSE IF unreported # {} THEN "state not confirmed" ELSE praise

\* The first claim is of the worst state that some kind is in.
LEMMA ClaimsTell ==
    ASSUME NEW mixed, NEW repaired, NEW out, NEW unread, NEW outside, NEW missing, NEW unreported, NEW praise,
           NEW all, all # {}
    PROVE  FirstClaim(Claims(mixed, repaired, out, unread, outside, missing, unreported, praise, all))[1] =
              Claimed(mixed, repaired, out, unread, outside, missing, unreported, praise)
<1> DEFINE claims == <<<<"some restricted", mixed>>, <<"under repair", repaired>>, <<"out of use", out>>,
                       <<"not confirmed", unread>>, <<"outside coverage", outside>>, <<"not found", missing>>,
                       <<"state not confirmed", unreported>>, <<praise, all>>>>
           says(i) == claims[i][1]
           about(i) == claims[i][2]
<1>1. DOMAIN claims = 1 .. 8 OBVIOUS
<1>2. /\ says(1) = "some restricted" /\ about(1) = mixed /\ says(2) = "under repair" /\ about(2) = repaired
      /\ says(3) = "out of use" /\ about(3) = out /\ says(4) = "not confirmed" /\ about(4) = unread
  OBVIOUS
<1>3. /\ says(5) = "outside coverage" /\ about(5) = outside /\ says(6) = "not found" /\ about(6) = missing
      /\ says(7) = "state not confirmed" /\ about(7) = unreported /\ says(8) = praise /\ about(8) = all
  OBVIOUS
<1> HIDE DEF claims
<1>4. claims[8][2] # {} BY <1>3, Zenon
<1>5. PICK i \in 1 .. 8 : /\ FirstClaim(claims) = claims[i] /\ claims[i][2] # {}
                          /\ \A j \in 1 .. i - 1 : claims[j][2] = {}
  <2>1. 8 \in Nat /\ 8 \in 1 .. 8 OBVIOUS
  <2> QED BY <1>1, <1>4, <2>1, FirstClaimIs
<1>6. /\ FirstClaim(claims)[1] = says(i) /\ about(i) # {}
      /\ \A j \in 1 .. i - 1 : about(j) = {}
  BY <1>5, Zenon
<1> HIDE DEF says, about
<1>7. FirstClaim(claims)[1] =
         IF mixed # {} THEN "some restricted" ELSE IF repaired # {} THEN "under repair"
         ELSE IF out # {} THEN "out of use" ELSE IF unread # {} THEN "not confirmed"
         ELSE IF outside # {} THEN "outside coverage" ELSE IF missing # {} THEN "not found"
         ELSE IF unreported # {} THEN "state not confirmed" ELSE praise
  <2>1. CASE i = 1 BY <1>2, <1>6, <2>1
  <2>2. CASE i = 2
    <3>1. about(1) = {} BY <1>6, <2>2
    <3> QED BY <1>2, <1>6, <2>2, <3>1
  <2>3. CASE i = 3
    <3>1. about(1) = {} /\ about(2) = {} BY <1>6, <2>3
    <3> QED BY <1>2, <1>6, <2>3, <3>1
  <2>4. CASE i \in 4 .. 8
    <3>1. about(1) = {} /\ about(2) = {} /\ about(3) = {} BY <1>6, <2>4
    <3>2. i # 4 => about(4) = {} BY <1>6, <2>4
    <3>3. i \notin {4, 5} => about(5) = {} BY <1>6, <2>4
    <3>4. i \in {7, 8} => about(6) = {} BY <1>6, <2>4
    <3>5. i = 8 => about(7) = {} BY <1>6
    <3>6. mixed = {} /\ repaired = {} /\ out = {} BY <1>2, <3>1, Zenon
    <3>7. CASE i = 4
      <4>1. FirstClaim(claims)[1] = "not confirmed" /\ unread # {} BY <1>2, <1>6, <3>7, Zenon
      <4> QED BY <3>6, <4>1, Zenon
    <3>8. CASE i = 5
      <4>1. about(4) = {} BY <3>2, <3>8
      <4>2. FirstClaim(claims)[1] = "outside coverage" /\ outside # {} /\ unread = {}
        BY <1>2, <1>3, <1>6, <3>8, <4>1, Zenon
      <4> QED BY <3>6, <4>2, Zenon
    <3>9. CASE i = 6
      <4>1. about(4) = {} /\ about(5) = {} BY <3>2, <3>3, <3>9
      <4>2. FirstClaim(claims)[1] = "not found" /\ missing # {} /\ unread = {} /\ outside = {}
        BY <1>2, <1>3, <1>6, <3>9, <4>1, Zenon
      <4> QED BY <3>6, <4>2, Zenon
    <3>10. CASE i = 7
      <4>1. about(4) = {} /\ about(5) = {} /\ about(6) = {} BY <3>2, <3>3, <3>4, <3>10
      <4>2. /\ FirstClaim(claims)[1] = "state not confirmed" /\ unreported # {}
            /\ unread = {} /\ outside = {} /\ missing = {}
        BY <1>2, <1>3, <1>6, <3>10, <4>1, Zenon
      <4> QED BY <3>6, <4>2, Zenon
    <3>11. CASE i = 8
      <4>1. about(4) = {} /\ about(5) = {} /\ about(6) = {} /\ about(7) = {} BY <3>2, <3>3, <3>4, <3>5, <3>11
      <4>2. /\ FirstClaim(claims)[1] = praise
            /\ unread = {} /\ outside = {} /\ missing = {} /\ unreported = {}
        BY <1>2, <1>3, <1>6, <3>11, <4>1, Zenon
      <4> QED BY <3>6, <4>2, Zenon
    <3>12. i \in {4, 5, 6, 7, 8} BY <2>4
    <3> QED BY <3>7, <3>8, <3>9, <3>10, <3>11, <3>12, Zenon
  <2>5. i = 1 \/ i = 2 \/ i = 3 \/ i \in 4 .. 8 OBVIOUS
  <2> QED BY <2>1, <2>2, <2>3, <2>4, <2>5, Zenon
<1> QED BY <1>7 DEF claims, Claims, Claimed

\* What the title claims of the states.
StateOf(t) == FacilityState(t, reads[t])

TitleSays(claim) ==
    /\ claim \in Praise => Result.status # "FAILED" /\ \A t \in DOMAIN reads : StateOf(t) = "AVAILABLE"
    /\ claim = "all run" => /\ DOMAIN reads = {Elevator}
                            /\ \A row \in Range(DisplayRows(Elevator, reads[Elevator].value)) : row.status # "UNREPORTED"
    /\ claim = "some restricted" => \E t \in DOMAIN reads : StateOf(t) = "MIXED"
    /\ claim = "under repair" => \E t \in DOMAIN reads : StateOf(t) = "MAINTENANCE"
    /\ claim = "out of use" => \E t \in DOMAIN reads : StateOf(t) = "UNAVAILABLE"
    /\ Result.status # "FAILED" /\ (\E t \in DOMAIN reads : StateOf(t) \in {"MIXED", "MAINTENANCE", "UNAVAILABLE"})
          => claim \in Trouble

\* What the title of the answer rests on.
LEMMA TitleTells ==
    ASSUME IInv, answer.kind \in {"facilities", "alternatives"}
    PROVE  TitleSays(Title(Result)[1])
<1> DEFINE r == Result
           having(state) == {t \in DOMAIN r.items : r.items[t].state = state}
           unknown(empty) == {t \in having("UNKNOWN") : (r.items[t].facilities = {}) = empty}
           onlyElevators == DOMAIN r.items = {Elevator}
           unreported == onlyElevators /\ \E row \in Range(DisplayRows(Elevator, r.items[Elevator].facilities)) :
                                             row.status = "UNREPORTED"
           praise == CASE unreported -> "the known ones run" [] onlyElevators /\ ~unreported -> "all run"
                       [] OTHER -> "can be used"
           claims == <<<<"some restricted", having("MIXED")>>, <<"under repair", having("MAINTENANCE")>>,
                       <<"out of use", having("UNAVAILABLE")>>, <<"not confirmed", unknown(TRUE)>>,
                       <<"outside coverage", having("UNSUPPORTED")>>, <<"not found", having("NOT_FOUND")>>,
                       <<"state not confirmed", unknown(FALSE)>>, <<praise, DOMAIN r.items>>>>
<1>1. Title(r) = IF r.status = "FAILED" \/ r.items = <<>> THEN <<"not confirmed", {}>> ELSE FirstClaim(claims)
  BY DEF Title
<1>2. /\ DOMAIN r.items = DOMAIN reads /\ DOMAIN reads # {}
      /\ \A t \in DOMAIN reads : r.items[t].state = StateOf(t) /\ r.items[t].facilities = reads[t].value
  BY ResultParts, AnsweredFromReads DEF StateOf
<1>3. r.items # <<>> BY <1>2
<1>4. \A t \in DOMAIN reads : StateOf(t) \in FacilityStatus \cup {"MIXED", "UNSUPPORTED", "NOT_FOUND"}
  BY AnsweredFromReads, StateTells DEF StateSays, StateOf
<1>5. \A state : having(state) = {t \in DOMAIN reads : StateOf(t) = state} BY <1>2
<1>6. having("UNKNOWN") = unknown(TRUE) \cup unknown(FALSE)
  <2>1. \A t : (r.items[t].facilities = {}) = TRUE \/ (r.items[t].facilities = {}) = FALSE BY Zenon
  <2> QED BY <2>1, Zenon
<1>7. praise \in Praise /\ (praise = "all run" => onlyElevators /\ ~unreported) BY DEF Praise
<1>8. praise = "all run" => /\ DOMAIN reads = {Elevator}
                            /\ \A row \in Range(DisplayRows(Elevator, reads[Elevator].value)) : row.status # "UNREPORTED"
  <2>1. ASSUME praise = "all run" PROVE DOMAIN reads = {Elevator} /\ ~unreported BY <1>2, <1>7, <2>1
  <2>2. ASSUME DOMAIN reads = {Elevator}
        PROVE  unreported <=> \E row \in Range(DisplayRows(Elevator, reads[Elevator].value)) : row.status = "UNREPORTED"
    <3>1. r.items[Elevator].facilities = reads[Elevator].value BY <1>2, <2>2
    <3>2. onlyElevators BY <1>2, <2>2
    <3> QED BY <3>1, <3>2
  <2> HIDE DEF unreported, praise
  <2> QED BY <2>1, <2>2
<1>9. CASE r.status = "FAILED"
  <2>1. Title(r) = <<"not confirmed", {}>> BY <1>1, <1>9
  <2>2. Title(r)[1] = "not confirmed"
    <3>1. \A x : <<"not confirmed", x>>[1] = "not confirmed" OBVIOUS
    <3> HIDE DEF r
    <3> QED BY <2>1, <3>1, Zenon
  <2> HIDE DEF claims, praise, r
  <2> QED BY <1>9, <2>2 DEF TitleSays, Praise, r
<1>10. CASE r.status # "FAILED"
  <2> DEFINE claim == Title(r)[1]
  <2>1. Title(r) = FirstClaim(claims) BY <1>1, <1>3, <1>10
  <2>2. claim = IF having("MIXED") # {} THEN "some restricted" ELSE IF having("MAINTENANCE") # {} THEN "under repair"
                ELSE IF having("UNAVAILABLE") # {} THEN "out of use" ELSE IF unknown(TRUE) # {} THEN "not confirmed"
                ELSE IF having("UNSUPPORTED") # {} THEN "outside coverage" ELSE IF having("NOT_FOUND") # {} THEN "not found"
                ELSE IF unknown(FALSE) # {} THEN "state not confirmed" ELSE praise
    <3>1. DOMAIN r.items # {} BY <1>2
    <3> HIDE DEF having, unknown, praise, r
    <3>2. claims = Claims(having("MIXED"), having("MAINTENANCE"), having("UNAVAILABLE"), unknown(TRUE),
                          having("UNSUPPORTED"), having("NOT_FOUND"), unknown(FALSE), praise, DOMAIN r.items)
      BY DEF Claims
    <3> HIDE DEF claims
    <3>3. FirstClaim(claims)[1] = Claimed(having("MIXED"), having("MAINTENANCE"), having("UNAVAILABLE"), unknown(TRUE),
                                          having("UNSUPPORTED"), having("NOT_FOUND"), unknown(FALSE), praise)
      BY <3>1, <3>2, ClaimsTell, Zenon
    <3>4. FirstClaim(claims)[1] =
             IF having("MIXED") # {} THEN "some restricted" ELSE IF having("MAINTENANCE") # {} THEN "under repair"
             ELSE IF having("UNAVAILABLE") # {} THEN "out of use" ELSE IF unknown(TRUE) # {} THEN "not confirmed"
             ELSE IF having("UNSUPPORTED") # {} THEN "outside coverage" ELSE IF having("NOT_FOUND") # {} THEN "not found"
             ELSE IF unknown(FALSE) # {} THEN "state not confirmed" ELSE praise
      BY <3>3 DEF Claimed
    <3> QED BY <2>1, <3>4, Zenon
  <2>3. \A state : having(state) = {} <=> \A t \in DOMAIN reads : StateOf(t) # state BY <1>5
  <2>4. having("UNKNOWN") = {} <=> unknown(TRUE) = {} /\ unknown(FALSE) = {} BY <1>6
  <2>5. r.status = Result.status OBVIOUS
  <2> HIDE DEF claims, praise, r, having, unknown, claim
  <2>6. ASSUME claim \in Praise PROVE \A t \in DOMAIN reads : StateOf(t) = "AVAILABLE"
    <3>1. /\ having("MIXED") = {} /\ having("MAINTENANCE") = {} /\ having("UNAVAILABLE") = {}
          /\ unknown(TRUE) = {} /\ having("UNSUPPORTED") = {} /\ having("NOT_FOUND") = {} /\ unknown(FALSE) = {}
      BY <2>2, <2>6 DEF Praise
    <3> QED BY <1>4, <2>3, <2>4, <3>1 DEF FacilityStatus
  <2>7. claim \in Praise => claim = praise BY <2>2 DEF Praise
  <2>8. claim = "all run" => praise = "all run" BY <2>7 DEF Praise
  <2>9. /\ claim = "some restricted" => \E t \in DOMAIN reads : StateOf(t) = "MIXED"
        /\ claim = "under repair" => \E t \in DOMAIN reads : StateOf(t) = "MAINTENANCE"
        /\ claim = "out of use" => \E t \in DOMAIN reads : StateOf(t) = "UNAVAILABLE"
    BY <1>7, <2>2, <2>3 DEF Praise
  <2>10. (\E t \in DOMAIN reads : StateOf(t) \in {"MIXED", "MAINTENANCE", "UNAVAILABLE"}) => claim \in Trouble
    BY <2>2, <2>3 DEF Trouble
  <2>11. TitleSays(claim) BY <1>8, <1>10, <2>5, <2>6, <2>8, <2>9, <2>10 DEF TitleSays
  <2> QED BY <2>11 DEF claim, r
<1> QED BY <1>9, <1>10

-----------------------------------------------------------------------------
(* What the answers say of the facilities. *)

\* The table lists the rows of both kinds, as far as they are there.
Listed ==
    LET rowsOf(t) == IF t \in DOMAIN Result.items THEN DisplayRows(t, Result.items[t].facilities) ELSE <<>>
    IN  rowsOf(Elevator) \o rowsOf(AccessibleRestroom)

AllRows == UNION {{Row(f) : f \in reads[t].value} : t \in DOMAIN reads}

\* The rows of the table before its cut: some row of each facility, elevators first.
LEMMA ListedRows ==
    ASSUME IInv, answer.kind \in {"facilities", "alternatives"}
    PROVE  /\ Listed \in Seq(AllRows)
           /\ \A t \in DOMAIN reads : \A f \in (IF t = Elevator THEN Operational(reads[t].value) ELSE reads[t].value) :
                 Row(f) \in Range(Listed)
           /\ DOMAIN reads = {Elevator} => Range(Listed) = Range(DisplayRows(Elevator, reads[Elevator].value))
<1> DEFINE rowsOf(t) == IF t \in DOMAIN reads THEN DisplayRows(t, reads[t].value) ELSE <<>>
           first(t) == IF t = Elevator THEN Operational(reads[t].value) ELSE reads[t].value
<1>1. Listed = rowsOf(Elevator) \o rowsOf(AccessibleRestroom)
  <2>1. DOMAIN Result.items = DOMAIN reads /\ \A t \in DOMAIN reads : Result.items[t].facilities = reads[t].value
    BY ResultParts
  <2> QED BY <2>1 DEF Listed
<1>2. ASSUME NEW t PROVE /\ rowsOf(t) \in Seq(AllRows)
                         /\ t \in DOMAIN reads => \A f \in first(t) : Row(f) \in Range(rowsOf(t))
  <2>1. CASE t \notin DOMAIN reads BY <2>1
  <2>2. CASE t \in DOMAIN reads
    <3> DEFINE R == {Row(f) : f \in reads[t].value}
    <3>1. IsFiniteSet(reads[t].value) BY <2>2, AnsweredFromReads DEF ReadSays
    <3>2. DisplayRows(t, reads[t].value) \in Seq(R) /\ \A f \in first(t) : Row(f) \in Range(DisplayRows(t, reads[t].value))
      BY <3>1, RowsAre
    <3>3. R \subseteq AllRows BY <2>2 DEF AllRows
    <3> HIDE DEF R, first
    <3>4. DisplayRows(t, reads[t].value) \in Seq(AllRows) BY <3>2, <3>3
    <3> QED BY <2>2, <3>2, <3>4
  <2> QED BY <2>1, <2>2
<1>3. DOMAIN reads \subseteq {Elevator, AccessibleRestroom} BY AnsweredFromReads
<1>4. ~(AccessibleRestroom \in {Elevator}) BY DEF Elevator, AccessibleRestroom
<1>5. ASSUME DOMAIN reads = {Elevator}
      PROVE  rowsOf(AccessibleRestroom) = <<>> /\ rowsOf(Elevator) = DisplayRows(Elevator, reads[Elevator].value)
  BY <1>4, <1>5
<1>6. Range(<<>>) = {} BY DEF Range
<1> HIDE DEF rowsOf, first
<1>7. /\ Listed \in Seq(AllRows)
      /\ Range(Listed) = Range(rowsOf(Elevator)) \cup Range(rowsOf(AccessibleRestroom))
  BY <1>1, <1>2, RangeConcat
<1>8. \A t \in DOMAIN reads : \A f \in first(t) : Row(f) \in Range(Listed) BY <1>2, <1>3, <1>7
<1> QED BY <1>5, <1>6, <1>7, <1>8 DEF first

\* What the states of one lookup say of the facilities in it.
LEMMA ReadTells ==
    ASSUME IInv, answer.kind \in {"facilities", "alternatives"}, NEW t \in DOMAIN reads
    PROVE  StateSays(StateOf(t), reads[t].value) /\ t \in {Elevator, AccessibleRestroom}
<1>1. ReadSays(reads[t], t) /\ t \in {Elevator, AccessibleRestroom} BY AnsweredFromReads
<1> QED BY <1>1, StateTells DEF StateOf

\* In the invariant, a row out of service is told.
LEMMA TroubleTold == IInv => TroubleIsTold
<1> SUFFICES ASSUME IInv, answer.kind = "facilities", Result.status # "FAILED",
                    NEW t \in DOMAIN reads, NEW f \in reads[t].value, DisplayStatus(f) \in Blocked
             PROVE  Said.title[1] \in Trouble /\ (Row(f) \in Said.table.rows \/ Said.table.omitted > 0)
  BY DEF TroubleIsTold
<1>1. Said.title = Title(Result) /\ Said.table = FacilityTable(Result) BY AnsweredFromReads DEF FacilityMessage
<1>2. Said.title[1] \in Trouble
  <2>1. StateSays(StateOf(t), reads[t].value) BY ReadTells
  <2>2. StateOf(t) \in {"MIXED", "MAINTENANCE", "UNAVAILABLE"} BY <2>1 DEF StateSays, Blocked
  <2>3. TitleSays(Title(Result)[1]) BY TitleTells
  <2> QED BY <1>1, <2>2, <2>3 DEF TitleSays
<1>3. Row(f) \in Range(Listed)
  <2>1. f.type = t BY AnsweredFromReads DEF ReadSays
  <2>2. t = Elevator => f \in Operational(reads[t].value) BY <2>1 DEF DisplayStatus, Blocked, Operational
  <2> QED BY <2>2, ListedRows
<1>4. /\ Range(FirstOf(Listed, MaxRows)) \subseteq Said.table.rows
      /\ Said.table.omitted = Len(Listed) - Len(FirstOf(Listed, MaxRows))
  BY <1>1 DEF FacilityTable, Listed
<1>5. /\ Len(FirstOf(Listed, MaxRows)) <= Len(Listed) /\ Len(FirstOf(Listed, MaxRows)) \in Nat
      /\ Len(FirstOf(Listed, MaxRows)) = Len(Listed) => FirstOf(Listed, MaxRows) = Listed
  <2>1. MaxRows \in Nat \ {0} /\ Listed \in Seq(AllRows) BY RowAssumption, ListedRows
  <2> QED BY <2>1, FirstOfIs
<1>6. Len(Listed) \in Nat BY ListedRows
<1>7. CASE Len(FirstOf(Listed, MaxRows)) = Len(Listed) BY <1>2, <1>3, <1>4, <1>5, <1>7
<1>8. CASE Len(FirstOf(Listed, MaxRows)) # Len(Listed) BY <1>2, <1>4, <1>5, <1>6, <1>8
<1> QED BY <1>7, <1>8

\* In the invariant, what is said to run is known to.
LEMMA PraiseKnown == IInv => AllRunIsKnown
<1> SUFFICES ASSUME IInv, answer.kind = "facilities", Said.title[1] \in Praise
             PROVE  /\ \A t \in DOMAIN reads :
                          LET seen == {DisplayStatus(f) : f \in reads[t].value}
                          IN  "AVAILABLE" \in seen /\ seen \subseteq {"AVAILABLE", "UNREPORTED"}
                    /\ Said.title[1] = "all run" => \A row \in Said.table.rows : row.status = "AVAILABLE"
  BY DEF AllRunIsKnown
<1>1. Said.title = Title(Result) /\ Said.table = FacilityTable(Result) BY AnsweredFromReads DEF FacilityMessage
<1>2. TitleSays(Said.title[1]) BY <1>1, TitleTells
<1>3. ASSUME NEW t \in DOMAIN reads
      PROVE  /\ \E f \in reads[t].value : DisplayStatus(f) = "AVAILABLE"
             /\ \A f \in reads[t].value : DisplayStatus(f) \in {"AVAILABLE", "UNREPORTED"}
  <2>1. StateOf(t) = "AVAILABLE" BY <1>2 DEF TitleSays
  <2>2. StateSays(StateOf(t), reads[t].value) BY ReadTells
  <2> QED BY <2>1, <2>2 DEF StateSays
<1>4. ASSUME Said.title[1] = "all run", NEW row \in Said.table.rows PROVE row.status = "AVAILABLE"
  <2>1. /\ DOMAIN reads = {Elevator}
        /\ \A r \in Range(DisplayRows(Elevator, reads[Elevator].value)) : r.status # "UNREPORTED"
    BY <1>2, <1>4 DEF TitleSays
  <2>2. Said.table.rows = Range(FirstOf(Listed, MaxRows))
           \cup {EmptyRow(t, Result.items[t].state) : t \in {t \in DOMAIN Result.items : Result.items[t].facilities = {}}}
    BY <1>1 DEF FacilityTable, Listed
  <2>3. \A t \in DOMAIN Result.items : Result.items[t].facilities # {}
    <3>1. DOMAIN Result.items = DOMAIN reads /\ \A t \in DOMAIN reads : Result.items[t].facilities = reads[t].value
      BY ResultParts
    <3> QED BY <1>3, <3>1
  <2>4. row \in Range(FirstOf(Listed, MaxRows)) BY <1>4, <2>2, <2>3
  <2>5. row \in Range(Listed)
    <3>1. MaxRows \in Nat \ {0} /\ Listed \in Seq(AllRows) BY RowAssumption, ListedRows
    <3> QED BY <2>4, <3>1, FirstOfIs
  <2>6. row.status # "UNREPORTED" BY <2>1, <2>5, ListedRows
  <2>7. row \in AllRows
    <3>1. Listed \in Seq(AllRows) BY ListedRows
    <3> QED BY <2>5, <3>1 DEF Range
  <2>8. PICK t \in DOMAIN reads : \E f \in reads[t].value : row = Row(f) BY <2>7 DEF AllRows
  <2>9. PICK f \in reads[t].value : row = Row(f) BY <2>8
  <2>10. row.status = DisplayStatus(f) BY <2>9 DEF Row
  <2> QED BY <1>3, <2>6, <2>10
<1> QED BY <1>3, <1>4

\* StatesAreTold of Questions: what was reported of the facilities is told in
\* the title and in the table, however many there are.
THEOREM StatesToldTruly == Spec => []StatesAreTold
<1>1. IInv => StatesAreTold BY TroubleTold, PraiseKnown DEF StatesAreTold
<1> QED BY <1>1, QuestionsInvariant, PTL

\* AlternativeAgrees of Questions: the verdict for who wants another facility
\* and the title for who asks for those of the station do not contradict each
\* other.
THEOREM AlternativesToldTruly == Spec => []AlternativeAgrees
<1>1. ASSUME IInv, answer.kind = "alternatives"
      PROVE  LET title == Title(Result)[1]
             IN  /\ Said.verdict = "nothing is broken" => title \notin {"under repair", "out of use"}
                 /\ Said.verdict \in {"nothing is broken", "others can be used"} =>
                       \E f \in AllFacilities(Result) : f \in Said.offered /\ f.status = "AVAILABLE" /\ f.place # NoText
                 /\ title \in Trouble => \/ Said.verdict # "nothing is broken"
                                          \/ \E f \in AllFacilities(Result) : f.status = "UNKNOWN"
                 /\ title \in Praise => \/ Said.verdict = "nothing is broken"
                                        \/ \A f \in AllFacilities(Result) : DisplayStatus(f) # "UNREPORTED" => f.place = NoText
                                        \/ \E f \in BlockedAt(Result) : DisplayStatus(f) = "UNREPORTED"
  <2> DEFINE title == Title(Result)[1]
             all == AllFacilities(Result)
             offered == Offered(Result)
  <2>1. answer.kind \in {"facilities", "alternatives"} BY <1>1
  <2>2. TitleSays(title) BY <1>1, <2>1, TitleTells
  <2>3. all = UNION {reads[t].value : t \in DOMAIN reads}
    <3>1. DOMAIN Result.items = DOMAIN reads /\ \A t \in DOMAIN reads : Result.items[t].facilities = reads[t].value
      BY <1>1, <2>1, ResultParts
    <3> QED BY <3>1 DEF AllFacilities
  <2>4. /\ Said.verdict = CASE Result.status = "FAILED" -> "cannot tell"
                            [] Result.status # "FAILED" /\ offered # {} ->
                                  IF BlockedAt(Result) # {} THEN "others can be used" ELSE "nothing is broken"
                            [] OTHER -> "no alternative"
        /\ Said.offered = Range(FirstOf(SetToSeq(offered), MaxAlternatives))
    <3>1. Said = AlternativeMessage(Result) BY <1>1, AnsweredFromReads
    <3>2. Said.verdict = AlternativeVerdict(Result) BY <3>1 DEF AlternativeMessage
    <3>3. Said.offered = Range(FirstOf(SetToSeq(offered), MaxAlternatives)) BY <3>1 DEF AlternativeMessage
    <3> QED BY <3>2, <3>3 DEF AlternativeVerdict
  <2>5. /\ Said.verdict = "nothing is broken" => BlockedAt(Result) = {} /\ offered # {}
        /\ Said.verdict = "others can be used" => BlockedAt(Result) # {} /\ offered # {}
        /\ Result.status # "FAILED" /\ offered # {} => Said.verdict \in {"nothing is broken", "others can be used"}
    BY <2>4
  <2>6. \A t \in DOMAIN reads : StateSays(StateOf(t), reads[t].value) BY <1>1, <2>1, ReadTells
  <2>7. \A f \in all : f.status \in FacilityStatus BY <1>1, <2>1, <2>3, AnsweredFromReads DEF ReadSays
  <2>8. BlockedAt(Result) = {f \in all : f.status \in Blocked} BY DEF BlockedAt
  <2>9. offered = {f \in all : f.status = "AVAILABLE" /\ f.place # NoText} BY DEF Offered
  <2>10. IsFiniteSet(offered)
    <3>1. DOMAIN reads \subseteq {Elevator, AccessibleRestroom} BY <1>1, <2>1, AnsweredFromReads
    <3>2. \A t \in DOMAIN reads : IsFiniteSet(reads[t].value) BY <1>1, <2>1, AnsweredFromReads DEF ReadSays
    <3> DEFINE at(t) == IF t \in DOMAIN reads THEN reads[t].value ELSE {}
    <3>3. \A t : IsFiniteSet(at(t)) BY <3>2, FS_EmptySet
    <3>4. all = at(Elevator) \cup at(AccessibleRestroom) BY <2>3, <3>1
    <3> HIDE DEF at, all
    <3>5. IsFiniteSet(all) BY <3>3, <3>4, FS_Union
    <3>6. offered \subseteq all BY <2>9
    <3> HIDE DEF offered
    <3> QED BY <3>5, <3>6, FS_Subset
  <2> HIDE DEF title, all, offered
  <2>11. ASSUME offered # {} PROVE \E f \in all : f \in Said.offered /\ f.status = "AVAILABLE" /\ f.place # NoText
    <3>1. SetToSeq(offered) \in Seq(offered) /\ Range(SetToSeq(offered)) = offered BY <2>10, SetToSeqIs
    <3>2. MaxAlternatives \in Nat \ {0} BY RowAssumption
    <3> DEFINE items == SetToSeq(offered)
               first == FirstOf(items, MaxAlternatives)
    <3> HIDE DEF items
    <3>3. items \in Seq(offered) /\ Range(items) = offered BY <3>1 DEF items
    <3>4. Range(first) \subseteq offered /\ Range(first) # {} BY <2>11, <3>2, <3>3, FirstOfIs
    <3> HIDE DEF first
    <3>5. Said.offered = Range(first) BY <2>4 DEF first, items
    <3>6. Said.offered \subseteq offered /\ Said.offered # {} BY <3>4, <3>5
    <3> QED BY <2>9, <3>6
  <2>12. ASSUME NEW t \in DOMAIN reads, StateOf(t) \in {"MAINTENANCE", "UNAVAILABLE"} PROVE BlockedAt(Result) # {}
    <3>1. PICK f \in reads[t].value : DisplayStatus(f) = StateOf(t) BY <2>6, <2>12 DEF StateSays
    <3>2. DisplayStatus(f) \in {"UNREPORTED", f.status} BY <2>6 DEF StateSays
    <3>3. f.status \in Blocked BY <2>12, <3>1, <3>2 DEF Blocked
    <3> QED BY <2>3, <2>8, <3>3
  <2>13. ASSUME NEW t \in DOMAIN reads, StateOf(t) = "MIXED"
         PROVE  BlockedAt(Result) # {} \/ \E f \in all : f.status = "UNKNOWN"
    <3>1. PICK f \in reads[t].value : DisplayStatus(f) \in FacilityStatus \ {"AVAILABLE"} BY <2>6, <2>13 DEF StateSays
    <3>2. DisplayStatus(f) \in {"UNREPORTED", f.status} BY <2>6 DEF StateSays
    <3>3. f.status \in FacilityStatus \ {"AVAILABLE"} BY <3>1, <3>2 DEF FacilityStatus
    <3> QED BY <2>3, <2>8, <3>3 DEF FacilityStatus, Blocked
  <2>14. title \in {"under repair", "out of use"} => BlockedAt(Result) # {}
    BY <2>2, <2>12 DEF TitleSays
  <2>15. title \in Trouble => BlockedAt(Result) # {} \/ \E f \in all : f.status = "UNKNOWN"
    BY <2>2, <2>12, <2>13 DEF TitleSays, Trouble
  <2>16. ASSUME title \in Praise, NEW f \in all, DisplayStatus(f) # "UNREPORTED", f.place # NoText
         PROVE  \/ Said.verdict = "nothing is broken"
                \/ \E g \in BlockedAt(Result) : DisplayStatus(g) = "UNREPORTED"
    <3>1. /\ Result.status # "FAILED" /\ \A t \in DOMAIN reads : StateOf(t) = "AVAILABLE" BY <2>2, <2>16 DEF TitleSays
    <3>2. \A g \in all : DisplayStatus(g) \in {"UNREPORTED", "AVAILABLE"} /\ DisplayStatus(g) \in {"UNREPORTED", g.status}
      BY <2>3, <2>6, <3>1 DEF StateSays
    <3>3. f \in offered BY <2>9, <2>16, <3>2
    <3>4. CASE BlockedAt(Result) = {} BY <2>5, <3>1, <3>3, <3>4
    <3>5. ASSUME NEW g \in BlockedAt(Result) PROVE DisplayStatus(g) = "UNREPORTED"
      BY <2>8, <3>2, <3>5 DEF Blocked
    <3> QED BY <3>4, <3>5
  <2> QED BY <2>5, <2>11, <2>14, <2>15, <2>16 DEF title, all
<1>2. IInv => AlternativeAgrees BY <1>1 DEF AlternativeAgrees
<1> QED BY <1>2, QuestionsInvariant, PTL

-----------------------------------------------------------------------------
(* What is not asked again. *)

TripNamed == ContextPlaces = <<>> /\ Len(Mentions) = 2 /\ ~Says({"current route"})
StationNamed == ContextPlaces = <<>> /\ Len(Mentions) = 1 /\ AboutStation /\ FacilityTypesAsked # {}

\* All but the lines is said.
LinesOnly == StationNamed \/ (TripNamed /\ MobilityKnown)

\* What is asked for is said, so that it can not be asked for again.
Settled(asked) ==
    \/ /\ asked.what = "place" /\ asked.about # NoPlace
       /\ \A i \in DOMAIN question.spans : question.spans[i].place # asked.about
    \/ asked.what = "mobility" /\ Says({"wheelchair", "cane"})
    \/ asked.what \in {"facility", "accessible restroom"} /\ Says({"elevator", "accessible restroom"})
    \/ asked.what = "station" /\ StationNamed
    \/ asked.what = "route" /\ TripNamed
    \/ /\ asked.what = "line" /\ LinesOnly
       /\ \A i \in StationSpans : asked.about = NoQuery \/ asked.about[1] = question.spans[i].station =>
             ~NeedsClarification(QueryOf(i))

\* What is not known of the lines is a line of some station that is named.
LEMMA LineAsked ==
    ASSUME question.spans \in Seq(TextSpan), ContextPlaces = <<>>,
           ClarificationReason \in {"ambiguous_station", "station_line_mismatch"}
    PROVE  /\ LinesOnly
           /\ \E i \in StationSpans : NeedsClarification(QueryOf(i)) /\ UnclearStation \in {NoQuery, QueryOf(i)}
<1> DEFINE named == {Target, End(1), End(2)}
<1>1. \A query \in named : query # NoQuery => \E i \in StationSpans : query = QueryOf(i)
  <2>1. SUFFICES ASSUME NEW query \in named, query # NoQuery PROVE \E i \in StationSpans : query = QueryOf(i)
    OBVIOUS
  <2>2. \E n \in 1 .. Len(Mentions) : query = Mentions[n]
    <3>1. Target # NoQuery => Target = Mentions[1] /\ Len(Mentions) = 1 BY DEF Target
    <3>2. \A n \in {1, 2} : End(n) # NoQuery => End(n) = Mentions[n] /\ Len(Mentions) = 2 BY DEF End
    <3> QED BY <2>1, <3>1, <3>2
  <2>3. PICK i \in Spans : query = QueryOf(i) BY <2>2, MentionsAre
  <2>4. i \in StationSpans BY PlacesAre DEF Spans
  <2> QED BY <2>3, <2>4
<1>2. \E query \in named : query # NoQuery /\ NeedsClarification(query) BY ReasonRests
<1>3. UnclearStation # NoQuery => UnclearStation \in named /\ NeedsClarification(UnclearStation)
  <2> DEFINE queries == IF IsFacilityQuestion THEN <<Target>> ELSE <<End(1), End(2)>>
             unclear == {i \in DOMAIN queries : queries[i] # NoQuery /\ NeedsClarification(queries[i])}
  <2>1. UnclearStation = IF unclear = {} THEN NoQuery ELSE queries[Min(unclear)] BY DEF UnclearStation
  <2>2. DOMAIN queries \subseteq {1, 2} /\ \A i \in DOMAIN queries : queries[i] \in named OBVIOUS
  <2>3. unclear \subseteq Nat BY <2>2
  <2>4. \A i \in unclear : queries[i] \in named /\ NeedsClarification(queries[i]) BY <2>2
  <2> HIDE DEF queries, unclear
  <2>5. unclear # {} => Min(unclear) \in unclear
    <3>1. unclear # {} => \E x \in unclear : \A y \in unclear : x <= y BY <2>3, NatMin
    <3> QED BY <3>1 DEF Min
  <2> QED BY <2>1, <2>4, <2>5
<1>4. \E i \in StationSpans : NeedsClarification(QueryOf(i)) /\ UnclearStation \in {NoQuery, QueryOf(i)}
  <2>1. CASE UnclearStation = NoQuery BY <1>1, <1>2, <2>1
  <2>2. CASE UnclearStation # NoQuery BY <1>1, <1>3, <2>2
  <2> QED BY <2>1, <2>2
<1>5. LinesOnly
  <2>1. CASE AboutStation
    <3>1. FacilityReason \in {"ambiguous_station", "station_line_mismatch"} BY <2>1, StationReasons
    <3>2. FacilityTypesAsked # {} /\ Target # NoQuery BY <3>1 DEF FacilityReason
    <3>3. Len(Mentions) = 1 BY <3>2 DEF Target
    <3> QED BY <2>1, <3>2, <3>3 DEF LinesOnly, StationNamed
  <2>2. CASE ~AboutStation
    <3>1. /\ AlternativeKind = "ROUTE" \/ (AlternativeKind \notin {"CURRENT_ROUTE", "ROUTE"} /\ Intent = "trip_accessibility")
          /\ \E missing \in {"missing_station", "missing_alternative_route"} : ClarificationReason = EndsReason(missing)
      BY <2>2 DEF ClarificationReason
    <3>2. MobilityKnown /\ NoQuery \notin {End(1), End(2)} BY <3>1 DEF EndsReason
    <3>3. Len(Mentions) = 2 BY <3>2 DEF End
    <3>4. AlternativeKind = "ROUTE" => ~Says({"current route"}) BY DEF AlternativeKind
    <3>5. Intent = "trip_accessibility" => ~Says({"current route"}) BY DEF Intent, Says, AlternativeTerms
    <3> QED BY <3>1, <3>2, <3>3, <3>4, <3>5 DEF LinesOnly, TripNamed
  <2> QED BY <2>1, <2>2
<1> QED BY <1>4, <1>5

\* Every station that the parser finds is registered.
LEMMA NoneOutside ==
    ASSUME question.spans \in Seq(TextSpan)
    PROVE  ClarificationReason # "station_not_in_coverage"
<1>1. \A query \in StationQuery : ~OutsideRegistry(query)
  <2>1. SUFFICES ASSUME NEW query \in StationQuery PROVE ~OutsideRegistry(query) OBVIOUS
  <2>2. query[1] \in Station BY DEF StationQuery
  <2> QED BY <2>2, RegisteredAssumption DEF OutsideRegistry
<1>2. \A query \in {Target, End(1), End(2)} : query # NoQuery => query \in StationQuery
  <2>1. Target # NoQuery => Target = Mentions[1] /\ Len(Mentions) = 1 BY DEF Target
  <2>2. \A n \in {1, 2} : End(n) # NoQuery => End(n) = Mentions[n] /\ Len(Mentions) = 2 BY DEF End
  <2> QED BY <2>1, <2>2, MentionsAre
<1>3. \A queries : ContextReason(queries) # "station_not_in_coverage" BY DEF ContextReason
<1>4. FacilityReason # "station_not_in_coverage" BY <1>1, <1>2, <1>3 DEF FacilityReason
<1>5. \A missing \in {"missing_station", "missing_alternative_route"} : EndsReason(missing) # "station_not_in_coverage"
  BY <1>1, <1>2, <1>3 DEF EndsReason
<1> QED BY <1>4, <1>5 DEF ClarificationReason

\* What ShownQuestion asks for, by its reason.
LEMMA ShownIs ==
    /\ ContextPlaces # <<>> => ShownQuestion = [what |-> "place", about |-> FirstPlace]
    /\ ContextPlaces = <<>> =>
          LET R == ClarificationReason
              what == ShownQuestion.what
          IN  /\ what = "accessible restroom" <=> R = "accessible_restroom_confirmation"
              /\ what = "facility" <=> R = "missing_facility_type"
              /\ what = "station" <=> R = "missing_facility_station"
              /\ what = "mobility" <=> R = "missing_mobility_profile"
              /\ what = "registered station" <=> R = "station_not_in_coverage"
              /\ what = "line" <=> R \in {"ambiguous_station", "station_line_mismatch"}
              /\ what \in {"accessible restroom", "facility", "station", "mobility", "registered station", "line", "route"}
              /\ what = "line" => ShownQuestion.about = UnclearStation
<1>1. CASE ContextPlaces # <<>> BY <1>1 DEF ShownQuestion
<1>2. CASE ContextPlaces = <<>>
  <2> DEFINE R == ClarificationReason
             unclear == R \in {"ambiguous_station", "station_line_mismatch"}
             what == CASE R = "accessible_restroom_confirmation" -> "accessible restroom"
                       [] R = "missing_facility_type" -> "facility"
                       [] R = "missing_facility_station" -> "station"
                       [] R = "missing_mobility_profile" -> "mobility"
                       [] R = "station_not_in_coverage" -> "registered station"
                       [] unclear -> "line"
                       [] OTHER -> "route"
  <2>1. ShownQuestion = [what |-> what, about |-> IF unclear THEN UnclearStation ELSE NoQuery]
    BY <1>2 DEF ShownQuestion
  <2>2. ShownQuestion.what = what /\ ShownQuestion.about = IF unclear THEN UnclearStation ELSE NoQuery BY <2>1
  <2> HIDE DEF R
  <2> QED BY <1>2, <2>2 DEF R
<1> QED BY <1>1, <1>2

\* What is settled is not what is asked.
LEMMA SettledIsNotAsked ==
    ASSUME question.spans \in Seq(TextSpan), ClarificationReason # "none", NEW asked, Settled(asked)
    PROVE  asked # ShownQuestion
<1> SUFFICES ASSUME asked = ShownQuestion PROVE FALSE OBVIOUS
<1> DEFINE R == ClarificationReason
<1>1. CASE ContextPlaces # <<>>
  <2>1. asked.what = "place" /\ asked.about = FirstPlace
    <3>1. asked = [what |-> "place", about |-> FirstPlace] BY <1>1, ShownIs
    <3> QED BY <3>1
  <2>2. \A i \in DOMAIN question.spans : question.spans[i].place # FirstPlace BY <2>1 DEF Settled
  <2>3. \E i \in DOMAIN question.spans : question.spans[i].place = FirstPlace BY <1>1, PlacesAre
  <2> QED BY <2>2, <2>3
<1>2. CASE ContextPlaces = <<>>
  <2>1. CASE asked.what = "mobility"
    <3>1. ~Says(MobilitySignals) BY <1>2, <2>1, ShownIs, ReasonRests DEF MobilityKnown
    <3>2. Says({"wheelchair", "cane"}) BY <2>1 DEF Settled
    <3> QED BY <3>1, <3>2 DEF Says, MobilitySignals
  <2>2. CASE asked.what \in {"facility", "accessible restroom"}
    <3>1. FacilityReason \in {"accessible_restroom_confirmation", "missing_facility_type"}
      BY <1>2, <2>2, ShownIs, ReasonRests
    <3>2. FacilityTypesAsked = {} BY <3>1 DEF FacilityReason, ContextReason
    <3>3. Says({"elevator", "accessible restroom"}) BY <2>2 DEF Settled
    <3>4. Says(ElevatorWords) \/ Says({"accessible restroom"}) BY <3>3 DEF Says, ElevatorWords
    <3> QED BY <3>2, <3>4, KindsAsked
  <2>3. CASE asked.what = "station"
    <3>1. R = "missing_facility_station" BY <1>2, <2>3, ShownIs
    <3>2. Len(Mentions) = 0 BY <1>2, <3>1, StationAsked
    <3>3. StationNamed BY <2>3 DEF Settled
    <3> QED BY <3>2, <3>3 DEF StationNamed
  <2>4. CASE asked.what = "route"
    <3>1. Len(Mentions) = 2 /\ ~Says({"current route"}) BY <2>4 DEF Settled, TripNamed
    <3>2. R \notin {"accessible_restroom_confirmation", "missing_facility_type", "missing_facility_station",
                    "missing_mobility_profile", "ambiguous_station", "station_line_mismatch",
                    "station_not_in_coverage", "none"}
      BY <1>2, <2>4, ShownIs
    <3> QED BY <1>2, <3>1, <3>2, ReasonRests, RouteAsked
  <2>5. CASE asked.what = "line"
    <3>1. R \in {"ambiguous_station", "station_line_mismatch"} /\ asked.about = UnclearStation BY <1>2, <2>5, ShownIs
    <3>2. PICK i \in StationSpans : NeedsClarification(QueryOf(i)) /\ asked.about \in {NoQuery, QueryOf(i)}
      BY <1>2, <3>1, LineAsked
    <3>3. QueryOf(i) = <<question.spans[i].station, question.spans[i].line>> BY QueryIs DEF Spans
    <3>4. asked.about = NoQuery \/ asked.about[1] = question.spans[i].station BY <3>2, <3>3
    <3> QED BY <2>5, <3>2, <3>4 DEF Settled
  <2>6. asked.what \in {"accessible restroom", "facility", "station", "mobility", "line", "route"}
    BY <1>2, ShownIs, NoneOutside
  <2> QED BY <2>1, <2>2, <2>3, <2>4, <2>5, <2>6
<1> QED BY <1>1, <1>2

-----------------------------------------------------------------------------
(* What asking again keeps. *)

\* A text of stations alone, each named once.
OnlyStations ==
    /\ question.spans \in Seq(TextSpan)
    /\ \A i \in DOMAIN question.spans : /\ question.spans[i].place = NoPlace
                                        /\ question.spans[i].station # NoStation
    /\ \A i, j \in DOMAIN question.spans : question.spans[i].station = question.spans[j].station => i = j

\* Nothing but its stations is mentioned.
LEMMA OnlyMentions == OnlyStations => ContextPlaces = <<>> /\ Len(Mentions) = Len(question.spans)
<1> SUFFICES ASSUME OnlyStations PROVE ContextPlaces = <<>> /\ Len(Mentions) = Len(question.spans) OBVIOUS
<1>1. question.spans \in Seq(TextSpan) BY DEF OnlyStations
<1>2. Len(question.spans) \in Nat /\ DOMAIN question.spans = 1 .. Len(question.spans) BY <1>1
<1>3. PlaceSpans = {} BY DEF OnlyStations, PlaceSpans
<1>4. StationSpans = 1 .. Len(question.spans)
  <2>1. \A i \in DOMAIN question.spans : \A j \in 1 .. i - 1 : j \in DOMAIN question.spans /\ j # i BY <1>2
  <2> QED BY <1>2, <2>1 DEF OnlyStations, StationSpans
<1>5. Spans = 1 .. Len(question.spans) BY <1>3, <1>4 DEF Spans
<1>6. Len(Mentions) = Len(question.spans)
  <2>1. Cardinality(1 .. Len(question.spans)) = Len(question.spans)
    <3>1. \A n \in Nat : Cardinality(1 .. n) = n BY FS_Interval
    <3> QED BY <1>2, <3>1
  <2> QED BY <1>1, <1>5, <2>1, MentionsAre
<1>7. ContextPlaces = <<>>
  <2>1. ContextPlaces = InOrder({}) BY <1>3 DEF ContextPlaces
  <2>2. IsFiniteSet({}) /\ Cardinality({}) = 0 BY FS_EmptySet
  <2>3. InOrder({}) \in [1 .. 0 -> {}] BY <2>2, InOrderIs
  <2> QED BY <2>1, <2>3
<1> QED BY <1>6, <1>7

LEMMA OnlyMentionsNext == (OnlyStations => ContextPlaces = <<>> /\ Len(Mentions) = Len(question.spans))'
BY OnlyMentions, PTL

\* There are as many mentions as there are spans that count.
LEMMA MentionsCountNext == (question.spans \in Seq(TextSpan) => Len(Mentions) = Cardinality(Spans))'
<1>1. question.spans \in Seq(TextSpan) => Len(Mentions) = Cardinality(Spans) BY MentionsAre
<1> QED BY <1>1, PTL

\* A change of nothing but lines keeps what is mentioned.
LEMMA SpansKept ==
    ASSUME question.spans \in Seq(TextSpan), (question.spans \in Seq(TextSpan))',
           DOMAIN question'.spans = DOMAIN question.spans,
           \A i \in DOMAIN question.spans : /\ question'.spans[i].station = question.spans[i].station
                                            /\ question'.spans[i].place = question.spans[i].place
                                            /\ question'.spans[i].longer = question.spans[i].longer
    PROVE  /\ StationSpans' = StationSpans /\ ContextPlaces' = ContextPlaces
           /\ Len(Mentions)' = Len(Mentions)
<1>1. \A i \in DOMAIN question.spans : \A j \in 1 .. i - 1 : j \in DOMAIN question.spans
  <2>1. Len(question.spans) \in Nat /\ DOMAIN question.spans = 1 .. Len(question.spans) OBVIOUS
  <2> QED BY <2>1
<1>2. StationSpans' = StationSpans BY <1>1 DEF StationSpans
<1>3. PlaceSpans' = PlaceSpans BY <1>1 DEF PlaceSpans
<1>4. ContextPlaces' = ContextPlaces
  <2>1. \A i \in PlaceSpans : i \in DOMAIN question.spans BY DEF PlaceSpans
  <2>2. {i \in PlaceSpans' : i \in StationSpans' => question'.spans[i].longer}
           = {i \in PlaceSpans : i \in StationSpans => question.spans[i].longer}
    BY <1>2, <1>3, <2>1
  <2> QED BY <2>2 DEF ContextPlaces
<1>5. Len(Mentions)' = Len(Mentions) BY <1>2, <1>3, MentionsCountNext, MentionsAre DEF Spans
<1> QED BY <1>2, <1>4, <1>5

\* What is asked for rests on the words and on how many are mentioned.
LEMMA WordsKept ==
    ASSUME question'.phrases = question.phrases, Len(Mentions)' = Len(Mentions)
    PROVE  /\ Intent' = Intent /\ AboutStation' = AboutStation
           /\ FacilityTypesAsked' = FacilityTypesAsked /\ MobilityKnown' = MobilityKnown
           /\ \A words : Says(words)' = Says(words)
<1>1. \A words : Says(words)' = Says(words) BY DEF Says
<1>2. FacilityTypesAsked' = FacilityTypesAsked BY <1>1 DEF FacilityTypesAsked
<1>3. Intent' = Intent BY <1>1 DEF Intent
<1>4. AlternativeKind' = AlternativeKind BY <1>1, <1>3 DEF AlternativeKind
<1>5. AboutStation' = AboutStation BY <1>3, <1>4 DEF AboutStation
<1>6. MobilityKnown' = MobilityKnown BY <1>1, <1>2, <1>4 DEF MobilityKnown, ElevatorAlternative
<1> QED BY <1>1, <1>2, <1>3, <1>5, <1>6

\* No reply takes away what was said of the traveller and of the facilities, or
\* brings a place.
LEMMA RepliesKeep ==
    ASSUME question.spans \in Seq(TextSpan), NEW asked, NEW q \in Replies(asked)
    PROVE  /\ \A i \in DOMAIN q.spans :
                 \/ q.spans[i].place = NoPlace
                 \/ \E j \in DOMAIN question.spans : q.spans[i].place = question.spans[j].place
           /\ question.phrases \cap {"wheelchair", "cane", "elevator", "accessible restroom"} \subseteq q.phrases
<1> DEFINE spans == question.spans
           words == question.phrases
           kept(texts) == \A i \in DOMAIN texts : \/ texts[i].place = NoPlace
                                                  \/ \E j \in DOMAIN spans : texts[i].place = spans[j].place
           signs == {"wheelchair", "cane", "elevator", "accessible restroom"}
<1>1. kept(spans) OBVIOUS
<1>2. \A query : Named(query).place = NoPlace BY DEF Named
<1>3. CASE asked.what = "place"
  <2>1. PICK c \in Range(Candidates[asked.about]) :
           q = [spans |-> [i \in DOMAIN spans |-> IF spans[i].place = asked.about THEN Named(c) ELSE spans[i]],
                phrases |-> words]
    BY <1>3 DEF Replies
  <2> QED BY <1>2, <2>1
<1>4. CASE asked.what = "line"
  <2>1. PICK lines \in LinesFor(Unclear(asked.about)) :
           q = [spans |-> [i \in DOMAIN spans |->
                             IF i \in DOMAIN lines THEN [spans[i] EXCEPT !.line = lines[i]] ELSE spans[i]],
                phrases |-> words]
    BY <1>4 DEF Replies
  <2>2. \A i \in DOMAIN spans : spans[i] \in TextSpan OBVIOUS
  <2>3. \A i \in DOMAIN spans : [spans[i] EXCEPT !.line = lines[i]].place = spans[i].place BY <2>2 DEF TextSpan
  <2>4. DOMAIN q.spans = DOMAIN spans /\ \A i \in DOMAIN spans : q.spans[i].place = spans[i].place BY <2>1, <2>3
  <2>5. q.phrases = words BY <2>1
  <2> QED BY <2>4, <2>5
<1>5. CASE asked.what = "station"
  <2>1. PICK query \in OwnWords : q = [spans |-> <<Named(query)>>, phrases |-> words] BY <1>5 DEF Replies
  <2>2. q.spans = <<Named(query)>> /\ q.phrases = words BY <2>1
  <2>3. \A a : DOMAIN <<a>> = {1} /\ <<a>>[1] = a OBVIOUS
  <2>4. \A i \in DOMAIN q.spans : q.spans[i] = Named(query) BY <2>2, <2>3
  <2> QED BY <1>2, <2>2, <2>4
<1>6. CASE asked.what = "route"
  <2>1. PICK ends \in OwnWords \X OwnWords :
           q = [spans |-> <<Named(ends[1]), Named(ends[2])>>, phrases |-> words \ {"current route"}]
    BY <1>6 DEF Replies
  <2>2. q.spans = <<Named(ends[1]), Named(ends[2])>> /\ q.phrases = words \ {"current route"} BY <2>1
  <2>3. \A a, b : \A i \in DOMAIN <<a, b>> : <<a, b>>[i] \in {a, b} OBVIOUS
  <2>4. \A i \in DOMAIN q.spans : q.spans[i] \in {Named(ends[1]), Named(ends[2])} BY <2>2, <2>3
  <2>5. words \cap signs \subseteq q.phrases BY <2>2
  <2> QED BY <1>2, <2>4, <2>5
<1>7. CASE asked.what \notin {"place", "line", "station", "route"}
  <2>1. PICK extra : \/ q = [spans |-> spans, phrases |-> words \cup extra]
                    \/ q = [spans |-> spans, phrases |-> (words \ {"restroom"}) \cup extra]
    BY <1>7 DEF Replies
  <2>2. q.spans = spans /\ words \ {"restroom"} \subseteq q.phrases BY <2>1
  <2>3. words \cap signs \subseteq q.phrases BY <2>2
  <2> QED BY <1>1, <2>2, <2>3
<1> QED BY <1>3, <1>4, <1>5, <1>6, <1>7

\* Who names the station that was asked for has named a station.
LEMMA StationReplied ==
    ASSUME question.spans \in Seq(TextSpan), (question.spans \in Seq(TextSpan))', ContextPlaces = <<>>,
           ClarificationReason = "missing_facility_station",
           NEW asked, asked.what = "station", question' \in Replies(asked)
    PROVE  StationNamed'
<1>1. PICK query \in OwnWords : question' = [spans |-> <<Named(query)>>, phrases |-> question.phrases]
  BY DEF Replies
<1>2. question'.spans = <<Named(query)>> /\ question'.phrases = question.phrases BY <1>1
<1>3. Named(query).place = NoPlace /\ Named(query).station # NoStation
  <2>1. query[1] \in Station BY RegisteredAssumption
  <2> QED BY <2>1, RegisteredAssumption DEF Named
<1>4. OnlyStations' /\ Len(question'.spans) = 1
  <2>1. \A a : DOMAIN <<a>> = {1} /\ <<a>>[1] = a /\ Len(<<a>>) = 1 OBVIOUS
  <2> QED BY <1>2, <1>3, <2>1 DEF OnlyStations
<1>5. ContextPlaces' = <<>> /\ Len(Mentions)' = 1 BY <1>4, OnlyMentionsNext
<1>6. Len(Mentions) = 0 /\ Intent = "facility_status" /\ FacilityTypesAsked # {} BY StationAsked
<1>7. \A words : Says(words)' = Says(words) BY <1>2 DEF Says
<1>8. FacilityTypesAsked' # {}
  <2>1. FacilityTypesAsked' = FacilityTypesAsked BY <1>7 DEF FacilityTypesAsked
  <2> QED BY <1>6, <2>1
<1>9. AboutStation'
  <2>1. ~Says(AlternativeTerms) /\ Says(FacilityWords) BY <1>6 DEF Intent
  <2>2. ~Says(AlternativeTerms)' /\ Says(FacilityWords)' BY <1>7, <2>1
  <2>3. Intent' = "facility_status" BY <1>5, <2>2 DEF Intent
  <2> QED BY <2>3 DEF AboutStation
<1> QED BY <1>5, <1>8, <1>9 DEF StationNamed

\* Who names the two ends that were asked for has named a trip.
LEMMA RouteReplied ==
    ASSUME (question.spans \in Seq(TextSpan))', NEW asked, asked.what = "route", question' \in Replies(asked)
    PROVE  TripNamed'
<1>1. PICK ends \in OwnWords \X OwnWords :
         /\ ends[1][1] # ends[2][1]
         /\ question' = [spans |-> <<Named(ends[1]), Named(ends[2])>>, phrases |-> question.phrases \ {"current route"}]
  BY DEF Replies
<1>2. question'.spans = <<Named(ends[1]), Named(ends[2])>> /\ question'.phrases = question.phrases \ {"current route"}
  BY <1>1
<1>3. \A n \in {1, 2} : /\ Named(ends[n]).place = NoPlace /\ Named(ends[n]).station = ends[n][1]
                        /\ Named(ends[n]).station # NoStation
  <2>1. \A n \in {1, 2} : ends[n][1] \in Station BY <1>1, RegisteredAssumption
  <2> QED BY <2>1, RegisteredAssumption DEF Named
<1>4. OnlyStations' /\ Len(question'.spans) = 2
  <2>1. \A a, b, texts : texts = <<a, b>> => DOMAIN texts = {1, 2} /\ texts[1] = a /\ texts[2] = b /\ Len(texts) = 2
    OBVIOUS
  <2>2. /\ DOMAIN question'.spans = {1, 2} /\ Len(question'.spans) = 2
        /\ question'.spans[1] = Named(ends[1]) /\ question'.spans[2] = Named(ends[2])
    <3>1. PICK a, b : a = Named(ends[1]) /\ b = Named(ends[2]) OBVIOUS
    <3>2. question'.spans = <<a, b>> BY <1>2, <3>1
    <3>3. /\ DOMAIN question'.spans = {1, 2} /\ Len(question'.spans) = 2
          /\ question'.spans[1] = a /\ question'.spans[2] = b
      BY <2>1, <3>2
    <3> QED BY <3>1, <3>3
  <2>3. \A i \in {1, 2} : /\ question'.spans[i].place = NoPlace /\ question'.spans[i].station # NoStation
                          /\ question'.spans[i].station = ends[i][1]
    BY <1>3, <2>2
  <2>4. \A i, j \in {1, 2} : question'.spans[i].station = question'.spans[j].station => i = j
    <3>1. question'.spans[1].station # question'.spans[2].station BY <1>1, <2>3
    <3> QED BY <3>1
  <2> QED BY <2>2, <2>3, <2>4 DEF OnlyStations
<1>5. ContextPlaces' = <<>> /\ Len(Mentions)' = 2 BY <1>4, OnlyMentionsNext
<1>6. ~Says({"current route"})' BY <1>2 DEF Says
<1> QED BY <1>5, <1>6 DEF TripNamed

LEMMA QueryIsNext ==
    (question.spans \in Seq(TextSpan) =>
        \A i \in StationSpans : QueryOf(i) = <<question.spans[i].station, question.spans[i].line>>)'
<1>1. question.spans \in Seq(TextSpan) =>
         \A i \in StationSpans : QueryOf(i) = <<question.spans[i].station, question.spans[i].line>>
  BY QueryIs DEF Spans
<1> QED BY <1>1, PTL

\* Who gives the lines that were asked for has said as much as before, and those lines.
LEMMA LinesReplied ==
    ASSUME question.spans \in Seq(TextSpan), (question.spans \in Seq(TextSpan))',
           NEW asked, asked.what = "line", question' \in Replies(asked)
    PROVE  /\ StationNamed => StationNamed'
           /\ TripNamed => TripNamed'
           /\ LinesOnly => LinesOnly'
           /\ StationSpans' = StationSpans
           /\ \A i \in StationSpans :
                 /\ question'.spans[i].station = question.spans[i].station
                 /\ NeedsClarification(QueryOf(i)') =>
                       NeedsClarification(QueryOf(i)) /\ asked.about \notin {QueryOf(i), NoQuery}
<1> DEFINE spans == question.spans
<1>1. PICK lines \in LinesFor(Unclear(asked.about)) :
         question' = [spans |-> [i \in DOMAIN spans |->
                                   IF i \in DOMAIN lines THEN [spans[i] EXCEPT !.line = lines[i]] ELSE spans[i]],
                      phrases |-> question.phrases]
  BY DEF Replies
<1>2. /\ question'.spans = [i \in DOMAIN spans |->
                               IF i \in DOMAIN lines THEN [spans[i] EXCEPT !.line = lines[i]] ELSE spans[i]]
      /\ question'.phrases = question.phrases
  BY <1>1
<1>3. DOMAIN lines = Unclear(asked.about) /\ \A i \in DOMAIN lines : lines[i] \in RegistryLines[spans[i].station]
  BY <1>1 DEF LinesFor
<1>4. \A i \in DOMAIN spans :
         /\ question'.spans[i].station = spans[i].station /\ question'.spans[i].place = spans[i].place
         /\ question'.spans[i].longer = spans[i].longer
         /\ question'.spans[i].line = IF i \in DOMAIN lines THEN lines[i] ELSE spans[i].line
  <2>1. \A i \in DOMAIN spans : spans[i] \in TextSpan OBVIOUS
  <2> QED BY <1>2, <2>1 DEF TextSpan
<1>5. DOMAIN question'.spans = DOMAIN spans BY <1>2
<1>6. StationSpans' = StationSpans /\ ContextPlaces' = ContextPlaces /\ Len(Mentions)' = Len(Mentions)
  BY <1>4, <1>5, SpansKept
<1>7. /\ AboutStation' = AboutStation /\ FacilityTypesAsked' = FacilityTypesAsked /\ MobilityKnown' = MobilityKnown
      /\ \A words : Says(words)' = Says(words)
  BY <1>2, <1>6, WordsKept
<1>8. StationNamed' = StationNamed BY <1>6, <1>7 DEF StationNamed
<1>9. TripNamed' = TripNamed BY <1>6, <1>7 DEF TripNamed
<1>10. LinesOnly' = LinesOnly BY <1>7, <1>8, <1>9 DEF LinesOnly
<1>11. ASSUME NEW i \in StationSpans, NeedsClarification(QueryOf(i)')
       PROVE  NeedsClarification(QueryOf(i)) /\ asked.about \notin {QueryOf(i), NoQuery}
  <2>1. i \in DOMAIN spans /\ spans[i].station # NoStation /\ spans[i] \in TextSpan BY DEF StationSpans
  <2>2. spans[i].station \in Station BY <2>1 DEF TextSpan
  <2>3. QueryOf(i) = <<spans[i].station, spans[i].line>> BY QueryIs DEF Spans
  <2>4. QueryOf(i)' = <<spans[i].station, question'.spans[i].line>> BY <1>4, <1>6, <2>1, QueryIsNext
  <2>5. i \notin DOMAIN lines
    <3>1. SUFFICES ASSUME i \in DOMAIN lines PROVE FALSE OBVIOUS
    <3>2. QueryOf(i)' = <<spans[i].station, lines[i]>> /\ lines[i] \in RegistryLines[spans[i].station]
      BY <1>3, <1>4, <2>1, <2>4, <3>1
    <3>3. lines[i] # NoLine BY <2>2, <3>2, RegistryAssumption
    <3>4. Resolve(spans[i].station, lines[i]).matched BY <3>2, <3>3 DEF Resolve
    <3>5. ~NeedsClarification(QueryOf(i)') BY <3>2, <3>4 DEF NeedsClarification
    <3> QED BY <1>11, <3>5
  <2>6. QueryOf(i)' = QueryOf(i) BY <1>4, <2>1, <2>3, <2>4, <2>5
  <2>7. NeedsClarification(QueryOf(i)) BY <1>11, <2>6
  <2> QED BY <1>3, <2>5, <2>7 DEF Unclear
<1>12. \A i \in StationSpans : question'.spans[i].station = spans[i].station BY <1>4 DEF StationSpans
<1> QED BY <1>6, <1>8, <1>9, <1>10, <1>11, <1>12

\* What was asked is settled by the reply to it.
LEMMA ReplySettles ==
    ASSUME question.spans \in Seq(TextSpan), (question.spans \in Seq(TextSpan))', ClarificationReason # "none",
           NEW asked, asked = ShownQuestion, question' \in Replies(asked)
    PROVE  Settled(asked)'
<1>1. \A place : asked = [what |-> "place", about |-> place] => asked.what = "place" /\ asked.about = place
  OBVIOUS
<1>2. CASE ContextPlaces # <<>>
  <2>1. asked.what = "place" /\ asked.about = FirstPlace BY <1>1, <1>2, ShownIs
  <2>2. FirstPlace # NoPlace BY <1>2, PlacesAre, RegisteredAssumption
  <2>3. PICK c : question' = [spans |-> [i \in DOMAIN question.spans |->
                                 IF question.spans[i].place = FirstPlace THEN Named(c) ELSE question.spans[i]],
                              phrases |-> question.phrases]
    BY <2>1 DEF Replies
  <2>4. Named(c).place = NoPlace BY DEF Named
  <2>5. \A i \in DOMAIN question'.spans : question'.spans[i].place # FirstPlace BY <2>2, <2>3, <2>4
  <2> QED BY <2>1, <2>2, <2>5 DEF Settled
<1>3. CASE ContextPlaces = <<>>
  <2>1. CASE asked.what = "mobility"
    <3>1. PICK word \in {"wheelchair", "cane"} : question' = [spans |-> question.spans, phrases |-> question.phrases \cup {word}]
      BY <2>1 DEF Replies
    <3>2. Says({"wheelchair", "cane"})' BY <3>1 DEF Says
    <3> QED BY <2>1, <3>2 DEF Settled
  <2>2. CASE asked.what = "facility"
    <3>1. PICK word \in {"elevator", "accessible restroom"} :
             question' = [spans |-> question.spans, phrases |-> question.phrases \cup {word}]
      BY <2>2 DEF Replies
    <3>2. Says({"elevator", "accessible restroom"})' BY <3>1 DEF Says
    <3> QED BY <2>2, <3>2 DEF Settled
  <2>3. CASE asked.what = "accessible restroom"
    <3>1. question' = [spans |-> question.spans, phrases |-> (question.phrases \ {"restroom"}) \cup {"accessible restroom"}]
      BY <2>3 DEF Replies
    <3>2. Says({"elevator", "accessible restroom"})' BY <3>1 DEF Says
    <3> QED BY <2>3, <3>2 DEF Settled
  <2>4. CASE asked.what = "station"
    <3>1. ClarificationReason = "missing_facility_station" BY <1>3, <2>4, ShownIs
    <3>2. StationNamed' BY <1>3, <2>4, <3>1, StationReplied
    <3> QED BY <2>4, <3>2 DEF Settled
  <2>5. CASE asked.what = "route"
    <3>1. TripNamed' BY <2>5, RouteReplied
    <3> QED BY <2>5, <3>1 DEF Settled
  <2>6. CASE asked.what = "line"
    <3>1. ClarificationReason \in {"ambiguous_station", "station_line_mismatch"} /\ asked.about = UnclearStation
      BY <1>3, <2>6, ShownIs
    <3>2. LinesOnly BY <1>3, <3>1, LineAsked
    <3>3. PICK k \in StationSpans : asked.about \in {NoQuery, QueryOf(k)} BY <1>3, <3>1, LineAsked
    <3>4. /\ LinesOnly' /\ StationSpans' = StationSpans
          /\ \A i \in StationSpans :
                /\ question'.spans[i].station = question.spans[i].station
                /\ NeedsClarification(QueryOf(i)') => asked.about \notin {QueryOf(i), NoQuery}
      BY <2>6, <3>2, LinesReplied
    <3>5. ASSUME NEW i \in StationSpans, asked.about = NoQuery \/ asked.about[1] = question.spans[i].station
          PROVE  asked.about \in {QueryOf(i), NoQuery}
      <4>1. SUFFICES ASSUME asked.about = QueryOf(k), asked.about # NoQuery PROVE i = k BY <3>3
      <4>2. QueryOf(k) = <<question.spans[k].station, question.spans[k].line>> BY QueryIs DEF Spans
      <4>3. question.spans[i].station = question.spans[k].station BY <3>5, <4>1, <4>2
      <4>4. i \in Nat /\ k \in Nat
        <5>1. Len(question.spans) \in Nat /\ DOMAIN question.spans = 1 .. Len(question.spans) OBVIOUS
        <5> QED BY <5>1 DEF StationSpans
      <4>5. i < k \/ k < i \/ i = k BY <4>4
      <4>6. ~(i < k) /\ ~(k < i) BY <4>3, <4>4 DEF StationSpans
      <4> QED BY <4>5, <4>6
    <3>6. \A i \in StationSpans' : asked.about = NoQuery \/ asked.about[1] = question'.spans[i].station =>
             ~NeedsClarification(QueryOf(i)')
      BY <3>4, <3>5
    <3> QED BY <2>6, <3>4, <3>6 DEF Settled
  <2> QED BY <1>3, <2>1, <2>2, <2>3, <2>4, <2>5, <2>6, ShownIs, NoneOutside
<1> QED BY <1>2, <1>3

\* What is settled stays so, whatever else is asked for and replied.
LEMMA ReplyKeepsSettled ==
    ASSUME question.spans \in Seq(TextSpan), (question.spans \in Seq(TextSpan))', ClarificationReason # "none",
           NEW shown, shown = ShownQuestion, question' \in Replies(shown),
           NEW asked, Settled(asked)
    PROVE  Settled(asked)'
<1> DEFINE R == ClarificationReason
<1>1. StationNamed => shown.what = "line"
  <2>1. SUFFICES ASSUME StationNamed PROVE shown.what = "line" OBVIOUS
  <2>2. ContextPlaces = <<>> /\ Len(Mentions) = 1 /\ AboutStation /\ FacilityTypesAsked # {} BY <2>1 DEF StationNamed
  <2>3. R = FacilityReason BY <2>2, StationReasons
  <2>4. R \notin {"accessible_restroom_confirmation", "missing_facility_type"}
    BY <2>2, <2>3 DEF FacilityReason, ContextReason
  <2>5. R # "missing_facility_station"
    <3>1. R = "missing_facility_station" => Len(Mentions) = 0 BY <2>2, StationAsked
    <3> QED BY <2>2, <3>1
  <2>6. R \in {"ambiguous_station", "station_line_mismatch"} BY <2>2, <2>4, <2>5, StationReasons, NoneOutside
  <2> QED BY <2>2, <2>6, ShownIs
<1>2. TripNamed => shown.what = "line" \/ (shown.what = "mobility" /\ ~MobilityKnown)
  <2>1. SUFFICES ASSUME TripNamed PROVE shown.what = "line" \/ (shown.what = "mobility" /\ ~MobilityKnown) OBVIOUS
  <2>2. ContextPlaces = <<>> /\ Len(Mentions) = 2 /\ ~Says({"current route"}) BY <2>1 DEF TripNamed
  <2>3. ~AboutStation BY <2>2, StationReasons
  <2>4. R \notin {"accessible_restroom_confirmation", "missing_facility_type", "missing_facility_station"}
    BY <2>3, ReasonRests
  <2>5. R \notin {"missing_station", "missing_alternative_route", "current_route_context", "unsupported_intent"}
    BY <2>2, RouteAsked
  <2>6. R \in {"missing_mobility_profile", "ambiguous_station", "station_line_mismatch"}
    BY <2>4, <2>5, ReasonRests, NoneOutside
  <2> QED BY <2>2, <2>6, ShownIs, ReasonRests
<1>3. CASE asked.what = "place" /\ asked.about # NoPlace
           /\ \A i \in DOMAIN question.spans : question.spans[i].place # asked.about
  <2>1. \A i \in DOMAIN question'.spans :
           \/ question'.spans[i].place = NoPlace
           \/ \E j \in DOMAIN question.spans : question'.spans[i].place = question.spans[j].place
    BY RepliesKeep
  <2>2. \A i \in DOMAIN question'.spans : question'.spans[i].place # asked.about BY <1>3, <2>1
  <2> QED BY <1>3, <2>2 DEF Settled
<1>4. CASE asked.what = "mobility" /\ Says({"wheelchair", "cane"})
  <2>1. Says({"wheelchair", "cane"})'
    <3>1. question.phrases \cap {"wheelchair", "cane", "elevator", "accessible restroom"} \subseteq question'.phrases
      BY RepliesKeep
    <3> QED BY <1>4, <3>1 DEF Says
  <2> QED BY <1>4, <2>1 DEF Settled
<1>5. CASE asked.what \in {"facility", "accessible restroom"} /\ Says({"elevator", "accessible restroom"})
  <2>1. Says({"elevator", "accessible restroom"})'
    <3>1. question.phrases \cap {"wheelchair", "cane", "elevator", "accessible restroom"} \subseteq question'.phrases
      BY RepliesKeep
    <3> QED BY <1>5, <3>1 DEF Says
  <2> QED BY <1>5, <2>1 DEF Settled
<1>6. CASE asked.what = "station" /\ StationNamed
  <2>1. StationNamed' BY <1>1, <1>6, LinesReplied
  <2> QED BY <1>6, <2>1 DEF Settled
<1>7. CASE asked.what = "route" /\ TripNamed
  <2>1. CASE shown.what = "line"
    <3>1. TripNamed' BY <1>7, <2>1, LinesReplied
    <3> QED BY <1>7, <3>1 DEF Settled
  <2>2. CASE shown.what = "mobility"
    <3>1. PICK word \in {"wheelchair", "cane"} : question' = [spans |-> question.spans, phrases |-> question.phrases \cup {word}]
      BY <2>2 DEF Replies
    <3>2. question'.spans = question.spans /\ question'.phrases = question.phrases \cup {word} BY <3>1
    <3>3. ContextPlaces' = ContextPlaces /\ Len(Mentions)' = Len(Mentions) BY <3>2, SpansKept
    <3>4. ~Says({"current route"})' BY <1>7, <3>2 DEF Says, TripNamed
    <3>5. TripNamed' BY <1>7, <3>3, <3>4 DEF TripNamed
    <3> QED BY <1>7, <3>5 DEF Settled
  <2> QED BY <1>2, <1>7, <2>1, <2>2
<1>8. CASE /\ asked.what = "line" /\ LinesOnly
           /\ \A i \in StationSpans : asked.about = NoQuery \/ asked.about[1] = question.spans[i].station =>
                 ~NeedsClarification(QueryOf(i))
  <2>1. shown.what = "line" BY <1>1, <1>2, <1>8 DEF LinesOnly
  <2>2. /\ LinesOnly' /\ StationSpans' = StationSpans
        /\ \A i \in StationSpans : /\ question'.spans[i].station = question.spans[i].station
                                   /\ NeedsClarification(QueryOf(i)') => NeedsClarification(QueryOf(i))
    BY <1>8, <2>1, LinesReplied
  <2>3. \A i \in StationSpans' : asked.about = NoQuery \/ asked.about[1] = question'.spans[i].station =>
           ~NeedsClarification(QueryOf(i)')
    BY <1>8, <2>2
  <2> QED BY <1>8, <2>2, <2>3 DEF Settled
<1> QED BY <1>3, <1>4, <1>5, <1>6, <1>7, <1>8 DEF Settled

\* What is settled depends on the question alone.
LEMMA SettledStays ==
    ASSUME question' = question, NEW asked
    PROVE  Settled(asked)' = Settled(asked) /\ ShownQuestion' = ShownQuestion
<1>1. \A words : Says(words)' = Says(words) BY DEF Says
<1>2. StationSpans' = StationSpans /\ PlaceSpans' = PlaceSpans BY DEF StationSpans, PlaceSpans
<1>3. \A i : QueryOf(i)' = QueryOf(i) BY <1>2 DEF QueryOf
<1>4. Mentions' = Mentions BY <1>2, <1>3 DEF Mentions
<1>5. ContextPlaces' = ContextPlaces BY <1>2 DEF ContextPlaces
<1>6. Len(Mentions)' = Len(Mentions) BY <1>4
<1>7. AboutStation' = AboutStation /\ FacilityTypesAsked' = FacilityTypesAsked /\ MobilityKnown' = MobilityKnown
  BY <1>6, WordsKept
<1>8. StationNamed' = StationNamed BY <1>5, <1>6, <1>7 DEF StationNamed
<1>9. TripNamed' = TripNamed BY <1>1, <1>5, <1>6 DEF TripNamed
<1>10. LinesOnly' = LinesOnly BY <1>7, <1>8, <1>9 DEF LinesOnly
<1>11. Settled(asked)' = Settled(asked) BY <1>1, <1>2, <1>3, <1>8, <1>9, <1>10 DEF Settled
<1>12. ShownQuestion' = ShownQuestion
  <2>1. Clarification' = Clarification BY SameQuestion
  <2>2. Clarification.question = ShownQuestion BY DEF Clarification
  <2>3. Clarification'.question = ShownQuestion' BY DEF Clarification
  <2> QED BY <2>1, <2>2, <2>3
<1> QED BY <1>11, <1>12

\* What was asked before is settled.
DialogueInv ==
    /\ phase = "asked" => \A asked \in dialogue : Settled(asked)
    /\ phase = "unclear" => \A asked \in dialogue \ {ShownQuestion} : Settled(asked)

\* Every step of a dialogue keeps it.
LEMMA DialogueNext == IInv /\ IInv' /\ DialogueInv /\ [Next]_vars => DialogueInv'
<1> SUFFICES ASSUME IInv, IInv', DialogueInv, [Next]_vars PROVE DialogueInv' OBVIOUS
<1>1. question.spans \in Seq(TextSpan) /\ (question.spans \in Seq(TextSpan))' BY DEF IInv, SpansInv
<1>2. CASE Clarify
  <2>1. /\ question' = question /\ phase = "asked" /\ phase' = "unclear"
        /\ dialogue' = dialogue \cup {ShownQuestion}
    BY <1>2 DEF Clarify
  <2>2. \A asked : Settled(asked)' = Settled(asked) BY <2>1, SettledStays
  <2>3. ShownQuestion' = ShownQuestion BY <2>1, SettledStays
  <2>4. \A asked \in dialogue' \ {ShownQuestion'} : Settled(asked)' BY <2>1, <2>2, <2>3 DEF DialogueInv
  <2> QED BY <2>1, <2>4 DEF DialogueInv
<1>3. CASE AskAgain
  <2>1. /\ phase = "unclear" /\ phase' = "asked" /\ dialogue' = dialogue
        /\ question' \in Replies(answer.question)
    BY <1>3 DEF AskAgain
  <2>2. answer.question = ShownQuestion /\ ClarificationReason # "none" BY <2>1 DEF IInv, PhaseInv, Clarification
  <2>3. ASSUME NEW asked \in dialogue PROVE Settled(asked)'
    <3>1. PICK shown : shown = ShownQuestion OBVIOUS
    <3>2. question' \in Replies(shown) BY <2>1, <2>2, <3>1
    <3>3. CASE asked = shown BY <1>1, <2>2, <3>1, <3>2, <3>3, ReplySettles
    <3>4. CASE asked # shown
      <4>1. Settled(asked) BY <2>1, <3>1, <3>4 DEF DialogueInv
      <4> QED BY <1>1, <2>2, <3>1, <3>2, <4>1, ReplyKeepsSettled
    <3> QED BY <3>3, <3>4
  <2> QED BY <2>1, <2>3 DEF DialogueInv
<1>4. CASE Begin \/ (\E t \in Range(FacilityTypes) : LookUp(t)) \/ AnswerFacilities \/ AnswerTrip \/ LookupRaises
  <2>1. phase' \notin {"asked", "unclear"}
    BY <1>4 DEF Begin, LookUp, AnswerFacilities, AnswerTrip, LookupRaises
  <2> QED BY <2>1 DEF DialogueInv
<1>5. CASE Done \/ UNCHANGED vars
  <2>1. question' = question /\ phase' = phase /\ dialogue' = dialogue BY <1>5 DEF Done, vars
  <2>2. \A asked : Settled(asked)' = Settled(asked) BY <2>1, SettledStays
  <2>3. ShownQuestion' = ShownQuestion BY <2>1, SettledStays
  <2> QED BY <2>1, <2>2, <2>3 DEF DialogueInv
<1> QED BY <1>2, <1>3, <1>4, <1>5 DEF Next

\* AskedOnce of Questions: whoever gives what was asked for is not asked for it
\* again, however long the dialogue is.
THEOREM NothingAskedTwice == Spec => AskedOnce
<1>1. Init => DialogueInv BY DEF Init, DialogueInv
<1>2. ASSUME IInv, IInv', DialogueInv, [Next]_vars
      PROVE  [phase = "asked" /\ phase' = "unclear" => answer'.question \notin dialogue]_vars
  <2>1. SUFFICES ASSUME phase = "asked", phase' = "unclear" PROVE answer'.question \notin dialogue OBVIOUS
  <2>2. Clarify
    BY <1>2, <2>1 DEF Next, Begin, LookUp, AnswerFacilities, AnswerTrip, LookupRaises, AskAgain, Done, vars
  <2>3. answer'.question = ShownQuestion /\ ClarificationReason # "none" BY <2>2 DEF Clarify, Clarification
  <2>4. question.spans \in Seq(TextSpan) BY <1>2 DEF IInv, SpansInv
  <2>5. \A asked \in dialogue : asked # ShownQuestion BY <1>2, <2>1, <2>3, <2>4, SettledIsNotAsked DEF DialogueInv
  <2> QED BY <2>3, <2>5
<1> QED BY <1>1, <1>2, QuestionsInvariant, DialogueNext, PTL DEF Spec, AskedOnce
=============================================================================
