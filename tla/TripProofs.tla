----------------------------- MODULE TripProofs -----------------------------
(***************************************************************************)
(* Proofs about Trip.                                                      *)
(*                                                                         *)
(* IInv says where everything comes from that the answer is made of: every *)
(* fact is what its query returns for the world and the line of the        *)
(* station, and stays so to the end; an answer with a route is the one     *)
(* that Judge builds from all of these facts.  Every property of the       *)
(* answer then follows from the rules of TripJudgement and Lookups, about  *)
(* which the lemmas are.                                                   *)
(***************************************************************************)
EXTENDS Trip, LookupsProofs, FiniteSetTheorems

-----------------------------------------------------------------------------
(* The score.  TotalScore sums over a set, by a recursive function.        *)

\* Reasons with a score each have a total, which is a natural number.
LEMMA SumIsNat ==
    ASSUME NEW S, IsFiniteSet(S), \A r \in S : RuleScore[r[1]] \in Nat
    PROVE  /\ MapThenSumSet(LAMBDA r : RuleScore[r[1]], S) \in Nat
           /\ S = {} => MapThenSumSet(LAMBDA r : RuleScore[r[1]], S) = 0
<1> DEFINE w(r) == RuleScore[r[1]]
           Sets(n) == {s \in SUBSET S : Cardinality(s) <= n}
           Sums(f, n) == /\ f \in [Sets(n) -> Nat]
                         /\ \A s \in Sets(n) :
                              f[s] = IF s = {} THEN 0
                                     ELSE LET x == CHOOSE x \in s : TRUE IN w(x) + f[s \ {x}]
           T == {n \in Nat : \E f : Sums(f, n)}
<1>1. Cardinality(S) \in Nat BY FS_CardinalityType
<1>0. \A s \in SUBSET S : IsFiniteSet(s) /\ Cardinality(s) \in Nat
  BY FS_Subset, FS_CardinalityType
<1>1a. Sets(0) = {{}}
  BY <1>0, FS_EmptySet
<1>2. 0 \in T
  <2>1. Sets(0) = {{}}
    BY <1>1a
  <2>2. Sums([s \in {{}} |-> 0], 0) BY <2>1
  <2> QED BY <2>2
<1>3. ASSUME NEW m \in Nat, m \in T PROVE m + 1 \in T
  <2>1. PICK f : Sums(f, m) BY <1>3
  <2> DEFINE g == [s \in Sets(m + 1) |->
                     IF s = {} THEN 0 ELSE LET x == CHOOSE x \in s : TRUE IN w(x) + f[s \ {x}]]
  <2>2. \A s \in Sets(m) : s \in Sets(m + 1) /\ g[s] = f[s]
    <3>2. Sets(m) \subseteq Sets(m + 1) BY <1>0
    <3> QED BY <2>1, <3>2
  <2>3. ASSUME NEW s \in Sets(m + 1), s # {}, NEW x \in s PROVE s \ {x} \in Sets(m) /\ w(x) \in Nat
    <3>1. IsFiniteSet(s) BY FS_Subset
    <3>2. Cardinality(s \ {x}) = Cardinality(s) - 1 BY <3>1, <2>3, FS_RemoveElement
    <3>3. Cardinality(s) \in Nat BY <3>1, FS_CardinalityType
    <3> QED BY <3>2, <3>3
  <2> HIDE DEF Sets, w
  <2>4. ASSUME NEW s \in Sets(m + 1)
        PROVE  /\ g[s] \in Nat
               /\ g[s] = IF s = {} THEN 0 ELSE LET x == CHOOSE x \in s : TRUE IN w(x) + g[s \ {x}]
    <3>1. CASE s = {} BY <3>1
    <3>2. CASE s # {}
      <4> DEFINE x == CHOOSE x \in s : TRUE
      <4>1. x \in s BY <3>2
      <4>2. s \ {x} \in Sets(m) /\ w(x) \in Nat BY <2>3, <3>2, <4>1
      <4>3. f[s \ {x}] \in Nat BY <2>1, <4>2
      <4>4. g[s \ {x}] = f[s \ {x}] BY <2>2, <4>2
      <4>5. g[s] = w(x) + f[s \ {x}] BY <3>2
      <4> HIDE DEF g, x
      <4>6. g[s] \in Nat /\ g[s] = w(x) + g[s \ {x}] BY <4>2, <4>3, <4>4, <4>5
      <4> QED BY <4>6, <3>2 DEF x
    <3> QED BY <3>1, <3>2
  <2>5. Sums(g, m + 1)
    <3>1. DOMAIN g = Sets(m + 1) /\ g = [s \in Sets(m + 1) |-> g[s]] OBVIOUS
    <3> HIDE DEF g
    <3> QED BY <2>4, <3>1
  <2> HIDE DEF Sums
  <2> QED BY <2>5
<1>4. Cardinality(S) \in T
  <2> HIDE DEF T
  <2>1. 0 .. Cardinality(S) \subseteq T BY <1>1, <1>2, <1>3, UpTo
  <2> QED BY <1>1, <2>1
<1>5. PICK f : Sums(f, Cardinality(S)) BY <1>4
<1>6. Sets(Cardinality(S)) = SUBSET S
  BY FS_Subset
<1> DEFINE Rule(f1) == [s \in SUBSET S |-> IF s = {} THEN 0
                           ELSE LET x == CHOOSE x \in s : TRUE IN w(x) + f1[s \ {x}]]
           iter == CHOOSE f1 : f1 = Rule(f1)
<1>7. f = Rule(f)
  <2>1. \A s \in SUBSET S : f[s] = Rule(f)[s] BY <1>5, <1>6
  <2>2. DOMAIN f = SUBSET S BY <1>5, <1>6
  <2> QED BY <1>5, <1>6, <2>1, <2>2
<1>8. iter = Rule(iter)
  <2> HIDE DEF Rule
  <2> QED BY <1>7
<1>9. \A s \in SUBSET S : iter[s] = IF s = {} THEN 0
                           ELSE LET x == CHOOSE x \in s : TRUE IN w(x) + iter[s \ {x}]
  <2> HIDE DEF iter
  <2> QED BY <1>8
<1>9a. iter[{}] = 0
  <2> HIDE DEF iter
  <2> QED BY <1>9
<1>10. \A n \in 0 .. Cardinality(S) : \A s \in Sets(n) : iter[s] \in Nat
  <2> HIDE DEF iter
  <2> DEFINE U == {n \in Nat : \A s \in Sets(n) : iter[s] \in Nat}
  <2>1. 0 \in U
    <3> QED BY <1>1a, <1>9a
  <2>2. ASSUME NEW m \in Nat, m \in U PROVE m + 1 \in U
    <3>1. ASSUME NEW s \in Sets(m + 1), s # {} PROVE iter[s] \in Nat
      <4> DEFINE x == CHOOSE x \in s : TRUE
      <4>1. x \in s BY <3>1
      <4>2. IsFiniteSet(s) BY FS_Subset
      <4>3. Cardinality(s \ {x}) = Cardinality(s) - 1 BY <4>1, <4>2, FS_RemoveElement
      <4>4. Cardinality(s) \in Nat BY <4>2, FS_CardinalityType
      <4>5. s \ {x} \in Sets(m) BY <4>3, <4>4
      <4>6. iter[s \ {x}] \in Nat BY <4>5, <2>2
      <4>7. w(x) \in Nat BY <4>1
      <4>8. iter[s] = w(x) + iter[s \ {x}] BY <3>1, <1>9
      <4> HIDE DEF w, x
      <4> QED BY <4>6, <4>7, <4>8
    <3>2. iter[{}] \in Nat BY <1>9a
    <3>3. \A s \in Sets(m + 1) : iter[s] \in Nat BY <3>1, <3>2
    <3> HIDE DEF Sets
    <3> QED BY <3>3
  <2> HIDE DEF U
  <2>3. 0 .. Cardinality(S) \subseteq U BY <1>1, <2>1, <2>2, UpTo
  <2> QED BY <2>3 DEF U
<1>11. iter[S] \in Nat
  <2>1. S \in Sets(Cardinality(S)) /\ Cardinality(S) \in 0 .. Cardinality(S) BY <1>1
  <2> HIDE DEF iter, Sets
  <2> QED BY <2>1, <1>10
<1>12. MapThenSumSet(LAMBDA r : RuleScore[r[1]], S) = iter[S]
  BY Zenon DEF MapThenSumSet, MapThenFoldSet
<1>13. S = {} => iter[S] = 0
  <2> HIDE DEF iter
  <2> QED BY <1>9a
<1> QED BY <1>11, <1>12, <1>13

\* A score is between 0 and 100, and nothing scores nothing.
LEMMA ScoreInRange ==
    ASSUME NEW reasons, IsFiniteSet(reasons), \A r \in reasons : r[1] \in DOMAIN RuleScore
    PROVE  TotalScore(reasons) \in 0 .. 100 /\ (reasons = {} => TotalScore(reasons) = 0)
<1> DEFINE restroom == {r \in reasons : r[1] = "no_accessible_restroom_when_required"}
           sum == MapThenSumSet(LAMBDA r : RuleScore[r[1]], reasons \ restroom)
           own == IF restroom # {} THEN RuleScore.no_accessible_restroom_when_required ELSE 0
<1>1. \A c \in DOMAIN RuleScore : RuleScore[c] \in Nat BY DEF RuleScore
<1>2. sum \in Nat /\ (reasons \ restroom = {} => sum = 0)
  <2>1. IsFiniteSet(reasons \ restroom) BY FS_Subset
  <2>2. \A r \in reasons \ restroom : RuleScore[r[1]] \in Nat BY <1>1
  <2> HIDE DEF restroom
  <2> QED BY <2>1, <2>2, SumIsNat
<1>3. own \in Nat BY DEF RuleScore
<1>4. TotalScore(reasons) = ClampScore(sum + own) BY DEF TotalScore
<1>5. reasons = {} => reasons \ restroom = {} /\ own = 0 OBVIOUS
<1> HIDE DEF sum, own, restroom
<1> QED BY <1>2, <1>3, <1>4, <1>5 DEF ClampScore

-----------------------------------------------------------------------------
(* The stations of a candidate and the reasons found for it.               *)

\* The stations with a role are stations of the route, and those where a
\* restroom may be required are stations with a role.
LEMMA StationsOfRoute ==
    ASSUME NEW route \in RouteCandidate
    PROVE  /\ ElevatorCheckStations(route) \subseteq RouteStations(route)
           /\ RouteStations(route) \subseteq Station
           /\ Range(route.stations) \subseteq RouteStations(route)
           /\ \A need, f : RestroomStations(route, need, f) \subseteq ElevatorCheckStations(route)
<1>1. /\ route.segments \in Seq(RouteSegment) /\ route.stations \in Seq(Station)
      /\ route.origin \in Station /\ route.destination \in Station
  BY DEF RouteCandidate
<1>2. \A i \in DOMAIN route.segments : /\ route.segments[i] \in Range(route.segments)
                                       /\ route.segments[i] \in RouteSegment
  BY <1>1 DEF Range
<1>3. \A g \in Range(route.segments) : g.from \in Station /\ g.to \in Station
  <2>1. ASSUME NEW g \in Range(route.segments) PROVE g \in RouteSegment
    BY <1>2 DEF Range
  <2> QED BY <2>1 DEF RouteSegment
<1>4. TransferPoints(route) \subseteq UNION {{g.from, g.to} : g \in Range(route.segments)}
  BY <1>2 DEF TransferPoints
<1>5. Range(route.stations) \subseteq Station BY <1>1 DEF Range
<1>6. \A role : KeyStations(route, role) \subseteq ElevatorCheckStations(route)
  BY DEF KeyStations
<1>7. \A need, f : RestroomStations(route, need, f) \subseteq ElevatorCheckStations(route)
  BY <1>6 DEF RestroomStations
<1> QED BY <1>1, <1>3, <1>4, <1>5, <1>7 DEF ElevatorCheckStations, RouteStations

\* The reasons of a route are finitely many, each with a score of the table.
LEMMA ReasonsOfRoute ==
    ASSUME NEW route \in RouteCandidate, NEW p, NEW f, NEW failed, NEW sources
    PROVE  /\ IsFiniteSet(EvaluateRoute(route, p, f, failed, sources))
           /\ \A r \in EvaluateRoute(route, p, f, failed, sources) : r[1] \in DOMAIN RuleScore
<1> DEFINE found == EvaluateRoute(route, p, f, failed, sources)
           C == DOMAIN RuleScore
           D == Station \cup {Nowhere}
<1>0. /\ \A state : ElevatorCode(state) \subseteq C
      /\ {"escalator_only_for_wheelchair", "no_accessible_restroom_when_required"} \subseteq C
      /\ {"transfer_required", "too_many_transfers", "api_failure", "stale_data"} \subseteq C
  BY DEF ElevatorCode, RuleScore
<1>5. IsFiniteSet(C)
  <2>1. \A a, b : IsFiniteSet({a, b})
    <3>1. SUFFICES ASSUME NEW a, NEW b PROVE IsFiniteSet({a, b}) OBVIOUS
    <3>2. IsFiniteSet({a} \cup {b}) BY FS_Singleton, FS_Union
    <3>3. {a} \cup {b} = {a, b} OBVIOUS
    <3> QED BY <3>2, <3>3
  <2> DEFINE c1 == {"elevator_unavailable", "elevator_mixed"}
             c2 == {"elevator_unknown", "elevator_not_found"}
             c3 == {"escalator_only_for_wheelchair", "transfer_required"}
             c4 == {"too_many_transfers", "no_accessible_restroom_when_required"}
             c5 == {"stale_data", "api_failure"}
  <2>2. C = c1 \cup c2 \cup c3 \cup c4 \cup c5 BY DEF RuleScore
  <2>3. IsFiniteSet(c1) /\ IsFiniteSet(c2) /\ IsFiniteSet(c3) /\ IsFiniteSet(c4) /\ IsFiniteSet(c5)
    BY <2>1
  <2> HIDE DEF C, c1, c2, c3, c4, c5
  <2>4. IsFiniteSet(c1 \cup c2) BY <2>3, FS_Union
  <2>5. IsFiniteSet(c1 \cup c2 \cup c3) BY <2>3, <2>4, FS_Union
  <2>6. IsFiniteSet(c1 \cup c2 \cup c3 \cup c4) BY <2>3, <2>5, FS_Union
  <2> QED BY <2>2, <2>3, <2>6, FS_Union
<1>6. IsFiniteSet(D) BY RequestAssumption, FS_Singleton, FS_Union
<1>7. Nowhere \in D /\ ElevatorCheckStations(route) \subseteq D BY StationsOfRoute
<1> HIDE DEF C, D
<1>1. ElevatorReasons(route, p, f) \subseteq C \X D
  <2> DEFINE codes(s) == ElevatorCode(AnswerState(ElevatorsAt(f, s)))
                            \cup {c \in {"escalator_only_for_wheelchair"} : EscalatorOnly(f, p, s)}
  <2>1. \A s \in ElevatorCheckStations(route) : codes(s) \X {s} \subseteq C \X D
    <3>1. \A s : codes(s) \subseteq C BY <1>0
    <3> HIDE DEF codes
    <3> QED BY <3>1, <1>7
  <2>2. ElevatorReasons(route, p, f) \subseteq UNION {codes(s) \X {s} : s \in ElevatorCheckStations(route)}
    BY DEF ElevatorReasons
  <2> HIDE DEF codes
  <2> QED BY <2>1, <2>2
<1>2. RestroomReasons(route, p, f) \subseteq C \X D
  <2>1. MissingRestrooms(route, p.restroom, f) \subseteq D
    BY <1>7, StationsOfRoute DEF MissingRestrooms
  <2> QED BY <2>1, <1>0, <1>7 DEF RestroomReasons
<1>3. RouteReasons(route, p, failed, sources) \subseteq C \X D
  BY <1>0, <1>7 DEF RouteReasons
<1>4. found \subseteq C \X D BY <1>1, <1>2, <1>3 DEF EvaluateRoute
<1>8. IsFiniteSet(found)
  <2>1. IsFiniteSet(C \X D) BY <1>5, <1>6, FS_Product
  <2> QED BY <1>4, <2>1, FS_Subset
<1> QED BY <1>4, <1>8 DEF C

-----------------------------------------------------------------------------
(* The candidate that is answered.                                         *)

Assessed(a) ==
    /\ a.level \in DOMAIN RiskOrder
    /\ {a.score, a.route.transfers, a.route.minutes, a.route.id} \subseteq Nat

\* There is a first one among the candidates that were judged.
LEMMA SelectedIsFirst ==
    ASSUME NEW A, A # {}, \A a \in A : Assessed(a)
    PROVE  Selected(A) \in A /\ \A b \in A : ~Precedes(b, Selected(A))
<1> DEFINE k(i, a) == SortKey(a)[i]
           Least(B, i) == {a \in B : \A b \in B : k(i, a) <= k(i, b)}
<1>1. \A a \in A, i \in 1 .. 5 : k(i, a) \in Nat
  BY DEF Assessed, SortKey, RiskOrder
<1>2. \A a : DOMAIN SortKey(a) = 1 .. 5 BY DEF SortKey
<1> HIDE DEF k
<1>3. ASSUME NEW B \in SUBSET A, B # {}, NEW i \in 1 .. 5
      PROVE  Least(B, i) # {} /\ Least(B, i) \subseteq B
  <2> DEFINE T == {k(i, a) : a \in B}
  <2>1. T \subseteq Nat /\ T # {} BY <1>1, <1>3
  <2>2. PICK n \in T : \A m \in T : n <= m
    <3> HIDE DEF T
    <3> QED BY <2>1, NatMin
  <2> QED BY <2>2
<1> DEFINE A1 == Least(A, 1)  A2 == Least(A1, 2)  A3 == Least(A2, 3)
           A4 == Least(A3, 4)  A5 == Least(A4, 5)
<1> HIDE DEF Least
<1>4. A1 # {} /\ A1 \subseteq A BY <1>3
<1> HIDE DEF A1
<1>5. A2 # {} /\ A2 \subseteq A1 BY <1>3, <1>4
<1> HIDE DEF A2
<1>6. A3 # {} /\ A3 \subseteq A2 BY <1>3, <1>4, <1>5
<1> HIDE DEF A3
<1>7. A4 # {} /\ A4 \subseteq A3 BY <1>3, <1>4, <1>5, <1>6
<1> HIDE DEF A4
<1>8. A5 # {} /\ A5 \subseteq A4 BY <1>3, <1>4, <1>5, <1>6, <1>7
<1> HIDE DEF A5
<1>9. PICK a \in A5 : TRUE BY <1>8
<1>10. a \in A /\ a \in A1 /\ a \in A2 /\ a \in A3 /\ a \in A4
  BY <1>4, <1>5, <1>6, <1>7, <1>8
\* Whoever agrees with a up to one component is not less in the next one.
<1>11. ASSUME NEW b \in A, Precedes(b, a) PROVE FALSE
  <2>1. PICK i \in 1 .. 5 : k(i, b) < k(i, a) /\ \A j \in 1 .. i - 1 : k(j, b) = k(j, a)
    BY <1>2, <1>11 DEF Precedes, k
  <2>2. ASSUME NEW B \in SUBSET A, NEW j \in 1 .. 5, a \in Least(B, j), b \in B, k(j, b) = k(j, a)
        PROVE  b \in Least(B, j)
    BY <2>2 DEF Least
  <2>3. ASSUME NEW B \in SUBSET A, a \in Least(B, i), b \in B PROVE FALSE
    <3>1. k(i, a) <= k(i, b) BY <2>3 DEF Least
    <3>2. k(i, a) \in Nat /\ k(i, b) \in Nat BY <1>1, <1>10
    <3> QED BY <2>1, <3>1, <3>2
  <2>4. A1 \subseteq A /\ A2 \subseteq A /\ A3 \subseteq A /\ A4 \subseteq A
    BY <1>4, <1>5, <1>6, <1>7
  <2>5. a \in Least(A, 1) /\ a \in Least(A1, 2) /\ a \in Least(A2, 3) /\ a \in Least(A3, 4) /\ a \in Least(A4, 5)
    BY <1>9, <1>10 DEF A1, A2, A3, A4, A5
  <2>6. i # 1 BY <2>3, <2>5
  <2>7. b \in A1
    <3>1. k(1, b) = k(1, a) BY <2>1, <2>6
    <3> QED BY <3>1, <2>2, <2>5 DEF A1
  <2>8. i # 2 BY <2>3, <2>4, <2>5, <2>7
  <2>9. b \in A2
    <3>1. k(2, b) = k(2, a) BY <2>1, <2>6, <2>8
    <3> QED BY <3>1, <2>2, <2>4, <2>5, <2>7 DEF A2
  <2>10. i # 3 BY <2>3, <2>4, <2>5, <2>9
  <2>11. b \in A3
    <3>1. k(3, b) = k(3, a) BY <2>1, <2>6, <2>8, <2>10
    <3> QED BY <3>1, <2>2, <2>4, <2>5, <2>9 DEF A3
  <2>12. i # 4 BY <2>3, <2>4, <2>5, <2>11
  <2>13. b \in A4
    <3>1. k(4, b) = k(4, a) BY <2>1, <2>6, <2>8, <2>10, <2>12
    <3> QED BY <3>1, <2>2, <2>4, <2>5, <2>11 DEF A4
  <2>14. i # 5 BY <2>3, <2>4, <2>5, <2>13
  <2> QED BY <2>6, <2>8, <2>10, <2>12, <2>14
<1>12. \E a1 \in A : \A b \in A : ~Precedes(b, a1) BY <1>10, <1>11
<1> QED BY <1>12 DEF Selected

\* A candidate is judged with a level, and with a score from 0 to 100.
LEMMA AssessIsAssessed ==
    ASSUME NEW r \in RouteCandidate, NEW p, NEW f, NEW lines, NEW read
    PROVE  /\ Assessed(Assess(r, p, f, lines, read))
           /\ Assess(r, p, f, lines, read).route = r
<1> DEFINE a == Assess(r, p, f, lines, read)
           sources == read.sources \cup Metadata(r, f, "sources")
           failed == read.failed \cup Metadata(r, f, "failed")
           found == EvaluateRoute(r, p, f, failed, sources)
<1>1. TotalScore(found) \in 0 .. 100 BY ReasonsOfRoute, ScoreInRange
<1>2. \A codes, checks : LET risk == AlignedRisk(TotalScore(found), codes, failed, checks, p)
                         IN  risk.level \in DOMAIN RiskOrder /\ risk.score \in Nat
  BY <1>1 DEF AlignedRisk, RiskLevel, RiskOrder
<1>3. a.route = r /\ a.level \in DOMAIN RiskOrder /\ a.score \in Nat
  BY <1>2 DEF Assess
<1>4. {r.transfers, r.minutes, r.id} \subseteq Nat BY DEF RouteCandidate
<1> QED BY <1>3, <1>4 DEF Assessed

-----------------------------------------------------------------------------
(* The invariant.                                                          *)

CallInv ==
    /\ request \in Requests
    /\ world \in Worlds[request]
    /\ phase \in {"asked", "routing", "querying", "answered", "raised"}

RoutesInv ==
    /\ \E list \in RouteLists[request] : routes \subseteq list
    /\ phase \in {"asked", "routing"} => routes = {}
    /\ phase = "querying" => routes # {}
    /\ \A r \in routes : ~LineMismatch(r)
    /\ routeRead.failed \subseteq {"shortest_route"}
    /\ \/ routeRead = Nothing
       \/ \E outcome : routeRead = [value |-> {}, sources |-> {Meta("shortest_route", outcome = "ok", outcome = "stale", FALSE)},
                                   failed |-> IF outcome = "ok" THEN {} ELSE {"shortest_route"}]

\* Every fact is what its query returns for the world, on the line the station has.
FactsInv ==
    /\ DOMAIN facts \subseteq Queries
    /\ \A q \in DOMAIN facts :
          \E outcome \in Endings(q[2], Outcomes[request]) :
              facts[q] = Query(q[1], ContextLine(q[1]), q[2], outcome, world[q[1]], StaleRows[q[1]])

AnswerInv ==
    answer.selected # {} =>
        /\ phase = "answered"
        /\ routes # {}
        /\ DOMAIN facts = Queries
        /\ answer = BuildTrip(Selected(AssessAll))

\* An answer without a route is given before any station is asked about.
UnjudgedInv ==
    phase = "answered" /\ answer.selected = {} =>
        \E status \in {"NEEDS_CLARIFICATION", "FAILED"} : \E score, read, mismatch :
            answer = Unjudged(status, score, read, mismatch)

IInv == CallInv /\ RoutesInv /\ FactsInv /\ AnswerInv /\ UnjudgedInv

\* Without a station there is nothing to look up.
LEMMA QueriesOfNone == ASSUME NEW p PROVE QueriesOf({}, p) = {}
BY DEF QueriesOf

\* A trip begins inside the invariant.
LEMMA TripInit == Init => IInv
<1> SUFFICES ASSUME Init PROVE IInv OBVIOUS
<1>1. CallInv BY DEF Init, CallInv
<1>2. RoutesInv
  <2>1. RouteLists[request] # {} BY SourceAssumption DEF Init
  <2> QED BY <2>1 DEF Init, RoutesInv, Nothing
<1>3. FactsInv
  <2>1. DOMAIN facts = {} BY DEF Init
  <2> QED BY <2>1 DEF FactsInv
<1>4. AnswerInv BY DEF Init, AnswerInv, NoAnswer
<1>5. UnjudgedInv BY DEF Init, UnjudgedInv
<1> QED BY <1>1, <1>2, <1>3, <1>4, <1>5 DEF IInv

\* The facts found so far stay what they are while the candidates are the same.
LEMMA FactsStay ==
    ASSUME FactsInv, UNCHANGED <<request, world, routes, facts>>
    PROVE  FactsInv'
<1>1. \A s : ContextLine(s)' = ContextLine(s)
  BY DEF ContextLine, Endpoints, EndpointLine, ResolveQuery
<1>2. Queries' = Queries BY DEF Queries
<1> QED BY <1>1, <1>2 DEF FactsInv

\* Every step of a trip keeps the invariant.
LEMMA TripNext == IInv /\ [Next]_vars => IInv'
<1> SUFFICES ASSUME IInv, [Next]_vars PROVE IInv' OBVIOUS
<1> USE DEF IInv
<1>1. CASE ResolveStations
  <2>1. UNCHANGED <<request, world, routes, routeRead, facts>> BY <1>1 DEF ResolveStations
  <2>2. phase = "asked" /\ phase' \in {"routing", "answered"} BY <1>1 DEF ResolveStations
  <2>3. answer.selected = {} BY <2>2 DEF AnswerInv
  <2>4. answer'.selected = {} BY <1>1, <2>3 DEF ResolveStations, Unjudged
  <2>5. CallInv' BY <2>1, <2>2 DEF CallInv
  <2>6. RoutesInv' BY <2>1, <2>2 DEF RoutesInv, LineMismatch, Endpoints
  <2>7. FactsInv' BY <2>1, FactsStay
  <2>8. AnswerInv' BY <2>4 DEF AnswerInv
  <2>9. UnjudgedInv'
    <3>1. SUFFICES ASSUME phase' = "answered"
                   PROVE  \E score, read : answer' = Unjudged("NEEDS_CLARIFICATION", score, read, FALSE)'
      BY DEF UnjudgedInv
    <3>2. answer' = Unjudged("NEEDS_CLARIFICATION", 25, [Nothing EXCEPT !.failed = {"station_resolution"}], FALSE)
      BY <1>1, <3>1 DEF ResolveStations
    <3> QED BY <2>1, <3>2 DEF Unjudged
  <2> QED BY <2>5, <2>6, <2>7, <2>8, <2>9
<1>2. CASE LookUpRoutes
  <2>1. UNCHANGED <<request, world, facts>> /\ phase = "routing" BY <1>2 DEF LookUpRoutes
  <2>2. PICK outcome \in Outcomes[request]["shortest_route"], list \in RouteLists[request] :
          LET read == Read("shortest_route", outcome, list, list)
              candidates == {r \in read.value : Usable(r) /\ ~LineMismatch(r)}
          IN  /\ routes' = candidates
              /\ routeRead' = [read EXCEPT !.value = {}]
              /\ IF candidates = {}
                 THEN /\ phase' = "answered"
                      /\ answer' = Unjudged("FAILED", 0, read, \E r \in read.value : Usable(r) /\ LineMismatch(r))
                 ELSE phase' = "querying" /\ answer' = answer
    BY <1>2 DEF LookUpRoutes
  <2> DEFINE read == Read("shortest_route", outcome, list, list)
  <2>3. read.value \subseteq list BY DEF Read
  <2>4. routeRead'.failed \subseteq {"shortest_route"} BY <2>2 DEF Read
  <2>5. answer.selected = {} BY <2>1 DEF AnswerInv
  <2>6. answer'.selected = {} BY <2>2, <2>5 DEF Unjudged
  <2>7. phase' \in {"answered", "querying"} /\ (phase' = "querying" => routes' # {}) BY <2>2
  <2>8. CallInv' BY <2>1, <2>7 DEF CallInv
  <2>9. routes' \subseteq list BY <2>2, <2>3
  <2>14. routeRead' = [value |-> {}, sources |-> {Meta("shortest_route", outcome = "ok", outcome = "stale", FALSE)},
                       failed |-> IF outcome = "ok" THEN {} ELSE {"shortest_route"}]
    BY <2>2 DEF Read
  <2>16. \A r \in routes' : ~LineMismatch(r)' BY <2>1, <2>2 DEF LineMismatch, Endpoints
  <2>10. RoutesInv' BY <2>1, <2>4, <2>7, <2>9, <2>14, <2>16 DEF RoutesInv
  <2>11. DOMAIN facts = {}
    BY <2>1, QueriesOfNone DEF RoutesInv, FactsInv, Queries
  <2>12. FactsInv' BY <2>1, <2>11 DEF FactsInv
  <2>13. AnswerInv' BY <2>6 DEF AnswerInv
  <2>15. UnjudgedInv'
    <3>1. SUFFICES ASSUME phase' = "answered"
                   PROVE  \E read1, mismatch : answer' = Unjudged("FAILED", 0, read1, mismatch)'
      BY DEF UnjudgedInv
    <3>2. \E mismatch : answer' = Unjudged("FAILED", 0, read, mismatch) BY <2>2, <3>1
    <3> HIDE DEF read
    <3> QED BY <2>1, <3>2 DEF Unjudged
  <2> QED BY <2>8, <2>10, <2>12, <2>13, <2>15
<1>3. ASSUME NEW q \in Queries, QueryReturns(q) PROVE IInv'
  <2>1. UNCHANGED <<request, world, phase, routes, routeRead, answer>> /\ phase = "querying" /\ q \notin DOMAIN facts
    BY <1>3 DEF QueryReturns
  <2>2. PICK outcome \in Endings(q[2], Outcomes[request]) :
          facts' = [k \in DOMAIN facts \cup {q} |->
                       IF k \in DOMAIN facts THEN facts[k]
                       ELSE Query(q[1], ContextLine(q[1]), q[2], outcome, world[q[1]], StaleRows[q[1]])]
    BY <1>3 DEF QueryReturns
  <2> DEFINE result == Query(q[1], ContextLine(q[1]), q[2], outcome, world[q[1]], StaleRows[q[1]])
  <2>3. /\ DOMAIN facts' = DOMAIN facts \cup {q}
        /\ \A k \in DOMAIN facts : facts'[k] = facts[k]
        /\ facts'[q] = result
    <3> HIDE DEF result
    <3>1. facts' = [k \in DOMAIN facts \cup {q} |-> IF k \in DOMAIN facts THEN facts[k] ELSE result]
      BY <2>2 DEF result
    <3> QED BY <2>1, <3>1
  <2>4. \A s : ContextLine(s)' = ContextLine(s)
    BY <2>1 DEF ContextLine, Endpoints, EndpointLine, ResolveQuery
  <2>5. Queries' = Queries BY <2>1 DEF Queries
  <2>6. FactsInv'
    <3>1. DOMAIN facts' \subseteq Queries' BY <2>3, <2>5 DEF FactsInv
    <3>2. ASSUME NEW k \in DOMAIN facts'
          PROVE  \E o \in Endings(k[2], Outcomes[request]) :
                    facts'[k] = Query(k[1], ContextLine(k[1]), k[2], o, world[k[1]], StaleRows[k[1]])
      <4>1. CASE k = q BY <2>3, <4>1
      <4>2. CASE k \in DOMAIN facts BY <2>3, <4>2 DEF FactsInv
      <4> QED BY <2>3, <4>1, <4>2
    <3> QED BY <2>1, <2>4, <3>1, <3>2 DEF FactsInv
  <2>7. answer.selected = {} BY <2>1 DEF AnswerInv
  <2>8. CallInv' BY <2>1 DEF CallInv
  <2>9. RoutesInv' BY <2>1 DEF RoutesInv, LineMismatch, Endpoints
  <2>10. AnswerInv' BY <2>1, <2>7 DEF AnswerInv
  <2>11. UnjudgedInv' BY <2>1 DEF UnjudgedInv
  <2> QED BY <2>6, <2>8, <2>9, <2>10, <2>11
<1>4. CASE LookupRaises
  <2>1. UNCHANGED <<request, world, routes, routeRead, facts, answer>> BY <1>4 DEF LookupRaises
  <2>2. phase \in {"routing", "querying"} /\ phase' = "raised" BY <1>4 DEF LookupRaises
  <2>3. answer.selected = {} BY <2>2 DEF AnswerInv
  <2>4. CallInv' BY <2>1, <2>2 DEF CallInv
  <2>5. RoutesInv' BY <2>1, <2>2 DEF RoutesInv, LineMismatch, Endpoints
  <2>6. FactsInv' BY <2>1, FactsStay
  <2>7. AnswerInv' BY <2>1, <2>3 DEF AnswerInv
  <2>8. UnjudgedInv' BY <2>2 DEF UnjudgedInv
  <2> QED BY <2>4, <2>5, <2>6, <2>7, <2>8
<1>5. CASE Judge
  <2>1. UNCHANGED <<request, world, routes, routeRead, facts>> BY <1>5 DEF Judge
  <2>2. phase = "querying" /\ phase' = "answered" /\ DOMAIN facts = Queries BY <1>5 DEF Judge
  <2>3. answer' = BuildTrip(Selected(AssessAll)) BY <1>5 DEF Judge
  <2>4. CallInv' BY <2>1, <2>2 DEF CallInv
  <2>5. RoutesInv' BY <2>1, <2>2 DEF RoutesInv, LineMismatch, Endpoints
  <2>6. FactsInv' BY <2>1, FactsStay
  <2>7. AssessAll' = AssessAll
    BY <2>1 DEF AssessAll, ContextLine, Endpoints, EndpointLine, ResolveQuery
  <2>8. answer' = BuildTrip(Selected(AssessAll))'
    BY <2>1, <2>3, <2>7 DEF BuildTrip
  <2>9. Queries' = Queries BY <2>1 DEF Queries
  <2>10. routes # {} BY <2>2 DEF RoutesInv
  <2>11. AnswerInv' BY <2>1, <2>2, <2>8, <2>9, <2>10 DEF AnswerInv
  <2>12. UnjudgedInv' BY <2>3 DEF UnjudgedInv, BuildTrip
  <2> QED BY <2>4, <2>5, <2>6, <2>11, <2>12
<1>6. CASE UNCHANGED vars
  <2>1. UNCHANGED <<request, world, phase, routes, routeRead, facts, answer>> BY <1>6 DEF vars
  <2>2. AssessAll' = AssessAll
    BY <2>1 DEF AssessAll, ContextLine, Endpoints, EndpointLine, ResolveQuery
  <2>3. BuildTrip(Selected(AssessAll))' = BuildTrip(Selected(AssessAll)) BY <2>1, <2>2 DEF BuildTrip
  <2>4. Queries' = Queries BY <2>1 DEF Queries
  <2>5. CallInv' BY <2>1 DEF CallInv
  <2>6. RoutesInv' BY <2>1 DEF RoutesInv, LineMismatch, Endpoints
  <2>7. FactsInv' BY <2>1, FactsStay
  <2>8. AnswerInv' BY <2>1, <2>3, <2>4 DEF AnswerInv
  <2>9. UnjudgedInv' BY <2>1 DEF UnjudgedInv, Unjudged
  <2> QED BY <2>5, <2>6, <2>7, <2>8, <2>9
<1> QED BY <1>1, <1>2, <1>3, <1>4, <1>5, <1>6 DEF Next

\* The invariant holds throughout.
LEMMA TripInvariant == Spec => []IInv
<1>1. Init => IInv BY TripInit
<1>2. IInv /\ [Next]_vars => IInv' BY TripNext
<1> QED BY <1>1, <1>2, PTL DEF Spec

-----------------------------------------------------------------------------
(* What an answer with a route was made of.                                *)

Lines == [s \in Station |-> ContextLine(s)]
TheAssessment == Assess(TheRoute, request.profile, facts, Lines, routeRead)

\* What a judged answer is made from.
LEMMA JudgedAnswer ==
    ASSUME IInv, answer.selected # {}
    PROVE  /\ answer.selected = {TheRoute} /\ TheRoute \in routes
           /\ answer = BuildTrip(TheAssessment)
           /\ DOMAIN facts = Queries
           /\ \A r \in routes : ~Precedes(Assess(r, request.profile, facts, Lines, routeRead), TheAssessment)
<1>1. /\ routes # {} /\ routes \subseteq RouteCandidate
      /\ DOMAIN facts = Queries /\ answer = BuildTrip(Selected(AssessAll))
  BY SourceAssumption DEF IInv, AnswerInv, RoutesInv, CallInv
<1> DEFINE A(r) == Assess(r, request.profile, facts, Lines, routeRead)
<1>2. AssessAll = {A(r) : r \in routes} BY DEF AssessAll, Lines
<1>3. \A r \in routes : Assessed(A(r)) /\ A(r).route = r BY <1>1, AssessIsAssessed
<1> HIDE DEF A
<1>4. Selected(AssessAll) \in AssessAll /\ \A b \in AssessAll : ~Precedes(b, Selected(AssessAll))
  <2>1. AssessAll # {} BY <1>1, <1>2
  <2>2. \A a \in AssessAll : Assessed(a) BY <1>2, <1>3
  <2> QED BY <2>1, <2>2, SelectedIsFirst
<1>5. PICK r \in routes : Selected(AssessAll) = A(r) BY <1>2, <1>4
<1>6. answer.selected = {r} BY <1>1, <1>3, <1>5 DEF BuildTrip
<1>7. TheRoute = r BY <1>6 DEF TheRoute
<1>8. TheAssessment = A(r) BY <1>7 DEF TheAssessment, A
<1> QED BY <1>1, <1>2, <1>4, <1>5, <1>6, <1>7, <1>8 DEF A

\* The invariant gives the types.
LEMMA TripTypes == IInv => TypeOK
<1> SUFFICES ASSUME IInv PROVE TypeOK OBVIOUS
<1>1. Cardinality(answer.selected) <= 1 /\ answer.selected \subseteq routes
  <2>1. CASE answer.selected = {} BY <2>1, FS_EmptySet
  <2>2. CASE answer.selected # {}
    <3>1. answer.selected = {TheRoute} /\ TheRoute \in routes BY <2>2, JudgedAnswer
    <3>2. Cardinality({TheRoute}) = 1 BY FS_Singleton
    <3> QED BY <3>1, <3>2
  <2> QED BY <2>1, <2>2
<1> QED BY <1>1 DEF IInv, CallInv, RoutesInv, FactsInv, TypeOK

\* The state of a call is of the form that its actions rely on; of the judged
\* candidates one is the first, and that one is answered
\* (accessibility_service.py, route_ranking.py).
THEOREM TripTypeCorrect == Spec => []TypeOK
BY TripInvariant, TripTypes, PTL

-----------------------------------------------------------------------------
(* What a query returns.                                                   *)

Kinds == {"facilities", "elevators", "restrooms"}

Ended(s, name, outcome) == Lookup(name, s, ContextLine(s), outcome, world[s], StaleRows[s])

MadeOf(fact, s, kind, o) ==
    fact = [value |-> UNION {Ended(s, n, o[n]).value : n \in SourcesOf(kind)},
            sources |-> UNION {Ended(s, n, o[n]).sources : n \in SourcesOf(kind)},
            failed |-> UNION {Ended(s, n, o[n]).failed : n \in SourcesOf(kind)}]

\* A query is made of the lookups of its sources, unless the station is not known.
LEMMA FactForm ==
    ASSUME IInv, NEW s, NEW kind, <<s, kind>> \in DOMAIN facts
    PROVE  /\ s \in Station /\ kind \in Kinds
           /\ \/ /\ Unresolved(s, ContextLine(s))
                 /\ facts[<<s, kind>>] = [Nothing EXCEPT !.failed = {"station_resolution"}]
              \/ /\ ~Unresolved(s, ContextLine(s))
                 /\ \E o \in [SourcesOf(kind) -> {"ok", "stale", "failed"}] :
                       MadeOf(facts[<<s, kind>>], s, kind, o)
<1>1. <<s, kind>> \in Queries BY DEF IInv, FactsInv
<1>2. kind \in Kinds BY <1>1 DEF Queries, QueriesOf, Kinds
<1>3. s \in Station
  <2>1. PICK r \in routes : s \in RouteStations(r) BY <1>1 DEF Queries, QueriesOf
  <2>2. r \in RouteCandidate BY SourceAssumption DEF IInv, CallInv, RoutesInv
  <2> QED BY <2>1, <2>2, StationsOfRoute
<1>4. PICK o \in Endings(kind, Outcomes[request]) :
         facts[<<s, kind>>] = Query(s, ContextLine(s), kind, o, world[s], StaleRows[s])
  BY DEF IInv, FactsInv
<1>5. o \in [SourcesOf(kind) -> {"ok", "stale", "failed"}] BY <1>4 DEF Endings
<1>6. CASE Unresolved(s, ContextLine(s)) BY <1>2, <1>3, <1>4, <1>6 DEF Query
<1>7. CASE ~Unresolved(s, ContextLine(s)) /\ kind = "elevators"
  <2> DEFINE x == Ended(s, "elevator_status", o["elevator_status"])
             y == Ended(s, "elevator_info", o["elevator_info"])
  <2>1. facts[<<s, kind>>] = Both(x, y) BY <1>4, <1>7 DEF Query, Ended
  <2>2. SourcesOf(kind) = {"elevator_status", "elevator_info"} BY <1>7 DEF SourcesOf
  <2>3. /\ UNION {Ended(s, n, o[n]).value : n \in SourcesOf(kind)} = x.value \cup y.value
        /\ UNION {Ended(s, n, o[n]).sources : n \in SourcesOf(kind)} = x.sources \cup y.sources
        /\ UNION {Ended(s, n, o[n]).failed : n \in SourcesOf(kind)} = x.failed \cup y.failed
    BY <2>2
  <2> HIDE DEF x, y
  <2>4. facts[<<s, kind>>] = [value |-> x.value \cup y.value, sources |-> x.sources \cup y.sources,
                              failed |-> x.failed \cup y.failed]
    BY <2>1 DEF Both
  <2>5. MadeOf(facts[<<s, kind>>], s, kind, o) BY <2>3, <2>4 DEF MadeOf
  <2> QED BY <1>2, <1>3, <1>5, <1>7, <2>5
<1>8. CASE ~Unresolved(s, ContextLine(s)) /\ kind # "elevators"
  <2>1. PICK n : SourcesOf(kind) = {n} BY <1>2, <1>8 DEF SourcesOf, Kinds
  <2>2. (CHOOSE name \in SourcesOf(kind) : TRUE) = n BY <2>1
  <2> DEFINE x == Ended(s, n, o[n])
  <2>3. facts[<<s, kind>>] = x BY <1>4, <1>8, <2>2 DEF Query, Ended
  <2>4. x = [value |-> x.value, sources |-> x.sources, failed |-> x.failed]
    BY DEF Ended, Lookup, Nothing, Read
  <2>5. /\ UNION {Ended(s, k, o[k]).value : k \in SourcesOf(kind)} = x.value
        /\ UNION {Ended(s, k, o[k]).sources : k \in SourcesOf(kind)} = x.sources
        /\ UNION {Ended(s, k, o[k]).failed : k \in SourcesOf(kind)} = x.failed
    BY <2>1
  <2> HIDE DEF x
  <2>6. MadeOf(facts[<<s, kind>>], s, kind, o) BY <2>3, <2>4, <2>5 DEF MadeOf
  <2> QED BY <1>2, <1>3, <1>5, <1>8, <2>6
<1> QED BY <1>6, <1>7, <1>8

\* A record that the source holds now, for the line of the station if that is known.
Current(s, f) ==
    /\ f \in world[s]
    /\ ContextLine(s) # NoLine => f.line \in {NoLine, ContextLine(s)}

CurrentRows(s, name) == Rows(name, world[s], Resolve(s, ContextLine(s)).line)

\* A row of a fresh lookup is one the station now has, on its line.
LEMMA RowsAreCurrent == \A s, name : \A f \in CurrentRows(s, name) : Current(s, f)
BY DEF CurrentRows, Rows, Current, Resolve

FactSays(s, kind, fact) ==
    /\ \A f \in fact.value : f.status \in FacilityStatus /\ f.source \in SourcesOf(kind)
    /\ (\A m \in fact.sources : ~m.stale) => \A f \in fact.value : Current(s, f)
    /\ fact.failed \subseteq SourcesOf(kind) \cup {"station_resolution"}
    /\ fact.failed = {} => /\ \A m \in fact.sources : ~m.stale
                           /\ \A n \in SourcesOf(kind) : \E m \in fact.sources :
                                 m.name = n /\ (~m.unsupported => m.success /\ ~m.stale)
    /\ \A n \in SourcesOf(kind) :
          n \notin fact.failed /\ (\E f \in fact.value : f.source = n) => CurrentRows(s, n) \subseteq fact.value

\* What a fact says of the sources it was made of.
LEMMA FactsSay ==
    ASSUME IInv, NEW s, NEW kind, <<s, kind>> \in DOMAIN facts
    PROVE  FactSays(s, kind, facts[<<s, kind>>])
<1> DEFINE fact == facts[<<s, kind>>]
<1>1. CASE fact = [Nothing EXCEPT !.failed = {"station_resolution"}]
  <2>1. fact.value = {} /\ fact.sources = {} /\ fact.failed = {"station_resolution"}
    BY <1>1 DEF Nothing
  <2> HIDE DEF fact
  <2>2. fact.failed # {} BY <2>1
  <2> QED BY <2>1, <2>2 DEF fact, FactSays
<1>2. ASSUME NEW o \in [SourcesOf(kind) -> {"ok", "stale", "failed"}], MadeOf(fact, s, kind, o)
      PROVE  FactSays(s, kind, fact)
  <2> DEFINE E(n) == Ended(s, n, o[n])
             L == SourcesOf(kind)
  <2>1. /\ fact.value = UNION {E(n).value : n \in L}
        /\ fact.sources = UNION {E(n).sources : n \in L}
        /\ fact.failed = UNION {E(n).failed : n \in L}
    BY <1>2 DEF MadeOf
  <2>2. ASSUME NEW n \in L
        PROVE  LookupSays(E(n), n, CurrentRows(s, n), world[s] \cup StaleRows[s])
    <3>1. o[n] \in {"ok", "stale", "failed"} OBVIOUS
    <3> HIDE DEF L
    <3> QED BY <3>1, LookupEnds DEF Ended, CurrentRows
  <2>3. \A f \in world[s] \cup StaleRows[s] : f.status \in FacilityStatus
    <3>1. s \in Station BY FactForm
    <3> QED BY <3>1, SourceAssumption DEF IInv, CallInv
  <2> HIDE DEF E, L, fact
  <2> USE DEF LookupSays
  <2>4. \A f \in fact.value : f.status \in FacilityStatus /\ f.source \in L
    BY <2>1, <2>2, <2>3
  <2>5. ASSUME \A m \in fact.sources : ~m.stale, NEW f \in fact.value PROVE Current(s, f)
    <3>1. PICK n \in L : f \in E(n).value BY <2>1
    <3>2. f \in CurrentRows(s, n) BY <2>1, <2>2, <2>5, <3>1
    <3> QED BY <3>2, RowsAreCurrent
  <2>6. fact.failed \subseteq L BY <2>1, <2>2
  <2>7. ASSUME fact.failed = {}
        PROVE  /\ \A m \in fact.sources : ~m.stale
               /\ \A n \in L : \E m \in fact.sources : m.name = n /\ (~m.unsupported => m.success /\ ~m.stale)
    <3>1. \A n \in L : E(n).failed = {} BY <2>1, <2>7
    <3>2. ASSUME NEW m \in fact.sources PROVE ~m.stale
      <4>1. PICK n \in L : m \in E(n).sources BY <2>1
      <4> QED BY <2>2, <3>1, <4>1
    <3>3. ASSUME NEW n \in L
          PROVE  \E m \in fact.sources : m.name = n /\ (~m.unsupported => m.success /\ ~m.stale)
      <4>1. PICK m : /\ E(n).sources = {m} /\ m.name = n
                     /\ ~m.unsupported /\ E(n).failed = {} => m.success /\ ~m.stale
        BY <2>2
      <4>2. m \in fact.sources BY <2>1, <4>1
      <4> QED BY <3>1, <4>1, <4>2
    <3> QED BY <3>2, <3>3
  <2>8. ASSUME NEW n \in L, n \notin fact.failed, NEW f \in fact.value, f.source = n
        PROVE  CurrentRows(s, n) \subseteq fact.value
    <3>1. f \in E(n).value BY <2>1, <2>2, <2>8
    <3>2. E(n).failed = {} BY <2>1, <2>2, <2>8
    <3>3. E(n).value = CurrentRows(s, n) BY <2>2, <3>1, <3>2
    <3> QED BY <2>1, <3>3
  <2> QED BY <2>4, <2>5, <2>6, <2>7, <2>8 DEF L, FactSays
<1> QED BY <1>1, <1>2, FactForm

-----------------------------------------------------------------------------
(* What failed, and the level UNKNOWN.                                     *)

\* Every station of a candidate is asked about.
LEMMA RouteQueries ==
    ASSUME NEW r \in routes, NEW s \in RouteStations(r)
    PROVE  /\ <<s, "facilities">> \in Queries /\ <<s, "elevators">> \in Queries
           /\ request.profile.need_accessible_restroom => <<s, "restrooms">> \in Queries
BY DEF Queries, QueriesOf

FailedFor(r) == routeRead.failed \cup Metadata(r, facts, "failed")
SourcesFor(r) == routeRead.sources \cup Metadata(r, facts, "sources")

\* What a station of the route has failed and read is in the metadata of the route.
LEMMA FactIsMetadata ==
    ASSUME NEW r, NEW q \in DOMAIN facts, q[1] \in ElevatorCheckStations(r)
    PROVE  facts[q].failed \subseteq FailedFor(r) /\ facts[q].sources \subseteq SourcesFor(r)
BY DEF FailedFor, SourcesFor, Metadata, CheckStations

StatusFailedFor(r) == \E s \in ElevatorCheckStations(r) : "elevator_status" \in facts[<<s, "elevators">>].failed

\* A critical failure is one of the route, or one of the elevator status at a
\* station with a role.
LEMMA CriticalFailureIs ==
    ASSUME IInv, DOMAIN facts = Queries, NEW r \in routes
    PROVE  CriticalFailure(FailedFor(r)) <=> routeRead.failed # {} \/ StatusFailedFor(r)
<1>0. r \in RouteCandidate BY SourceAssumption DEF IInv, CallInv, RoutesInv
<1>1. ASSUME CriticalFailure(FailedFor(r)), routeRead.failed = {} PROVE StatusFailedFor(r)
  <2>1. PICK x \in Critical : x \in Metadata(r, facts, "failed")
    BY <1>1 DEF CriticalFailure, FailedFor
  <2>2. PICK q \in DOMAIN facts : q[1] \in ElevatorCheckStations(r) /\ x \in facts[q].failed
    BY <2>1 DEF Metadata, CheckStations
  <2>3. q = <<q[1], q[2]>> BY DEF IInv, FactsInv, Queries, QueriesOf
  <2>4. q[2] \in Kinds /\ facts[q].failed \subseteq SourcesOf(q[2]) \cup {"station_resolution"}
    BY <2>3, FactForm, FactsSay DEF FactSays
  <2>5. q[2] = "elevators" /\ x = "elevator_status"
    BY <2>1, <2>2, <2>4 DEF Kinds, SourcesOf, Critical
  <2> QED BY <2>2, <2>3, <2>5 DEF StatusFailedFor
<1>2. ASSUME routeRead.failed # {} PROVE CriticalFailure(FailedFor(r))
  BY <1>2 DEF IInv, RoutesInv, CriticalFailure, FailedFor, Critical
<1>3. ASSUME StatusFailedFor(r) PROVE CriticalFailure(FailedFor(r))
  <2>1. PICK s \in ElevatorCheckStations(r) : "elevator_status" \in facts[<<s, "elevators">>].failed
    BY <1>3 DEF StatusFailedFor
  <2>2. <<s, "elevators">> \in DOMAIN facts BY <1>0, StationsOfRoute, RouteQueries
  <2>3. "elevator_status" \in FailedFor(r) BY <2>1, <2>2, FactIsMetadata
  <2> QED BY <2>3 DEF CriticalFailure, Critical
<1> QED BY <1>1, <1>2, <1>3

\* The alignment raises LOW to CAUTION and changes no other level.
LEMMA AlignedLevel ==
    ASSUME NEW score, NEW codes, NEW failed, NEW checks, NEW p
    PROVE  LET risk == AlignedRisk(score, codes, failed, checks, p)
               floor == CautionFloor(codes, checks, p)
           IN  /\ risk.level = "UNKNOWN" <=> CriticalFailure(failed)
               /\ risk.level = "HIGH" <=> ~CriticalFailure(failed) /\ score >= 70
               /\ risk.level = "LOW" <=> ~CriticalFailure(failed) /\ ~(score >= 35) /\ ~floor /\ ~(score >= 70)
               /\ risk.level \in {"UNKNOWN", "HIGH", "CAUTION", "LOW"}
               /\ risk.score = IF ~CriticalFailure(failed) /\ floor /\ score < 35 THEN 35 ELSE score
<1> DEFINE level == RiskLevel(score, failed)
           floor == CautionFloor(codes, checks, p)
           risk == AlignedRisk(score, codes, failed, checks, p)
<1>1. /\ risk.score = IF level # "UNKNOWN" /\ floor /\ score < 35 THEN 35 ELSE score
      /\ risk.level = IF level # "UNKNOWN" /\ floor /\ level = "LOW" THEN "CAUTION" ELSE level
  BY DEF AlignedRisk
<1>2. /\ level = "UNKNOWN" <=> CriticalFailure(failed)
      /\ level = "HIGH" <=> ~CriticalFailure(failed) /\ score >= 70
      /\ level = "LOW" <=> ~CriticalFailure(failed) /\ ~(score >= 70) /\ ~(score >= 35)
      /\ level \in {"UNKNOWN", "HIGH", "CAUTION", "LOW"}
  <2>1. CASE CriticalFailure(failed) BY <2>1 DEF RiskLevel
  <2>2. CASE ~CriticalFailure(failed) /\ score >= 70 BY <2>2 DEF RiskLevel
  <2>3. CASE ~CriticalFailure(failed) /\ ~(score >= 70) /\ score >= 35 BY <2>3 DEF RiskLevel
  <2>4. CASE ~CriticalFailure(failed) /\ ~(score >= 70) /\ ~(score >= 35) BY <2>4 DEF RiskLevel
  <2> QED BY <2>1, <2>2, <2>3, <2>4
<1> HIDE DEF level, floor, risk
<1>3. /\ risk.level = "UNKNOWN" <=> CriticalFailure(failed)
      /\ risk.level = "HIGH" <=> ~CriticalFailure(failed) /\ score >= 70
      /\ risk.level = "LOW" <=> ~CriticalFailure(failed) /\ ~(score >= 35) /\ ~floor /\ ~(score >= 70)
      /\ risk.level \in {"UNKNOWN", "HIGH", "CAUTION", "LOW"}
      /\ risk.score = IF ~CriticalFailure(failed) /\ floor /\ score < 35 THEN 35 ELSE score
  BY <1>1, <1>2
<1> QED BY <1>3 DEF floor, risk

Candidate(r) == Assess(r, request.profile, facts, Lines, routeRead)

\* A candidate is UNKNOWN exactly if something critical failed for it.
LEMMA UnknownIs ==
    ASSUME NEW r
    PROVE  /\ Candidate(r).failed = FailedFor(r) /\ Candidate(r).sources = SourcesFor(r)
           /\ Candidate(r).level = "UNKNOWN" <=> CriticalFailure(FailedFor(r))
           /\ Candidate(r).status = CandidateStatus(FailedFor(r), SourcesFor(r))
           /\ Candidate(r).status \in {"SUCCESS", "PARTIAL"}
<1>1. \A score, codes, failed, checks, p :
         AlignedRisk(score, codes, failed, checks, p).level = "UNKNOWN" <=> CriticalFailure(failed)
  BY AlignedLevel
<1>2. \A failed, sources : CandidateStatus(failed, sources) \in {"SUCCESS", "PARTIAL"}
  BY DEF CandidateStatus
<1> QED BY <1>1, <1>2 DEF Candidate, Assess, FailedFor, SourcesFor

\* The candidate an answer recommends, and the results it was judged on.
LEMMA TheAnswer ==
    ASSUME IInv, Judged
    PROVE  /\ TheRoute \in routes /\ TheRoute \in RouteCandidate
           /\ DOMAIN facts = Queries
           /\ answer = BuildTrip(Candidate(TheRoute))
           /\ \A r \in routes : ~Precedes(Candidate(r), Candidate(TheRoute))
           /\ answer.level = Candidate(TheRoute).level /\ answer.score = Candidate(TheRoute).score
           /\ answer.codes = Candidate(TheRoute).codes /\ answer.checks = Candidate(TheRoute).checks
           /\ answer.failed = FailedFor(TheRoute) /\ answer.sources = SourcesFor(TheRoute)
           /\ answer.status = CandidateStatus(answer.failed, answer.sources)
           /\ answer.confidence = Confidence(answer.status, answer.level, answer.failed, answer.sources)
           /\ answer.judgement = Judgement(answer.status, answer.level, answer.codes, answer.failed,
                                           answer.checks, request.profile)
<1>1. answer.selected # {} BY DEF Judged
<1>2. /\ TheRoute \in routes /\ answer = BuildTrip(Candidate(TheRoute)) /\ DOMAIN facts = Queries
      /\ \A r \in routes : ~Precedes(Candidate(r), Candidate(TheRoute))
  BY <1>1, JudgedAnswer DEF Candidate, TheAssessment
<1>3. TheRoute \in RouteCandidate
  BY <1>2, SourceAssumption DEF IInv, CallInv, RoutesInv
<1>4. /\ Candidate(TheRoute).failed = FailedFor(TheRoute)
      /\ Candidate(TheRoute).sources = SourcesFor(TheRoute)
      /\ Candidate(TheRoute).status = CandidateStatus(FailedFor(TheRoute), SourcesFor(TheRoute))
  BY UnknownIs
<1> DEFINE c == Candidate(TheRoute)
<1> HIDE DEF c
<1>5. /\ answer.level = c.level /\ answer.score = c.score /\ answer.codes = c.codes
      /\ answer.checks = c.checks /\ answer.failed = c.failed /\ answer.sources = c.sources
      /\ answer.status = c.status
      /\ answer.confidence = Confidence(c.status, c.level, c.failed, c.sources)
      /\ answer.judgement = Judgement(c.status, c.level, c.codes, c.failed, c.checks, request.profile)
  <2>1. answer = BuildTrip(c) BY <1>2 DEF c
  <2> QED BY <2>1 DEF BuildTrip
<1> QED BY <1>2, <1>3, <1>4, <1>5 DEF c

\* What is unknown is told with low confidence.
LEMMA UnknownIsUnsure ==
    ASSUME NEW status, NEW failed, NEW sources
    PROVE  Confidence(status, "UNKNOWN", failed, sources) = "LOW"
BY DEF Confidence

\* In the invariant, what cannot be known is called unknown.
LEMMA TripUnknown == IInv => UnknownWhereFailed
<1> SUFFICES ASSUME IInv, Judged
             PROVE  /\ routeRead.failed # {} \/ StatusFailedFor(TheRoute) =>
                          answer.level = "UNKNOWN" /\ answer.judgement = "cannot tell" /\ answer.confidence = "LOW"
                    /\ answer.level = "UNKNOWN" /\ routeRead.failed = {} =>
                          \A r \in routes : StatusFailedFor(r)
  BY DEF UnknownWhereFailed, CriticalFailureIsUnknown, JudgedBeforeUnknown, StatusFailedFor
<1>1. TheRoute \in routes /\ DOMAIN facts = Queries BY TheAnswer
<1>2. ASSUME routeRead.failed # {} \/ StatusFailedFor(TheRoute)
      PROVE  answer.level = "UNKNOWN" /\ answer.judgement = "cannot tell" /\ answer.confidence = "LOW"
  <2>1. CriticalFailure(FailedFor(TheRoute)) BY <1>1, <1>2, CriticalFailureIs
  <2>2. answer.level = "UNKNOWN" BY <2>1, TheAnswer, UnknownIs
  <2>3. answer.status \in {"SUCCESS", "PARTIAL"} BY TheAnswer DEF CandidateStatus
  <2>6. /\ answer.judgement = Judgement(answer.status, "UNKNOWN", answer.codes, answer.failed,
                                       answer.checks, request.profile)
        /\ answer.confidence = Confidence(answer.status, "UNKNOWN", answer.failed, answer.sources)
    BY <2>2, TheAnswer
  <2>4. answer.judgement = "cannot tell" BY <2>3, <2>6 DEF Judgement
  <2>5. answer.confidence = "LOW" BY <2>6, UnknownIsUnsure
  <2> QED BY <2>2, <2>4, <2>5
<1>3. ASSUME answer.level = "UNKNOWN", routeRead.failed = {}, NEW r \in routes PROVE StatusFailedFor(r)
  <2>1. Candidate(TheRoute).level = "UNKNOWN" BY <1>3, TheAnswer
  <2>2. ~Precedes(Candidate(r), Candidate(TheRoute)) BY TheAnswer
  <2>3. ~(RiskOrder[Candidate(r).level] < RiskOrder[Candidate(TheRoute).level])
    <3>1. \A a : SortKey(a)[1] = RiskOrder[a.level] /\ 1 \in DOMAIN SortKey(a) BY DEF SortKey
    <3>2. \A a, b : SortKey(a)[1] < SortKey(b)[1] => Precedes(a, b)
      <4>1. ASSUME NEW a, NEW b, SortKey(a)[1] < SortKey(b)[1] PROVE Precedes(a, b)
        <5>1. \A j \in 1 .. 1 - 1 : SortKey(a)[j] = SortKey(b)[j] OBVIOUS
        <5> QED BY <3>1, <4>1, <5>1 DEF Precedes
      <4> QED BY <4>1
    <3> QED BY <2>2, <3>1, <3>2
  <2>4. r \in RouteCandidate BY SourceAssumption DEF IInv, CallInv, RoutesInv
  <2>5. Candidate(r).level \in DOMAIN RiskOrder BY <2>4, AssessIsAssessed DEF Candidate, Assessed
  <2>6. Candidate(r).level = "UNKNOWN" BY <2>1, <2>3, <2>5 DEF RiskOrder
  <2> QED BY <1>1, <1>3, <2>6, UnknownIs, CriticalFailureIs
<1> QED BY <1>2, <1>3

\* What could not be read for the answered route makes its answer unknown, and
\* an unknown one is answered only if no candidate can be judged
\* (risk_scoring.py, route_ranking.py).
THEOREM UnknownExactlyWhereFailed == Spec => []UnknownWhereFailed
BY TripInvariant, TripUnknown, PTL

-----------------------------------------------------------------------------
(* The level, the score and the verdict.                                   *)

FoundFor(r) == EvaluateRoute(r, request.profile, facts, FailedFor(r), SourcesFor(r))

\* What an assessed candidate consists of.
LEMMA CandidateIs ==
    ASSUME NEW r \in RouteCandidate
    PROVE  LET c == Candidate(r)
               risk == AlignedRisk(TotalScore(FoundFor(r)), c.codes, FailedFor(r), c.checks, request.profile)
           IN  /\ TotalScore(FoundFor(r)) \in 0 .. 100
               /\ c.level = risk.level /\ c.score = risk.score
               /\ c.codes = {x[1] : x \in AlignCoverage(FoundFor(r), facts)}
               /\ c.checks = {Check(r, request.profile, facts, Lines, s) : s \in CheckStations(r)}
<1>1. TotalScore(FoundFor(r)) \in 0 .. 100 BY ReasonsOfRoute, ScoreInRange DEF FoundFor
<1> QED BY <1>1 DEF Candidate, Assess, FoundFor, FailedFor, SourcesFor

\* The level a score stands for.
LEMMA BandOf ==
    ASSUME NEW score \in 0 .. 100, NEW codes, NEW failed, NEW checks, NEW p
    PROVE  LET risk == AlignedRisk(score, codes, failed, checks, p)
           IN  /\ risk.level = "LOW" => risk.score < 35
               /\ risk.level = "CAUTION" => risk.score \in 35 .. 69
               /\ risk.level = "HIGH" => risk.score \in 70 .. 100
<1> DEFINE risk == AlignedRisk(score, codes, failed, checks, p)
           floor == CautionFloor(codes, checks, p)
<1>1. /\ risk.level = "UNKNOWN" <=> CriticalFailure(failed)
      /\ risk.level = "HIGH" <=> ~CriticalFailure(failed) /\ score >= 70
      /\ risk.level = "LOW" <=> ~CriticalFailure(failed) /\ ~(score >= 35) /\ ~floor /\ ~(score >= 70)
      /\ risk.level \in {"UNKNOWN", "HIGH", "CAUTION", "LOW"}
      /\ risk.score = IF ~CriticalFailure(failed) /\ floor /\ score < 35 THEN 35 ELSE score
  BY AlignedLevel
<1> HIDE DEF risk, floor
<1>2. /\ risk.level = "LOW" => risk.score < 35
      /\ risk.level = "CAUTION" => risk.score \in 35 .. 69
      /\ risk.level = "HIGH" => risk.score \in 70 .. 100
  BY <1>1
<1> QED BY <1>2 DEF risk

\* An answer has one of four levels.
LEMMA LevelIs == ASSUME IInv, Judged PROVE answer.level \in {"UNKNOWN", "HIGH", "CAUTION", "LOW"}
BY TheAnswer, CandidateIs, AlignedLevel

\* In the invariant, level, score and words agree.
LEMMA TripLevels == IInv => LevelScoreWords
<1> SUFFICES ASSUME IInv, Judged
             PROVE  /\ answer.level = "LOW" => answer.score < 35 /\ answer.judgement \in {"possible", "caution"}
                    /\ answer.level = "CAUTION" => answer.score \in 35 .. 69 /\ answer.judgement = "caution"
                    /\ answer.level = "HIGH" => answer.score \in 70 .. 100 /\ answer.judgement = "not recommended"
                    /\ answer.level = "UNKNOWN" <=> answer.judgement = "cannot tell"
                    /\ answer.judgement = "possible" => answer.failed = {} /\ answer.status = "SUCCESS"
  BY DEF LevelScoreWords
<1> DEFINE score == TotalScore(FoundFor(TheRoute))
           risk == AlignedRisk(score, answer.codes, answer.failed, answer.checks, request.profile)
<1>1. /\ TheRoute \in RouteCandidate
      /\ answer.level = Candidate(TheRoute).level /\ answer.score = Candidate(TheRoute).score
      /\ answer.codes = Candidate(TheRoute).codes /\ answer.checks = Candidate(TheRoute).checks
      /\ answer.failed = FailedFor(TheRoute)
      /\ answer.status = CandidateStatus(answer.failed, answer.sources)
  BY TheAnswer
<1>2. score \in 0 .. 100 /\ answer.level = risk.level /\ answer.score = risk.score
  BY <1>1, CandidateIs
<1>3. /\ answer.level = "LOW" => answer.score < 35
      /\ answer.level = "CAUTION" => answer.score \in 35 .. 69
      /\ answer.level = "HIGH" => answer.score \in 70 .. 100
  <2> HIDE DEF score
  <2>1. /\ risk.level = "LOW" => risk.score < 35
        /\ risk.level = "CAUTION" => risk.score \in 35 .. 69
        /\ risk.level = "HIGH" => risk.score \in 70 .. 100
    BY <1>2, BandOf
  <2> HIDE DEF risk
  <2> QED BY <1>2, <2>1
<1>4. /\ answer.level \in {"UNKNOWN", "HIGH", "CAUTION", "LOW"}
      /\ answer.level = "UNKNOWN" <=> CriticalFailure(answer.failed)
  BY <1>2, AlignedLevel
<1>5. answer.status \in {"SUCCESS", "PARTIAL"} BY <1>1 DEF CandidateStatus
<1> DEFINE words == Judgement(answer.status, answer.level, answer.codes, answer.failed,
                              answer.checks, request.profile)
<1>6. answer.judgement = words BY TheAnswer
<1>7. /\ answer.level = "UNKNOWN" <=> words = "cannot tell"
      /\ answer.level = "HIGH" => words = "not recommended"
      /\ answer.level = "CAUTION" => words = "caution"
      /\ answer.level = "LOW" => words \in {"possible", "caution"}
      /\ words = "possible" => answer.failed = {} /\ answer.status = "SUCCESS"
  BY <1>4, <1>5 DEF Judgement
<1> HIDE DEF words
<1> QED BY <1>3, <1>6, <1>7

\* Each level has its band of scores and its words; what is called possible is
\* LOW, and nothing of it failed (risk_alignment.py, user_message_decision.py).
THEOREM LevelScoreAndWordsAgree == Spec => []LevelScoreWords
BY TripInvariant, TripLevels, PTL

-----------------------------------------------------------------------------
(* What the level LOW and the confidence HIGH promise.                      *)

\* No code of an answer is one of the codes that make a caution only if no
\* reason is: renaming a reason for the coverage keeps it among them.
LEMMA NoCautionReason ==
    ASSUME NEW found, NEW x \in found,
           {y[1] : y \in AlignCoverage(found, facts)} \cap CautionCodes = {}
    PROVE  x[1] \notin CautionCodes
<1> DEFINE code(r) ==
             CASE /\ r[1] = "elevator_not_found"
                  /\ SourcesUnsupported(facts, r[2], {"elevator_status", "elevator_info"})
                    -> "elevator_source_unsupported"
               [] /\ r[1] = "no_accessible_restroom_when_required"
                  /\ SourcesUnsupported(facts, r[2], {"restroom"})
                    -> "restroom_source_unsupported"
               [] OTHER -> r[1]
<1>1. SUFFICES ASSUME x[1] \in CautionCodes PROVE FALSE OBVIOUS
<1>2. code(x) \in {x[1], "elevator_source_unsupported", "restroom_source_unsupported"} OBVIOUS
<1>3. code(x) \in CautionCodes BY <1>1, <1>2 DEF CautionCodes
<1>4. <<code(x), x[2]>> \in AlignCoverage(found, facts) BY DEF AlignCoverage
<1> HIDE DEF code
<1>5. code(x) \in {y[1] : y \in AlignCoverage(found, facts)} BY <1>4
<1> QED BY <1>3, <1>5

\* What a route of low risk promises.
LEMMA LowMeans ==
    ASSUME IInv, Judged, answer.level = "LOW"
    PROVE  /\ ~CriticalFailure(answer.failed)
           /\ ~CautionFloor(answer.codes, answer.checks, request.profile)
           /\ \A x \in FoundFor(TheRoute) : x[1] \notin CautionCodes
           /\ RequiresElevator(request.profile) => \A c \in answer.checks : ~Unverified(c)
           /\ \A m \in answer.sources : ~m.stale
           /\ TheRoute.transfers = 0
<1> DEFINE score == TotalScore(FoundFor(TheRoute))
           risk == AlignedRisk(score, answer.codes, answer.failed, answer.checks, request.profile)
<1>1. /\ TheRoute \in RouteCandidate
      /\ answer.failed = FailedFor(TheRoute) /\ answer.sources = SourcesFor(TheRoute)
  BY TheAnswer
<1>2. answer.level = risk.level BY <1>1, TheAnswer, CandidateIs
<1>3. ~CriticalFailure(answer.failed) /\ ~CautionFloor(answer.codes, answer.checks, request.profile)
  BY <1>2, AlignedLevel
<1>4. answer.codes = {x[1] : x \in AlignCoverage(FoundFor(TheRoute), facts)}
  BY <1>1, TheAnswer, CandidateIs
<1>5. \A x \in FoundFor(TheRoute) : x[1] \notin CautionCodes
  BY <1>3, <1>4, NoCautionReason DEF CautionFloor
<1>6. \A c : <<c, Nowhere>> \in RouteReasons(TheRoute, request.profile, answer.failed, answer.sources)
             => c \notin CautionCodes
  BY <1>1, <1>5 DEF FoundFor, EvaluateRoute
<1>7. \A m \in answer.sources : ~m.stale
  BY <1>6 DEF RouteReasons, CautionCodes
<1>8. ~(TheRoute.transfers > 0)
  BY <1>6 DEF RouteReasons, CautionCodes
<1>9. TheRoute.transfers \in Nat BY <1>1 DEF RouteCandidate
<1> QED BY <1>3, <1>5, <1>7, <1>8, <1>9 DEF CautionFloor

\* To whoever needs them, the elevators of a station with a role give no reason for care.
LEMMA LowStates ==
    ASSUME IInv, Judged, answer.level = "LOW", RequiresElevator(request.profile),
           NEW s \in ElevatorCheckStations(TheRoute)
    PROVE  ElevatorCode(AnswerState(ElevatorsAt(facts, s))) \cap CautionCodes = {}
<1> DEFINE codes(t) == ElevatorCode(AnswerState(ElevatorsAt(facts, t)))
                          \cup {c \in {"escalator_only_for_wheelchair"} : EscalatorOnly(facts, request.profile, t)}
<1>1. ElevatorReasons(TheRoute, request.profile, facts) =
         UNION {codes(t) \X {t} : t \in ElevatorCheckStations(TheRoute)}
  BY DEF ElevatorReasons
<1>2. ElevatorCode(AnswerState(ElevatorsAt(facts, s))) \subseteq codes(s) OBVIOUS
<1> HIDE DEF codes
<1>3. \A c \in codes(s) : <<c, s>> \in FoundFor(TheRoute)
  BY <1>1 DEF FoundFor, EvaluateRoute
<1> QED BY <1>2, <1>3, LowMeans

\* The answer AVAILABLE is given only if the status source lists an elevator
\* and every one that it lists is running.
LEMMA AvailableMeans ==
    ASSUME NEW E, \A e \in E : e.status \in FacilityStatus, AnswerState(E) = "AVAILABLE"
    PROVE  Operational(E) # {} /\ \A e \in Operational(E) : e.status = "AVAILABLE"
<1> DEFINE seen == {e.status : e \in Operational(E)}
<1>1. seen \subseteq FacilityStatus BY DEF Operational
<1>2. IsFiniteSet(seen)
  <2>1. FacilityStatus = {"AVAILABLE"} \cup {"UNAVAILABLE"} \cup {"MAINTENANCE"} \cup {"UNKNOWN"}
    BY DEF FacilityStatus
  <2>2. IsFiniteSet({"AVAILABLE"} \cup {"UNAVAILABLE"}) BY FS_Singleton, FS_Union
  <2>3. IsFiniteSet({"AVAILABLE"} \cup {"UNAVAILABLE"} \cup {"MAINTENANCE"})
    BY <2>2, FS_Singleton, FS_Union
  <2>4. IsFiniteSet(FacilityStatus) BY <2>1, <2>3, FS_Singleton, FS_Union
  <2> QED BY <1>1, <2>4, FS_Subset
<1> HIDE DEF seen
<1>3. Cardinality(seen) \in Nat /\ (Cardinality(seen) = 0 <=> seen = {})
  BY <1>2, FS_CardinalityType, FS_EmptySet
<1>4. Cardinality(seen) = 1
  <2>1. AnswerState(E) = CASE Cardinality(seen) > 1 -> "MIXED"
                           [] Cardinality(seen) = 1 -> CHOOSE status \in seen : TRUE
                           [] seen = {} /\ E # {} -> "UNKNOWN"
                           [] OTHER -> "NOT_FOUND"
    BY DEF AnswerState, seen
  <2>2. CASE Cardinality(seen) > 1 BY <1>3, <2>1, <2>2
  <2>3. CASE Cardinality(seen) = 0 BY <1>3, <2>1, <2>3
  <2> QED BY <1>3, <2>2, <2>3
<1>5. AnswerState(E) = CHOOSE status \in seen : TRUE
  BY <1>3, <1>4 DEF AnswerState, seen
<1>6. PICK x : seen = {x} BY <1>2, <1>4, FS_Singleton
<1>7. seen = {"AVAILABLE"} BY <1>5, <1>6
<1> QED BY <1>7 DEF seen

\* A station whose evidence has no gap, and whose elevators give no reason.
LEMMA CheckMeans ==
    ASSUME NEW r, NEW p, NEW s, RequiresElevator(p),
           \A e \in ElevatorsAt(facts, s) : e.status \in FacilityStatus,
           ElevatorCode(AnswerState(ElevatorsAt(facts, s))) \cap CautionCodes = {},
           ~Unverified(Check(r, p, facts, Lines, s))
    PROVE  /\ Operational(ElevatorsAt(facts, s)) # {}
           /\ \A e \in Operational(ElevatorsAt(facts, s)) : e.status = "AVAILABLE"
           /\ Lines[s] # NoLine
           /\ \A leg \in Legs(StationRole(r, s)) : \E e \in ElevatorsAt(facts, s) : leg \in e.paths
<1> DEFINE E == ElevatorsAt(facts, s)
           c == Check(r, p, facts, Lines, s)
           state == AlignedState(AnswerState(E), StationSources(facts, s))
           needed == RequiresElevatorForCheck(p)
<1>1. /\ c.status = RepresentativeStatus(state)
      /\ c.lineMatch = LineEvidence(c.has, E, Lines[s])
      /\ c.platform = PathEvidence(needed /\ TRUE, c.has, E, "platform")
      /\ c.transfer = PathEvidence(needed /\ StationRole(r, s) = "transfer", c.has, E, "transfer")
      /\ c.exit = PathEvidence(needed /\ StationRole(r, s) # "transfer", c.has, E, "exit")
  BY DEF Check
<1> HIDE DEF c, E, state
<1>2. /\ c.status # "UNKNOWN" /\ ~Gap(c.lineMatch) /\ ~Gap(c.platform) /\ ~Gap(c.transfer) /\ ~Gap(c.exit)
  BY DEF Unverified, c
<1>3. needed BY DEF RequiresElevatorForCheck
<1>4. \A on, has, elevators, leg :
         on /\ ~Gap(PathEvidence(on, has, elevators, leg)) => \E e \in elevators : leg \in e.paths
  BY DEF Gap, PathEvidence
<1>5. \A leg \in Legs(StationRole(r, s)) : \E e \in E : leg \in e.paths
  <2>1. \E e \in E : "platform" \in e.paths
    <3>1. ~Gap(PathEvidence(TRUE, c.has, E, "platform")) BY <1>1, <1>2, <1>3
    <3> QED BY <1>4, <3>1
  <2>2. CASE StationRole(r, s) = "transfer"
    <3>1. ~Gap(PathEvidence(TRUE, c.has, E, "transfer")) BY <1>1, <1>2, <1>3, <2>2
    <3>2. \E e \in E : "transfer" \in e.paths BY <1>4, <3>1
    <3> QED BY <2>1, <2>2, <3>2 DEF Legs
  <2>3. CASE StationRole(r, s) # "transfer"
    <3>1. ~Gap(PathEvidence(TRUE, c.has, E, "exit")) BY <1>1, <1>2, <1>3, <2>3
    <3>2. \E e \in E : "exit" \in e.paths BY <1>4, <3>1
    <3> QED BY <2>1, <2>3, <3>2 DEF Legs
  <2> QED BY <2>2, <2>3
<1>6. Lines[s] # NoLine BY <1>1, <1>2 DEF LineEvidence, Gap
<1>7. state \in {"AVAILABLE", "MAINTENANCE", "UNAVAILABLE"}
  BY <1>1, <1>2 DEF RepresentativeStatus
<1>8. AnswerState(E) = state BY <1>7 DEF AlignedState, state
<1>9. AnswerState(E) = "AVAILABLE" BY <1>7, <1>8 DEF ElevatorCode, CautionCodes, E
<1>10. Operational(E) # {} /\ \A e \in Operational(E) : e.status = "AVAILABLE"
  BY <1>9, AvailableMeans DEF E
<1> QED BY <1>5, <1>6, <1>10 DEF E

\* The facts about the elevators of a station of the answered route.
LEMMA RoleFacts ==
    ASSUME IInv, Judged, NEW s \in ElevatorCheckStations(TheRoute)
    PROVE  /\ <<s, "facilities">> \in DOMAIN facts /\ <<s, "elevators">> \in DOMAIN facts
           /\ \A kind : <<s, kind>> \in DOMAIN facts =>
                 /\ facts[<<s, kind>>].failed \subseteq answer.failed
                 /\ facts[<<s, kind>>].sources \subseteq answer.sources
           /\ ElevatorsAt(facts, s) = {f \in facts[<<s, "facilities">>].value \cup facts[<<s, "elevators">>].value :
                                         f.type = "ELEVATOR"}
           /\ s \in Station
<1>1. TheRoute \in routes /\ TheRoute \in RouteCandidate /\ DOMAIN facts = Queries BY TheAnswer
<1>2. s \in RouteStations(TheRoute) /\ s \in Station BY <1>1, StationsOfRoute
<1>3. <<s, "facilities">> \in DOMAIN facts /\ <<s, "elevators">> \in DOMAIN facts
  BY <1>1, <1>2, RouteQueries
<1>4. ASSUME NEW kind, <<s, kind>> \in DOMAIN facts
      PROVE  /\ facts[<<s, kind>>].failed \subseteq answer.failed
             /\ facts[<<s, kind>>].sources \subseteq answer.sources
  BY <1>4, FactIsMetadata, TheAnswer
<1>5. DOMAIN facts \cap ({s} \X {"facilities", "elevators"}) = {<<s, "facilities">>, <<s, "elevators">>}
  BY <1>3
<1>6. ElevatorsAt(facts, s) = {f \in facts[<<s, "facilities">>].value \cup facts[<<s, "elevators">>].value :
                                  f.type = "ELEVATOR"}
  BY <1>5 DEF ElevatorsAt, RecordsAt
<1> QED BY <1>2, <1>3, <1>4, <1>6

\* In the invariant, low means running.
LEMMA TripLow == IInv => LowMeansRunning
<1> SUFFICES ASSUME IInv, Judged, answer.level = "LOW", RequiresElevator(request.profile),
                    NEW s \in ElevatorCheckStations(TheRoute)
             PROVE  LET elevators == {f \in world[s] : f.type = "ELEVATOR" /\ f.line \in {NoLine, ContextLine(s)}}
                        reported == {f \in elevators : f.source = "elevator_status"}
                    IN  /\ TheRoute.transfers = 0
                        /\ reported # {} /\ \A f \in reported : f.status = "AVAILABLE"
                        /\ \A leg \in Legs(StationRole(TheRoute, s)) : \E e \in elevators : leg \in e.paths
  BY DEF LowMeansRunning
<1> DEFINE elevators == {f \in world[s] : f.type = "ELEVATOR" /\ f.line \in {NoLine, ContextLine(s)}}
           reported == {f \in elevators : f.source = "elevator_status"}
           E == ElevatorsAt(facts, s)
           A == facts[<<s, "facilities">>]
           B == facts[<<s, "elevators">>]
<1>1. /\ <<s, "facilities">> \in DOMAIN facts /\ <<s, "elevators">> \in DOMAIN facts
      /\ E = {f \in A.value \cup B.value : f.type = "ELEVATOR"}
      /\ A.sources \subseteq answer.sources /\ B.sources \subseteq answer.sources
      /\ B.failed \subseteq answer.failed /\ s \in Station
  BY RoleFacts
<1>2. /\ \A f \in A.value : f.status \in FacilityStatus /\ f.source = "facility_info"
      /\ \A f \in B.value : f.status \in FacilityStatus
      /\ (\A m \in A.sources : ~m.stale) => \A f \in A.value : Current(s, f)
      /\ (\A m \in B.sources : ~m.stale) => \A f \in B.value : Current(s, f)
      /\ "elevator_status" \notin B.failed /\ (\E f \in B.value : f.source = "elevator_status")
         => CurrentRows(s, "elevator_status") \subseteq B.value
  BY <1>1, FactsSay, ZenonT(60) DEF FactSays, SourcesOf
<1>3. /\ ~CriticalFailure(answer.failed) /\ TheRoute.transfers = 0
      /\ \A m \in answer.sources : ~m.stale
      /\ \A x \in FoundFor(TheRoute) : x[1] \notin CautionCodes
      /\ \A c \in answer.checks : ~Unverified(c)
  BY LowMeans
<1> HIDE DEF A, B, E
<1>4. \A f \in A.value \cup B.value : Current(s, f) BY <1>1, <1>2, <1>3
<1>5. ElevatorCode(AnswerState(E)) \cap CautionCodes = {} BY LowStates DEF E
<1>6. Check(TheRoute, request.profile, facts, Lines, s) \in answer.checks
  BY TheAnswer, CandidateIs DEF CheckStations
<1>7. \A e \in E : e.status \in FacilityStatus BY <1>1, <1>2
<1>8. /\ Operational(E) # {} /\ \A e \in Operational(E) : e.status = "AVAILABLE"
      /\ Lines[s] # NoLine
      /\ \A leg \in Legs(StationRole(TheRoute, s)) : \E e \in E : leg \in e.paths
  BY <1>3, <1>5, <1>6, <1>7, CheckMeans DEF E
<1>9. ContextLine(s) # NoLine BY <1>1, <1>8 DEF Lines
<1>10. E \subseteq elevators BY <1>1, <1>4, <1>9 DEF Current
<1>11. \A leg \in Legs(StationRole(TheRoute, s)) : \E e \in elevators : leg \in e.paths
  BY <1>8, <1>10
<1>12. PICK e \in E : e.source = "elevator_status" BY <1>8 DEF Operational
<1>13. e \in B.value /\ e \in reported BY <1>1, <1>2, <1>10, <1>12
<1>14. CurrentRows(s, "elevator_status") \subseteq B.value
  BY <1>1, <1>2, <1>3, <1>12, <1>13 DEF CriticalFailure, Critical
<1>15. ASSUME NEW f \in reported PROVE f.status = "AVAILABLE"
  <2>1. Resolve(s, ContextLine(s)).line = ContextLine(s) BY <1>9 DEF Resolve
  <2>2. f \in CurrentRows(s, "elevator_status") BY <2>1 DEF CurrentRows, Rows
  <2>3. f \in Operational(E) BY <1>1, <1>14, <2>2 DEF Operational
  <2> QED BY <1>8, <2>3
<1> QED BY <1>3, <1>11, <1>13, <1>15

\* To whoever cannot do without elevators LOW promises that no change is needed,
\* that all elevators reported for their stations run, and that every leg of the
\* way is known (decision_engine.py, accessibility_checks.py, risk_alignment.py).
THEOREM LowIsAPromise == Spec => []LowMeansRunning
BY TripInvariant, TripLow, PTL

\* In the invariant, high confidence was read from live sources.
LEMMA TripConfidence == IInv => HighConfidenceIsFresh
<1> SUFFICES ASSUME IInv, Judged, answer.confidence = "HIGH",
                    NEW s \in ElevatorCheckStations(TheRoute), NEW name \in Core \ {"shortest_route"}
             PROVE  \E m \in facts[<<s, "facilities">>].sources \cup facts[<<s, "elevators">>].sources :
                       m.name = name /\ m.success /\ ~m.stale
  BY DEF HighConfidenceIsFresh
<1>1. answer.failed = {} /\ \A m \in answer.sources : ~m.unsupported
  <2>1. answer.confidence = Confidence(answer.status, answer.level, answer.failed, answer.sources)
    BY TheAnswer
  <2> QED BY <2>1 DEF Confidence
<1>2. /\ <<s, "facilities">> \in DOMAIN facts /\ <<s, "elevators">> \in DOMAIN facts
      /\ facts[<<s, "facilities">>].failed = {} /\ facts[<<s, "elevators">>].failed = {}
      /\ facts[<<s, "facilities">>].sources \subseteq answer.sources
      /\ facts[<<s, "elevators">>].sources \subseteq answer.sources
  BY <1>1, RoleFacts
<1>3. CASE name = "facility_info"
  <2>1. \E m \in facts[<<s, "facilities">>].sources : m.name = name /\ (~m.unsupported => m.success /\ ~m.stale)
    BY <1>2, <1>3, FactsSay DEF FactSays, SourcesOf
  <2> QED BY <1>1, <1>2, <2>1
<1>4. CASE name = "elevator_status"
  <2>1. \E m \in facts[<<s, "elevators">>].sources : m.name = name /\ (~m.unsupported => m.success /\ ~m.stale)
    BY <1>2, <1>4, FactsSay DEF FactSays, SourcesOf
  <2> QED BY <1>1, <1>2, <2>1
<1> QED BY <1>3, <1>4 DEF Core, Critical

\* With the confidence HIGH every core source was read freshly for every station
\* with a role on the route (evidence.py).
THEOREM HighConfidenceWasRead == Spec => []HighConfidenceIsFresh
BY TripInvariant, TripConfidence, PTL

\* Every candidate that was kept has the lines the traveller named.
LEMMA TripLine == IInv => LineIsOfTheRoute
<1> SUFFICES ASSUME IInv, Judged, NEW c \in answer.checks, c.line # NoLine,
                    LinesAt({TheRoute}, c.station) # {}
             PROVE  \/ c.line \in LinesAt({TheRoute}, c.station)
                    \/ /\ Cardinality(LinesAt(routes, c.station)) > 1
                       /\ \/ request.from = request.to
                          \/ \A e \in Endpoints : e[1] = c.station => e[2] = NoLine
  BY DEF LineIsOfTheRoute
<1> DEFINE here == LinesAt({TheRoute}, c.station)
           all == LinesAt(routes, c.station)
<1>1. TheRoute \in routes /\ TheRoute \in RouteCandidate /\ answer.checks = Candidate(TheRoute).checks
  BY TheAnswer
<1>2. PICK s \in ElevatorCheckStations(TheRoute) : c = Check(TheRoute, request.profile, facts, Lines, s)
  BY <1>1 DEF Candidate, Assess, CheckStations
<1>3. s \in Station BY <1>1, StationsOfRoute
<1>4. c.station = s /\ c.line = ContextLine(s) BY <1>2, <1>3 DEF Check, Lines
<1>5. here \subseteq all BY <1>1 DEF LinesAt
<1>6. IsFiniteSet(all)
  <2>1. routes \subseteq RouteCandidate BY SourceAssumption DEF IInv, CallInv, RoutesInv
  <2>2. \A r \in routes : r.segments \in Seq(RouteSegment) BY <2>1 DEF RouteCandidate
  <2>3. \A r \in routes : Range(r.segments) \subseteq RouteSegment
    <3> SUFFICES ASSUME NEW r \in routes PROVE Range(r.segments) \subseteq RouteSegment OBVIOUS
    <3> HIDE DEF here, all
    <3>1. r.segments \in Seq(RouteSegment) BY <2>2
    <3> QED BY <3>1 DEF Range
  <2>4. all \subseteq Line BY <2>3 DEF LinesAt, RouteSegment
  <2> QED BY <2>4, RequestAssumption, FS_Subset
<1>7. \A l \in all : Cardinality(all) = 1 => here = {l}
  BY <1>5, <1>6, FS_Singleton
<1>8. Cardinality(all) = 1 \/ Cardinality(all) > 1
  <2>1. Cardinality(all) \in Nat /\ Cardinality(all) # 0 BY <1>5, <1>6, FS_CardinalityType, FS_EmptySet
  <2> QED BY <2>1
<1>9. CASE \A e \in Endpoints : e[1] # s
  <2>1. {e \in Endpoints : e[1] = s} = {} BY <1>9
  <2>2. CASE Cardinality(all) = 1
    <3>1. PICK l : all = {l} BY <1>6, <2>2, FS_Singleton
    <3>2. (CHOOSE m \in all : TRUE) = l BY <3>1
    <3>3. ContextLine(s) \in {NoLine, Resolve(s, l).line} BY <1>4, <2>1, <2>2, <3>2 DEF ContextLine
    <3>4. l # NoLine BY <3>1 DEF LinesAt
    <3>5. Resolve(s, l).line = l BY <3>4 DEF Resolve
    <3>6. c.line = l BY <1>4, <3>3, <3>5
    <3>7. here = {l} BY <1>7, <2>2, <3>1
    <3> QED BY <3>6, <3>7
  <2> QED BY <1>4, <1>8, <1>9, <2>2
<1>10. ASSUME NEW f \in Endpoints, f[1] = s
       PROVE  \/ c.line \in here
              \/ /\ Cardinality(all) > 1
                 /\ request.from = request.to \/ \A e \in Endpoints : e[1] = c.station => e[2] = NoLine
  <2> DEFINE end == CHOOSE e \in {e \in Endpoints : e[1] = s} : TRUE
  <2>1. end \in Endpoints /\ end[1] = s BY <1>10
  <2>2. c.line = EndpointLine(end, all) BY <1>4, <1>10 DEF ContextLine
  <2>3. \A e \in Endpoints : e[1] = s /\ e[2] # NoLine => e[2] \in here
    BY <1>1, <1>4 DEF IInv, RoutesInv, LineMismatch
  <2> HIDE DEF end, here, all
  <2>4. CASE Cardinality(all) = 1
    <3>1. PICK l : all = {l} /\ here = {l} BY <1>5, <1>6, <1>7, <2>4, FS_Singleton
    <3>2. (CHOOSE m \in all : TRUE) = l BY <3>1
    <3>3. CASE end[2] = NoLine
      <4>1. c.line \in all BY <2>2, <2>4, <3>1, <3>2, <3>3 DEF EndpointLine
      <4> QED BY <3>1, <4>1
    <3>4. CASE end[2] # NoLine
      <4>1. c.line = ResolveQuery(s, end[2]).line BY <2>1, <2>2, <3>4 DEF EndpointLine
      <4> QED BY <2>1, <2>3, <3>4, <4>1 DEF ResolveQuery, Resolve
    <3> QED BY <3>3, <3>4
  <2>5. CASE Cardinality(all) > 1
    <3>1. SUFFICES ASSUME request.from # request.to, NEW e \in Endpoints, e[1] = s, e[2] # NoLine
                   PROVE  c.line \in here
      BY <1>4, <2>5
    <3>2. e[2] \in here BY <2>3, <3>1
    <3>3. e = end BY <2>1, <3>1 DEF Endpoints
    <3>4. c.line = ResolveQuery(s, end[2]).line BY <2>1, <2>2, <3>1, <3>3 DEF EndpointLine
    <3> QED BY <3>1, <3>2, <3>3, <3>4 DEF ResolveQuery, Resolve
  <2> QED BY <1>8, <2>4, <2>5 DEF all
<1> QED BY <1>4, <1>9, <1>10 DEF all

\* The elevators of a station of the answered route are those of a line it has
\* there, unless the candidates run on several and none was named.
THEOREM LineFitsTheRoute == Spec => []LineIsOfTheRoute
BY TripInvariant, TripLine, PTL

-----------------------------------------------------------------------------
(* The restrooms.                                                          *)

HasRestroom(s) == \E f \in world[s] : f.type = "ACCESSIBLE_RESTROOM" /\ f.status = "AVAILABLE"

\* What is counted as a restroom is one now, unless its lookup failed.
LEMMA RestroomIsThere ==
    ASSUME IInv, NEW s, RestroomAt(facts, s)
    PROVE  /\ <<s, "restrooms">> \in DOMAIN facts
           /\ HasRestroom(s) \/ facts[<<s, "restrooms">>].failed # {}
<1>1. PICK f \in RecordsAt(facts, s, {"restrooms"}, "ACCESSIBLE_RESTROOM") : f.status = "AVAILABLE"
  BY DEF RestroomAt
<1>2. <<s, "restrooms">> \in DOMAIN facts /\ f \in facts[<<s, "restrooms">>].value /\ f.type = "ACCESSIBLE_RESTROOM"
  BY <1>1 DEF RecordsAt
<1>3. ASSUME facts[<<s, "restrooms">>].failed = {} PROVE HasRestroom(s)
  <2>1. Current(s, f) BY <1>2, <1>3, FactsSay DEF FactSays
  <2> QED BY <1>1, <1>2, <2>1 DEF Current, HasRestroom
<1> QED BY <1>2, <1>3

\* A route of whose two ends at least one is not also a station to change at.
\* One whose source marks its only segment as a change has none: see
\* DestinationIsChecked.
EndsKeepRole ==
    \A q \in Requests : \A list \in RouteLists[q] : \A r \in list :
        ~({r.origin, r.destination} \subseteq TransferPoints(r))

\* In the invariant, a possible route has its restrooms.
LEMMA TripRestroom == EndsKeepRole /\ IInv => RestroomWhereNeeded
<1> DEFINE need == request.profile.restroom
           ends == {TheRoute.origin, TheRoute.destination}
<1> SUFFICES ASSUME EndsKeepRole, IInv, Judged, answer.judgement = "possible",
                    request.profile.need_accessible_restroom
             PROVE  CASE need = "ALL_KEY_STATIONS" -> \A s \in ElevatorCheckStations(TheRoute) : HasRestroom(s)
                      [] need = "ANY_ROUTE_STATION" ->
                            \E s \in Range(TheRoute.stations) :
                                \/ HasRestroom(s)
                                \/ facts[<<s, "restrooms">>].failed # {} /\ s \notin ElevatorCheckStations(TheRoute)
                      [] need = "ORIGIN_OR_DESTINATION" -> \E s \in ends : HasRestroom(s)
                      [] OTHER -> TRUE
  BY DEF RestroomWhereNeeded, HasRestroom
<1>1. answer.level = "LOW" /\ answer.failed = {}
  <2>1. LevelScoreWords BY TripLevels
  <2>2. answer.level \in {"UNKNOWN", "HIGH", "CAUTION", "LOW"} BY LevelIs
  <2> QED BY <2>1, <2>2 DEF LevelScoreWords
<1>2. RestroomSatisfied(TheRoute, need, facts)
  <2>1. SUFFICES ASSUME ~RestroomSatisfied(TheRoute, need, facts) PROVE FALSE OBVIOUS
  <2> DEFINE missing == MissingRestrooms(TheRoute, need, facts)
             where == IF missing # {} THEN missing ELSE {Nowhere}
  <2>2. \E x \in RestroomReasons(TheRoute, request.profile, facts) : x[1] = "no_accessible_restroom_when_required"
    <3>1. RestroomReasons(TheRoute, request.profile, facts) = {"no_accessible_restroom_when_required"} \X where
      BY <2>1 DEF RestroomReasons
    <3>2. where # {} OBVIOUS
    <3> HIDE DEF where
    <3>3. PICK s \in where : TRUE BY <3>2
    <3>4. <<"no_accessible_restroom_when_required", s>> \in {"no_accessible_restroom_when_required"} \X where
      BY <3>3
    <3> QED BY <3>1, <3>4
  <2>3. \A x \in FoundFor(TheRoute) : x[1] \notin CautionCodes BY <1>1, LowMeans
  <2> QED BY <2>2, <2>3 DEF FoundFor, EvaluateRoute, CautionCodes
<1>3. ASSUME NEW s \in ElevatorCheckStations(TheRoute), RestroomAt(facts, s) PROVE HasRestroom(s)
  <2>1. <<s, "restrooms">> \in DOMAIN facts BY <1>3, RestroomIsThere
  <2>2. facts[<<s, "restrooms">>].failed = {} BY <1>1, <2>1, RoleFacts
  <2> QED BY <1>3, <2>2, RestroomIsThere
<1>4. CASE need = "ALL_KEY_STATIONS"
  <2>1. RestroomStations(TheRoute, need, facts) = ElevatorCheckStations(TheRoute)
    BY <1>4 DEF RestroomStations
  <2>2. \A s \in ElevatorCheckStations(TheRoute) : RestroomAt(facts, s)
    BY <1>2, <1>4, <2>1 DEF RestroomSatisfied, MissingRestrooms
  <2> QED BY <1>3, <1>4, <2>2
<1>5. CASE need = "ANY_ROUTE_STATION"
  <2>1. PICK s \in Range(TheRoute.stations) : RestroomAt(facts, s)
    BY <1>2, <1>5 DEF RestroomSatisfied
  <2>2. HasRestroom(s) \/ (facts[<<s, "restrooms">>].failed # {} /\ s \notin ElevatorCheckStations(TheRoute))
    BY <1>3, <2>1, RestroomIsThere
  <2> QED BY <1>5, <2>1, <2>2
<1>6. CASE need = "ORIGIN_OR_DESTINATION"
  <2> DEFINE keys == KeyStations(TheRoute, "origin") \cup KeyStations(TheRoute, "destination")
             confirmed == {s \in keys : RestroomAt(facts, s)}
  <2>1. keys \subseteq ends /\ keys \subseteq ElevatorCheckStations(TheRoute)
    BY DEF KeyStations, StationRole, ElevatorCheckStations
  <2>2. keys # {}
    <3>1. ~(ends \subseteq TransferPoints(TheRoute))
      BY TheAnswer DEF EndsKeepRole, IInv, CallInv, RoutesInv
    <3>2. PICK s \in ends : s \notin TransferPoints(TheRoute) BY <3>1
    <3> QED BY <3>2 DEF KeyStations, StationRole, ElevatorCheckStations
  <2>3. RestroomStations(TheRoute, need, facts) = IF confirmed # {} THEN confirmed ELSE keys
    BY <1>6 DEF RestroomStations
  <2>4. \A s \in RestroomStations(TheRoute, need, facts) : RestroomAt(facts, s)
    BY <1>2, <1>6 DEF RestroomSatisfied, MissingRestrooms
  <2>5. confirmed # {} BY <2>2, <2>3, <2>4
  <2>6. PICK s \in keys : RestroomAt(facts, s) BY <2>5
  <2>7. HasRestroom(s) /\ s \in ends BY <1>3, <2>1, <2>6
  <2> QED BY <1>6, <2>7
<1>7. CASE need \notin {"ALL_KEY_STATIONS", "ANY_ROUTE_STATION", "ORIGIN_OR_DESTINATION"}
  BY <1>7
<1> QED BY <1>4, <1>5, <1>6, <1>7

\* A trip is called possible only where the restroom that was required is, if
\* one end of the route at least is not also a station to change at
\* (restroom_policy.py).
THEOREM PossibleHasRestroom == EndsKeepRole => (Spec => []RestroomWhereNeeded)
<1> SUFFICES ASSUME EndsKeepRole PROVE Spec => []RestroomWhereNeeded OBVIOUS
<1>1. IInv => RestroomWhereNeeded BY TripRestroom
<1> QED BY <1>1, TripInvariant, PTL
=============================================================================
