-------------------------- MODULE TripMessageProofs --------------------------
(***************************************************************************)
(* Proofs about TripMessage: what the message of a trip claims is what its *)
(* checks say, and what these say is what the queries returned.            *)
(*                                                                         *)
(* The invariant is that of TripProofs.  The lemmas go from below: what    *)
(* the elevators of a station make of its check, which of them the table   *)
(* shows, what a query tells of its sources; then each property.           *)
(***************************************************************************)
EXTENDS TripMessage, TripProofs, SequenceTheorems

-----------------------------------------------------------------------------
(* The elevators of one station.                                           *)

\* What the answer about a set of elevators says of those that are reported.
LEMMA StateSays ==
    ASSUME NEW E, \A e \in E : e.status \in FacilityStatus
    PROVE  /\ AnswerState(E) \in FacilityStatus \cup {"MIXED", "NOT_FOUND"}
           /\ AnswerState(E) = "NOT_FOUND" <=> E = {}
           /\ AnswerState(E) = "MIXED" <=> \E e, f \in Operational(E) : e.status # f.status
           /\ \A status \in FacilityStatus \ {"UNKNOWN"} :
                 AnswerState(E) = status <=> /\ Operational(E) # {}
                                             /\ \A e \in Operational(E) : e.status = status
<1> DEFINE seen == {e.status : e \in Operational(E)}
<1>1. seen \subseteq FacilityStatus BY DEF Operational
<1>2. IsFiniteSet(seen)
  <2>1. FacilityStatus = {"AVAILABLE"} \cup {"UNAVAILABLE"} \cup {"MAINTENANCE"} \cup {"UNKNOWN"}
    BY DEF FacilityStatus
  <2>2. IsFiniteSet({"AVAILABLE"} \cup {"UNAVAILABLE"}) BY FS_Singleton, FS_Union
  <2>3. IsFiniteSet({"AVAILABLE"} \cup {"UNAVAILABLE"} \cup {"MAINTENANCE"})
    BY <2>2, FS_Singleton, FS_Union
  <2>4. IsFiniteSet(FacilityStatus) BY <2>1, <2>3, FS_Singleton, FS_Union
  <2> QED BY <1>1, <2>4, FS_Subset
<1>3. (seen = {} <=> Operational(E) = {}) /\ Operational(E) \subseteq E BY DEF Operational
<1>4. AnswerState(E) = CASE Cardinality(seen) > 1 -> "MIXED"
                         [] Cardinality(seen) = 1 -> CHOOSE status \in seen : TRUE
                         [] seen = {} /\ E # {} -> "UNKNOWN"
                         [] OTHER -> "NOT_FOUND"
  BY DEF AnswerState
<1>5. \A x : x \in seen <=> \E e \in Operational(E) : e.status = x OBVIOUS
<1> HIDE DEF seen
<1>6. /\ Cardinality(seen) \in Nat
      /\ Cardinality(seen) = 0 <=> seen = {}
      /\ Cardinality(seen) = 1 <=> \E x : seen = {x}
  BY <1>2, FS_CardinalityType, FS_EmptySet, FS_Singleton
<1>7. CASE seen = {}
  <2>1. AnswerState(E) = IF E # {} THEN "UNKNOWN" ELSE "NOT_FOUND" BY <1>4, <1>6, <1>7
  <2> QED BY <2>1, <1>3, <1>7 DEF FacilityStatus
<1>8. ASSUME NEW x, seen = {x} PROVE AnswerState(E) = x
  <2>1. Cardinality(seen) = 1 BY <1>6, <1>8
  <2>2. AnswerState(E) = CHOOSE status \in seen : TRUE BY <1>4, <2>1
  <2> QED BY <1>8, <2>2
<1>9. CASE \E x : seen = {x}
  <2>1. PICK x : seen = {x} BY <1>9
  <2>2. x \in FacilityStatus /\ AnswerState(E) = x BY <1>1, <1>8, <2>1
  <2>3. Operational(E) # {} /\ \A e \in Operational(E) : e.status = x BY <1>5, <2>1
  <2> QED BY <1>3, <2>2, <2>3 DEF FacilityStatus
<1>10. CASE seen # {} /\ ~\E x : seen = {x}
  <2>1. Cardinality(seen) > 1 /\ Cardinality(seen) # 1 BY <1>6, <1>10
  <2>2. AnswerState(E) = "MIXED" BY <1>4, <1>10, <2>1, Zenon
  <2>3. \E e, f \in Operational(E) : e.status # f.status
    <3>1. PICK x \in seen : TRUE BY <1>10
    <3>2. PICK y \in seen : y # x BY <1>10, <3>1
    <3> QED BY <1>5, <3>1, <3>2
  <2> QED BY <1>3, <2>2, <2>3 DEF FacilityStatus
<1> QED BY <1>7, <1>9, <1>10

\* The listed elevators are those that are reported, and others whose state
\* nobody knows; there are none only if there is no record.
LEMMA DetailsSay ==
    ASSUME NEW E, IsFiniteSet(E), \A e \in E : e.status \in FacilityStatus
    PROVE  /\ IsFiniteSet(ElevatorEvidence(E))
           /\ ElevatorEvidence(E) = {} <=> E = {}
           /\ \A d \in ElevatorEvidence(E) : d.status \in FacilityStatus
           /\ \A e \in Operational(E) : \E d \in ElevatorEvidence(E) : d.status = e.status
           /\ \A d \in ElevatorEvidence(E) :
                 d.status = "UNKNOWN" \/ \E e \in Operational(E) : e.status = d.status
<1> DEFINE refs == References(E)
           op == Operational(E)
           used == UNION {MatchReference(e, refs) : e \in op}
           paths(e) == IF e.paths # {} THEN e.paths ELSE UNION {r.paths : r \in MatchReference(e, refs)}
           told(e) == [id |-> e.id, reported |-> TRUE, status |-> e.status, paths |-> paths(e)]
           left(r) == [id |-> r.id, reported |-> FALSE, status |-> "UNKNOWN", paths |-> r.paths]
           T == {told(e) : e \in op}
           L == {left(r) : r \in refs \ used}
<1>1. ElevatorEvidence(E) = T \cup L BY DEF ElevatorEvidence
<1>2. op \subseteq E BY DEF Operational
<1>3. \A e : told(e).status = e.status OBVIOUS
<1>4. \A r : left(r).status = "UNKNOWN" OBVIOUS
<1> HIDE DEF told, left
<1>5. /\ \A d \in T : \E e \in op : d.status = e.status
      /\ \A e \in op : \E d \in T : d.status = e.status
      /\ \A d \in L : d.status = "UNKNOWN"
  BY <1>3, <1>4
<1>6. IsFiniteSet(T) /\ IsFiniteSet(L)
  <2>1. IsFiniteSet(op) BY <1>2, FS_Subset
  <2>2. IsFiniteSet(refs)
    <3> DEFINE installed == E \ op
               same(f) == {g \in installed : /\ g.line = f.line /\ g.id = f.id
                                             /\ f.id = NoId => g.paths = f.paths}
               richest(f) == CHOOSE g \in same(f) : \A h \in same(f) : Cardinality(h.paths) <= Cardinality(g.paths)
    <3>1. refs = {richest(f) : f \in installed} BY DEF References
    <3>2. IsFiniteSet(installed) BY FS_Subset
    <3> HIDE DEF richest, installed
    <3> DEFINE f == [x \in installed |-> richest(x)]
    <3>3. DOMAIN f = installed /\ refs = {f[x] : x \in DOMAIN f} BY <3>1
    <3> HIDE DEF f, refs
    <3> QED BY <3>2, <3>3, ImageIsFinite
  <2>3. IsFiniteSet(refs \ used) BY <2>2, FS_Subset
  <2> HIDE DEF op, refs, used
  <2> DEFINE f == [e \in op |-> told(e)]
             g == [r \in refs \ used |-> left(r)]
  <2>4. DOMAIN f = op /\ T = {f[x] : x \in DOMAIN f} OBVIOUS
  <2>5. DOMAIN g = refs \ used /\ L = {g[x] : x \in DOMAIN g} OBVIOUS
  <2> HIDE DEF f, g, T, L
  <2> QED BY <2>1, <2>3, <2>4, <2>5, ImageIsFinite
<1>7. E # {} => T \cup L # {}
  <2>1. SUFFICES ASSUME E # {}, op = {} PROVE L # {}
    <3> HIDE DEF L
    <3> QED BY <1>5
  <2>2. refs # {} BY <2>1 DEF References
  <2>3. used = {} BY <2>1
  <2> HIDE DEF refs, used
  <2> QED BY <2>2, <2>3
<1>8. E = {} => T \cup L = {}
  <2>1. SUFFICES ASSUME E = {} PROVE refs = {} /\ op = {}
    OBVIOUS
  <2> QED BY <1>2, <2>1 DEF References
<1> HIDE DEF T, L
<1>9. IsFiniteSet(T \cup L) BY <1>6, FS_Union
<1>10. "UNKNOWN" \in FacilityStatus BY DEF FacilityStatus
<1> QED BY <1>1, <1>2, <1>5, <1>7, <1>8, <1>9, <1>10

\* Of a finite set with numbers there are the foremost: as many as are wanted, or
\* all, and none that comes after one that is left out.
LEMMA ForemostIs ==
    ASSUME NEW S, IsFiniteSet(S), NEW n \in Nat, NEW key, \A x \in S : key[x] \in Nat
    PROVE  /\ Foremost(S, n, key) \subseteq S
           /\ Cardinality(Foremost(S, n, key)) = IF Cardinality(S) < n THEN Cardinality(S) ELSE n
           /\ \A x \in Foremost(S, n, key), y \in S \ Foremost(S, n, key) : key[x] <= key[y]
<1> DEFINE Good(B, k) == Cardinality(B) = k /\ \A x \in B, y \in S \ B : key[x] <= key[y]
           size == Cardinality(S)
           T == {k \in Nat : k <= size => \E B \in SUBSET S : Good(B, k)}
<1>1. size \in Nat BY FS_CardinalityType
<1>2. 0 \in T
  <2>1. Good({}, 0) BY FS_EmptySet
  <2> QED BY <2>1
<1>3. ASSUME NEW k \in Nat, k \in T PROVE k + 1 \in T
  <2>1. SUFFICES ASSUME k + 1 <= size PROVE \E B \in SUBSET S : Good(B, k + 1)
    OBVIOUS
  <2>2. PICK B \in SUBSET S : Good(B, k) BY <1>1, <1>3, <2>1
  <2> DEFINE keys == {key[y] : y \in S \ B}
  <2>3. B # S BY <1>1, <2>1, <2>2
  <2>4. keys \subseteq Nat /\ keys # {} BY <2>3
  <2>5. PICK x \in S \ B : \A y \in S \ B : key[x] <= key[y]
    <3>1. PICK l \in keys : \A m \in keys : l <= m
      <4> HIDE DEF keys
      <4> QED BY <2>4, NatMin
    <3> QED BY <3>1
  <2>6. IsFiniteSet(B) BY FS_Subset
  <2>7. Cardinality(B \cup {x}) = k + 1 BY <2>2, <2>5, <2>6, FS_AddElement
  <2>8. Good(B \cup {x}, k + 1) BY <2>2, <2>5, <2>7
  <2> QED BY <2>5, <2>8
<1>4. CASE size <= n
  <2>1. Foremost(S, n, key) = S BY <1>4 DEF Foremost
  <2> QED BY <1>1, <1>4, <2>1
<1>5. CASE ~(size <= n)
  <2>1. n \in T
    <3> HIDE DEF T
    <3>1. 0 .. n \subseteq T BY <1>2, <1>3, UpTo
    <3> QED BY <3>1
  <2>2. \E B \in SUBSET S : Good(B, n) BY <1>1, <1>5, <2>1
  <2>3. Foremost(S, n, key) = CHOOSE B \in SUBSET S : Good(B, n) BY <1>5 DEF Foremost
  <2> HIDE DEF Good
  <2>4. Foremost(S, n, key) \in SUBSET S /\ Good(Foremost(S, n, key), n) BY <2>2, <2>3
  <2> QED BY <1>1, <1>5, <2>4 DEF Good
<1> QED BY <1>4, <1>5

\* A best choice there is, of as many as may be chosen.
LEMMA BestExists ==
    ASSUME NEW S, IsFiniteSet(S), NEW n \in Nat, NEW rank, \A d \in S : rank[d.status] \in Nat
    PROVE  /\ Best(S, n, rank) \subseteq S
           /\ Cardinality(Best(S, n, rank)) = IF Cardinality(S) < n THEN Cardinality(S) ELSE n
           /\ \A d \in Best(S, n, rank), e \in S \ Best(S, n, rank) : rank[d.status] <= rank[e.status]
<1> DEFINE key == [d \in S |-> rank[d.status]]
<1>1. \A d \in S : key[d] = rank[d.status] /\ key[d] \in Nat OBVIOUS
<1>2. Best(S, n, rank) = Foremost(S, n, key) BY DEF Best
<1> HIDE DEF key
<1> QED BY <1>1, <1>2, ForemostIs

\* The first choice is one detail, and a restricted one if there is one.
LEMMA BestOfAll ==
    ASSUME NEW S, IsFiniteSet(S), \A d \in S : d.status \in FacilityStatus
    PROVE  /\ Best(S, 1, StatusRank) \subseteq S
           /\ IsFiniteSet(Best(S, 1, StatusRank)) /\ Cardinality(Best(S, 1, StatusRank)) \in 0 .. 1
           /\ S # {} => Best(S, 1, StatusRank) # {}
           /\ (\E e \in S : e.status \in Restricting) =>
                 \E d \in Best(S, 1, StatusRank) : d.status \in Restricting
<1> DEFINE B == Best(S, 1, StatusRank)
<1>1. \A d \in S : StatusRank[d.status] \in Nat BY DEF FacilityStatus, StatusRank
<1>2. /\ B \subseteq S
      /\ Cardinality(B) = IF Cardinality(S) < 1 THEN Cardinality(S) ELSE 1
      /\ \A d \in B, e \in S \ B : StatusRank[d.status] <= StatusRank[e.status]
  BY <1>1, BestExists
<1> HIDE DEF B
<1>3. IsFiniteSet(B) BY <1>2, FS_Subset
<1>4. Cardinality(S) \in Nat /\ (Cardinality(S) = 0 <=> S = {}) BY FS_CardinalityType, FS_EmptySet
<1>5. S # {} => B # {}
  <2>1. SUFFICES ASSUME S # {}, B = {} PROVE FALSE OBVIOUS
  <2>2. Cardinality(B) = 0 BY <2>1, FS_EmptySet
  <2> QED BY <1>2, <1>4, <2>1, <2>2
<1>6. ASSUME NEW e \in S, e.status \in Restricting PROVE \E d \in B : d.status \in Restricting
  <2>1. PICK d \in B : TRUE BY <1>5, <1>6
  <2>2. CASE e \in B BY <1>6, <2>2
  <2>3. CASE e \notin B
    <3>1. StatusRank[d.status] <= StatusRank[e.status] BY <1>2, <2>3
    <3>2. d.status \in FacilityStatus BY <1>2
    <3>3. d.status \in Restricting BY <1>6, <3>1, <3>2 DEF FacilityStatus, StatusRank, Restricting
    <3> QED BY <3>3
  <2> QED BY <2>2, <2>3
<1> QED BY <1>2, <1>3, <1>4, <1>5, <1>6 DEF B

\* The union of two small sets is a small set.
LEMMA UnionIsSmall ==
    ASSUME NEW S, NEW T, NEW a \in Nat, NEW b \in Nat, IsFiniteSet(S), IsFiniteSet(T),
           Cardinality(S) \in 0 .. a, Cardinality(T) \in 0 .. b
    PROVE  IsFiniteSet(S \cup T) /\ Cardinality(S \cup T) \in 0 .. a + b
<1>1. IsFiniteSet(S \cap T) BY FS_Subset
<1>2. Cardinality(S \cap T) \in Nat BY <1>1, FS_CardinalityType
<1>3. IsFiniteSet(S \cup T) BY FS_Union
<1>4. Cardinality(S \cup T) \in Nat BY <1>3, FS_CardinalityType
<1>5. Cardinality(S \cup T) = Cardinality(S) + Cardinality(T) - Cardinality(S \cap T) BY FS_Union
<1> QED BY <1>2, <1>3, <1>4, <1>5

\* A set with others unless it meets a side.
With(chosen, side, others) == IF chosen \cap side = {} THEN chosen \cup others ELSE chosen

LEMMA WithIs ==
    ASSUME NEW chosen, NEW side, NEW others, NEW a \in Nat, IsFiniteSet(chosen), IsFiniteSet(others),
           Cardinality(chosen) \in 0 .. a, Cardinality(others) \in 0 .. 1
    PROVE  /\ IsFiniteSet(With(chosen, side, others))
           /\ Cardinality(With(chosen, side, others)) \in 0 .. a + 1
<1>1. IsFiniteSet(chosen \cup others) /\ Cardinality(chosen \cup others) \in 0 .. a + 1
  <2>1. 1 \in Nat OBVIOUS
  <2> QED BY <2>1, UnionIsSmall
<1>2. Cardinality(chosen) \in 0 .. a + 1 OBVIOUS
<1> QED BY <1>1, <1>2 DEF With

\* Whatever the table leaves out, it shows a restricted elevator where there is
\* one, and of a mixed station also a running one.
LEMMA VisibleIs ==
    ASSUME NEW c, IsFiniteSet(c.details), \A d \in c.details : d.status \in FacilityStatus
    PROVE  /\ VisibleDetails(c) \subseteq c.details
           /\ c.details # {} => VisibleDetails(c) # {}
           /\ DetailsIn(c, Restricting) # {} => \E d \in VisibleDetails(c) : d.status \in Restricting
           /\ c.state = "MIXED" /\ DetailsIn(c, Restricting) # {} /\ DetailsIn(c, {"AVAILABLE"}) # {} =>
                 \E d \in VisibleDetails(c) : d.status = "AVAILABLE"
<1> DEFINE best(S) == Best(S, 1, StatusRank)
           restricted == DetailsIn(c, Restricting)
           running == DetailsIn(c, {"AVAILABLE"})
           inside == {d \in c.details : "exit" \notin d.paths}
           outside == c.details \ inside
           pair == IF c.state = "MIXED" /\ restricted # {} /\ running # {}
                   THEN best(restricted) \cup best(running) ELSE {}
           first == With(pair, inside, best(inside))
           sides == With(first, outside, best(outside))
           rest == Best(c.details \ sides, 3 - Cardinality(sides), StatusRank)
<1>1. VisibleDetails(c) = IF Cardinality(c.details) <= 3 THEN c.details ELSE sides \cup rest
  <2>1. \A chosen, side, others :
           With(chosen, side, others) = chosen \cup (IF chosen \cap side = {} THEN others ELSE {})
    BY DEF With
  <2> QED BY <2>1 DEF VisibleDetails
<1>2. /\ restricted \subseteq c.details /\ running \subseteq c.details
      /\ inside \subseteq c.details /\ outside \subseteq c.details /\ c.details = inside \cup outside
      /\ \A d : d \in restricted <=> d \in c.details /\ d.status \in Restricting
      /\ \A d : d \in running <=> d \in c.details /\ d.status = "AVAILABLE"
  BY DEF DetailsIn
<1> HIDE DEF restricted, running, inside
<1>3. ASSUME NEW S \in SUBSET c.details
      PROVE  /\ best(S) \subseteq S /\ IsFiniteSet(best(S)) /\ Cardinality(best(S)) \in 0 .. 1
             /\ S # {} => best(S) # {}
             /\ (\E e \in S : e.status \in Restricting) => \E d \in best(S) : d.status \in Restricting
  <2>1. IsFiniteSet(S) /\ \A d \in S : d.status \in FacilityStatus BY FS_Subset
  <2> QED BY <2>1, BestOfAll
<1> HIDE DEF best
<1>4. /\ pair \subseteq c.details /\ IsFiniteSet(pair) /\ Cardinality(pair) \in 0 .. 2
  <2>1. /\ best(restricted) \subseteq c.details /\ best(running) \subseteq c.details
        /\ IsFiniteSet(best(restricted)) /\ IsFiniteSet(best(running))
        /\ Cardinality(best(restricted)) \in 0 .. 1 /\ Cardinality(best(running)) \in 0 .. 1
    BY <1>2, <1>3
  <2>2. /\ IsFiniteSet(best(restricted) \cup best(running))
        /\ Cardinality(best(restricted) \cup best(running)) \in 0 .. 2
    <3>1. 1 \in Nat OBVIOUS
    <3>2. /\ IsFiniteSet(best(restricted) \cup best(running))
          /\ Cardinality(best(restricted) \cup best(running)) \in 0 .. 1 + 1
      BY <2>1, <3>1, UnionIsSmall
    <3> QED BY <3>2
  <2>3. IsFiniteSet({}) /\ Cardinality({}) = 0 BY FS_EmptySet
  <2> QED BY <2>1, <2>2, <2>3
<1>5. /\ best(inside) \subseteq c.details /\ IsFiniteSet(best(inside)) /\ Cardinality(best(inside)) \in 0 .. 1
      /\ best(outside) \subseteq c.details /\ IsFiniteSet(best(outside)) /\ Cardinality(best(outside)) \in 0 .. 1
  BY <1>2, <1>3
<1> HIDE DEF pair
\* Of a pair, a first side is added only if the other one is met already.
<1>6. /\ first \subseteq c.details /\ pair \subseteq first /\ sides \subseteq c.details /\ first \subseteq sides
      /\ Cardinality(sides) \in 0 .. 3
  <2>1. pair \subseteq first /\ first \subseteq c.details /\ (pair \cap inside # {} => first = pair)
    BY <1>4, <1>5 DEF With
  <2>2. ASSUME NEW a \in Nat, Cardinality(pair) \in 0 .. a
        PROVE  IsFiniteSet(first) /\ Cardinality(first) \in 0 .. a + 1
    BY <1>4, <1>5, <2>2, WithIs
  <2>3. IsFiniteSet(first) BY <1>4, <2>2
  <2> HIDE DEF first
  <2>4. first \subseteq sides /\ sides \subseteq c.details /\ (first \cap outside # {} => sides = first)
    BY <1>5, <2>1 DEF With
  <2>5. ASSUME NEW a \in Nat, Cardinality(first) \in 0 .. a PROVE Cardinality(sides) \in 0 .. a + 1
    BY <1>5, <2>3, <2>5, WithIs
  <2> HIDE DEF sides
  <2>6. CASE pair = {}
    <3>1. Cardinality(pair) \in 0 .. 0 BY <2>6, FS_EmptySet
    <3>2. Cardinality(first) \in 0 .. 0 + 1 BY <2>2, <3>1
    <3>3. Cardinality(sides) \in 0 .. 1 + 1 BY <2>5, <3>2
    <3> QED BY <2>1, <2>4, <3>3
  <2>7. CASE pair \cap inside # {}
    <3>1. Cardinality(first) \in 0 .. 2 BY <1>4, <2>1, <2>7
    <3>2. Cardinality(sides) \in 0 .. 2 + 1 BY <2>5, <3>1
    <3> QED BY <2>1, <2>4, <3>2
  <2>8. CASE pair \cap outside # {}
    <3>1. Cardinality(first) \in 0 .. 2 + 1 BY <1>4, <2>2
    <3>2. first \cap outside # {} BY <2>1, <2>8
    <3> QED BY <2>1, <2>4, <3>1, <3>2
  <2> QED BY <1>2, <1>4, <2>6, <2>7, <2>8
<1>7. Cardinality(sides) \in 0 .. 3 BY <1>6
<1>8. rest \subseteq c.details
  <2>1. IsFiniteSet(c.details \ sides) BY FS_Subset
  <2>2. \A d \in c.details \ sides : StatusRank[d.status] \in Nat BY DEF FacilityStatus, StatusRank
  <2>3. 3 - Cardinality(sides) \in Nat BY <1>7
  <2> HIDE DEF sides
  <2>4. rest \subseteq c.details \ sides BY <2>1, <2>2, <2>3, BestExists
  <2> QED BY <2>4
\* A side that has a detail shows its best one, or one of the pair.
<1>9. ASSUME NEW side \in {inside, outside}, NEW e \in side
      PROVE  \/ pair # {}
             \/ \E d \in sides : d \in side /\ (e.status \in Restricting => d.status \in Restricting)
  <2>1. SUFFICES ASSUME pair = {}
                 PROVE  best(side) \subseteq sides
    <3>1. side \in SUBSET c.details BY <1>2, <1>9
    <3>2. /\ best(side) # {} /\ best(side) \subseteq side
          /\ e.status \in Restricting => \E d \in best(side) : d.status \in Restricting
      BY <1>3, <1>9, <3>1
    <3> HIDE DEF pair, sides
    <3> QED BY <2>1, <3>2
  <2>2. first = best(inside) BY <2>1 DEF With
  <2>3. first \cap outside = {} BY <1>2, <1>3, <2>2
  <2>4. sides = best(inside) \cup best(outside) BY <2>2, <2>3 DEF With
  <2> QED BY <1>9, <2>4
<1>10. pair # {} => /\ c.state = "MIXED" /\ restricted # {} /\ running # {}
                    /\ pair = best(restricted) \cup best(running)
  BY DEF pair
<1>11. c.state = "MIXED" /\ restricted # {} /\ running # {} => pair = best(restricted) \cup best(running)
  BY DEF pair
<1>12. pair \subseteq sides BY <1>6
<1> HIDE DEF pair, first, sides, rest, outside
<1>13. c.details # {} => sides # {}
  <2>1. SUFFICES ASSUME NEW e \in c.details PROVE sides # {} OBVIOUS
  <2>2. CASE pair # {} BY <1>12, <2>2
  <2>3. CASE pair = {} BY <1>2, <1>9, <2>1, <2>3
  <2> QED BY <2>2, <2>3
<1>14. restricted # {} => \E d \in sides : d.status \in Restricting
  <2>1. SUFFICES ASSUME NEW e \in restricted PROVE \E d \in sides : d.status \in Restricting
    OBVIOUS
  <2>2. e \in c.details /\ e.status \in Restricting BY <1>2, <2>1
  <2>3. CASE pair # {}
    <3>1. \E d \in best(restricted) : d.status \in Restricting BY <1>2, <1>3, <2>1, <2>2
    <3> QED BY <1>10, <1>12, <2>3, <3>1
  <2>4. CASE pair = {} BY <1>2, <1>9, <2>2, <2>4
  <2> QED BY <2>3, <2>4
<1>15. c.state = "MIXED" /\ restricted # {} /\ running # {} => \E d \in sides : d.status = "AVAILABLE"
  <2>1. SUFFICES ASSUME c.state = "MIXED", restricted # {}, running # {}
                 PROVE  \E d \in sides : d.status = "AVAILABLE"
    OBVIOUS
  <2>2. best(running) # {} /\ best(running) \subseteq running BY <1>2, <1>3, <2>1
  <2> QED BY <1>2, <1>11, <1>12, <2>1, <2>2
<1>16. CASE Cardinality(c.details) <= 3 BY <1>1, <1>2, <1>16 DEF restricted, running
<1>17. CASE ~(Cardinality(c.details) <= 3)
  <2>1. VisibleDetails(c) = sides \cup rest BY <1>1, <1>17
  <2> QED BY <1>6, <1>8, <1>13, <1>14, <1>15, <2>1 DEF restricted, running
<1> QED BY <1>16, <1>17


-----------------------------------------------------------------------------
(* The checks of an answer.                                                *)

CheckAt(s) == Check(TheRoute, request.profile, facts, Lines, s)
AnswerStateAt(s) == AnswerState(ElevatorsAt(facts, s))
StateAt(s) == AlignedState(AnswerStateAt(s), StationSources(facts, s))
Needed == RequiresElevatorForCheck(request.profile)

\* The answer has one check for every station with a role, and no other.
LEMMA ChecksAre ==
    ASSUME IInv, Judged
    PROVE  /\ answer.checks = {CheckAt(s) : s \in ElevatorCheckStations(TheRoute)}
           /\ \A s : CheckAt(s).station = s
           /\ \A c \in answer.checks : c.station \in ElevatorCheckStations(TheRoute) /\ c = CheckAt(c.station)
<1>1. TheRoute \in RouteCandidate /\ answer.checks = Candidate(TheRoute).checks BY TheAnswer
<1>2. Candidate(TheRoute).checks = {Check(TheRoute, request.profile, facts, Lines, s) : s \in CheckStations(TheRoute)}
  BY <1>1, CandidateIs
<1>3. answer.checks = {CheckAt(s) : s \in ElevatorCheckStations(TheRoute)}
  BY <1>1, <1>2 DEF CheckAt, CheckStations
<1>4. \A s : CheckAt(s).station = s BY DEF CheckAt, Check
<1> QED BY <1>3, <1>4

\* The parts of a check.
LEMMA CheckForm ==
    ASSUME NEW s, NEW c, c = CheckAt(s)
    PROVE  /\ c.role = StationRole(TheRoute, s)
           /\ c.line = Lines[s]
           /\ c.details = ElevatorEvidence(ElevatorsAt(facts, s))
           /\ c.state = StateAt(s)
           /\ c.status = RepresentativeStatus(c.state)
           /\ c.has = IF ElevatorsAt(facts, s) # {} THEN "CONFIRMED"
                      ELSE IF c.state = "NOT_FOUND" THEN "FAILED" ELSE "UNVERIFIED"
           /\ c.lineMatch = LineEvidence(c.has, ElevatorsAt(facts, s), Lines[s])
           /\ c.statusVerified = StatusEvidence(c.has, c.state)
           /\ c.platform = PathEvidence(Needed /\ TRUE, c.has, ElevatorsAt(facts, s), "platform")
           /\ c.transfer = PathEvidence(Needed /\ c.role = "transfer", c.has, ElevatorsAt(facts, s), "transfer")
           /\ c.exit = PathEvidence(Needed /\ c.role # "transfer", c.has, ElevatorsAt(facts, s), "exit")
           /\ c.restroomRequired = (/\ request.profile.need_accessible_restroom
                                    /\ s \in RestroomStations(TheRoute, request.profile.restroom, facts))
           /\ c.restroom = IF ~request.profile.need_accessible_restroom THEN "not asked"
                           ELSE IF RestroomAt(facts, s) THEN "yes" ELSE "no"
           /\ c.restroomUnsupported = SourcesUnsupported(facts, s, {"restroom"})
BY DEF CheckAt, Check, StateAt, AnswerStateAt, Needed

\* The elevators of a station with a role are finitely many, each with a status.
LEMMA ElevatorsOfRole ==
    ASSUME IInv, Judged, NEW s \in ElevatorCheckStations(TheRoute)
    PROVE  /\ IsFiniteSet(ElevatorsAt(facts, s))
           /\ \A e \in ElevatorsAt(facts, s) : e.status \in FacilityStatus
<1>1. s \in Station BY RoleFacts
<1>2. ASSUME NEW kind, <<s, kind>> \in DOMAIN facts PROVE facts[<<s, kind>>].value \subseteq world[s] \cup StaleRows[s]
  <2>1. CASE facts[<<s, kind>>] = [Nothing EXCEPT !.failed = {"station_resolution"}] BY <2>1 DEF Nothing
  <2>2. ASSUME NEW o \in [SourcesOf(kind) -> {"ok", "stale", "failed"}], MadeOf(facts[<<s, kind>>], s, kind, o)
        PROVE  facts[<<s, kind>>].value \subseteq world[s] \cup StaleRows[s]
    <3>1. facts[<<s, kind>>].value = UNION {Ended(s, n, o[n]).value : n \in SourcesOf(kind)}
      BY <2>2 DEF MadeOf
    <3>2. ASSUME NEW n \in SourcesOf(kind) PROVE Ended(s, n, o[n]).value \subseteq world[s] \cup StaleRows[s]
      <4>1. o[n] \in {"ok", "stale", "failed"} OBVIOUS
      <4>2. LookupSays(Ended(s, n, o[n]), n, Rows(n, world[s], Resolve(s, ContextLine(s)).line),
                       world[s] \cup StaleRows[s])
        BY <4>1, LookupEnds DEF Ended
      <4> QED BY <4>2 DEF LookupSays
    <3> QED BY <3>1, <3>2
  <2> QED BY <1>2, <2>1, <2>2, FactForm
<1>3. /\ IsFiniteSet(world[s] \cup StaleRows[s])
      /\ \A f \in world[s] \cup StaleRows[s] : f.status \in FacilityStatus
  BY <1>1, SourceAssumption DEF IInv, CallInv
<1>4. ElevatorsAt(facts, s) \subseteq world[s] \cup StaleRows[s] BY <1>2, RoleFacts
<1> QED BY <1>3, <1>4, FS_Subset

\* What a check tells of the elevators of its station.
CheckTells(c) ==
    /\ IsFiniteSet(c.details) /\ \A d \in c.details : d.status \in FacilityStatus
    /\ c.has = "CONFIRMED" <=> c.details # {}
    /\ c.has \in {"CONFIRMED", "FAILED", "UNVERIFIED"}
    /\ \A status \in FacilityStatus \ {"UNKNOWN"} :
          (\E d \in c.details : d.status = status) <=> Reported(c.station, status)
    /\ c.state = "AVAILABLE" => /\ Reported(c.station, "AVAILABLE")
                                /\ \A status : Reported(c.station, status) => status = "AVAILABLE"
    /\ c.state = "MIXED" <=> \E x, y : x # y /\ Reported(c.station, x) /\ Reported(c.station, y)
    /\ \A status : Reported(c.station, status) => c.state \in {status, "MIXED"}
    /\ c.state \in FacilityStatus \cup {"MIXED", "NOT_FOUND", "UNSUPPORTED"}
    /\ c.state \in {"NOT_FOUND", "UNSUPPORTED"} => c.details = {}
    /\ c.details = {} => c.state \in {"NOT_FOUND", "UNSUPPORTED", "UNKNOWN"}
    /\ c.state \in Restricting => Reported(c.station, c.state)
    /\ c.has = "FAILED" <=> c.state = "NOT_FOUND"
    /\ c.status = RepresentativeStatus(c.state)
    /\ c.statusVerified = StatusEvidence(c.has, c.state)

LEMMA CheckSays ==
    ASSUME IInv, Judged, NEW c \in answer.checks
    PROVE  CheckTells(c)
<1>1. PICK s \in ElevatorCheckStations(TheRoute) : c = CheckAt(s) /\ c.station = s BY ChecksAre
<1> DEFINE E == ElevatorsAt(facts, s)
           state == AnswerState(E)
<1>2. IsFiniteSet(E) /\ \A e \in E : e.status \in FacilityStatus BY <1>1, ElevatorsOfRole
<1>3. /\ c.details = ElevatorEvidence(E)
      /\ c.state = AlignedState(state, StationSources(facts, s))
      /\ c.status = RepresentativeStatus(c.state)
      /\ c.has = IF E # {} THEN "CONFIRMED" ELSE IF c.state = "NOT_FOUND" THEN "FAILED" ELSE "UNVERIFIED"
      /\ c.statusVerified = StatusEvidence(c.has, c.state)
  BY <1>1, CheckForm DEF StateAt, AnswerStateAt
<1>4. \A x : Reported(s, x) <=> \E e \in Operational(E) : e.status = x BY DEF Reported
<1>5. Operational(E) \subseteq E BY DEF Operational
<1> HIDE DEF E, state
<1>6. /\ IsFiniteSet(c.details) /\ \A d \in c.details : d.status \in FacilityStatus
      /\ c.details = {} <=> E = {}
      /\ \A e \in Operational(E) : \E d \in c.details : d.status = e.status
      /\ \A d \in c.details : d.status = "UNKNOWN" \/ \E e \in Operational(E) : e.status = d.status
  BY <1>2, <1>3, DetailsSay
<1>7. /\ state \in FacilityStatus \cup {"MIXED", "NOT_FOUND"}
      /\ state = "NOT_FOUND" <=> E = {}
      /\ state = "MIXED" <=> \E e, f \in Operational(E) : e.status # f.status
      /\ \A status \in FacilityStatus \ {"UNKNOWN"} :
            state = status <=> /\ Operational(E) # {}
                               /\ \A e \in Operational(E) : e.status = status
  BY <1>2, StateSays DEF state
<1>8. /\ state # "NOT_FOUND" => c.state = state
      /\ state = "NOT_FOUND" => c.state \in {"NOT_FOUND", "UNSUPPORTED", "UNKNOWN"}
  BY <1>3 DEF AlignedState
<1>9. c.has = "CONFIRMED" <=> c.details # {} BY <1>3, <1>6
<1>10. \A status \in FacilityStatus \ {"UNKNOWN"} :
          (\E d \in c.details : d.status = status) <=> Reported(s, status)
  BY <1>4, <1>6
<1>11. c.state = "MIXED" <=> \E x, y : x # y /\ Reported(s, x) /\ Reported(s, y)
  <2>1. c.state = "MIXED" <=> state = "MIXED" BY <1>7, <1>8 DEF FacilityStatus
  <2>2. (\E e, f \in Operational(E) : e.status # f.status) <=> \E x, y : x # y /\ Reported(s, x) /\ Reported(s, y)
    BY <1>4
  <2> QED BY <1>7, <2>1, <2>2
<1>12. ASSUME NEW status, Reported(s, status) PROVE c.state \in {status, "MIXED"}
  <2>1. PICK e \in Operational(E) : e.status = status BY <1>4, <1>12
  <2>2. state # "NOT_FOUND" BY <1>5, <1>7, <2>1
  <2>3. CASE \E f, g \in Operational(E) : f.status # g.status BY <1>7, <1>8, <2>2, <2>3
  <2>4. CASE \A f, g \in Operational(E) : f.status = g.status
    <3>1. \A f \in Operational(E) : f.status = status BY <2>1, <2>4
    <3>2. status \in FacilityStatus BY <1>2, <1>5, <2>1
    <3>3. CASE status = "UNKNOWN"
      <4>1. \A x \in FacilityStatus \ {"UNKNOWN"} : state # x BY <1>7, <2>1, <3>1, <3>3
      <4>2. state # "MIXED" BY <1>7, <2>4
      <4>3. state = "UNKNOWN" BY <1>7, <2>2, <4>1, <4>2
      <4> QED BY <1>8, <2>2, <3>3, <4>3
    <3>4. CASE status # "UNKNOWN" BY <1>7, <1>8, <2>1, <2>2, <3>1, <3>2, <3>4
    <3> QED BY <3>3, <3>4
  <2> QED BY <2>3, <2>4
<1>13. c.state = "AVAILABLE" => /\ Reported(s, "AVAILABLE")
                                /\ \A status : Reported(s, status) => status = "AVAILABLE"
  BY <1>4, <1>7, <1>8 DEF FacilityStatus
<1>14. c.state \in Restricting => Reported(s, c.state)
  BY <1>4, <1>7, <1>8 DEF FacilityStatus, Restricting
<1>15. /\ c.state \in FacilityStatus \cup {"MIXED", "NOT_FOUND", "UNSUPPORTED"}
       /\ c.state \in {"NOT_FOUND", "UNSUPPORTED"} => c.details = {}
       /\ c.details = {} => c.state \in {"NOT_FOUND", "UNSUPPORTED", "UNKNOWN"}
       /\ c.has = "FAILED" <=> c.state = "NOT_FOUND"
       /\ c.has \in {"CONFIRMED", "FAILED", "UNVERIFIED"}
  BY <1>3, <1>6, <1>7, <1>8 DEF FacilityStatus
<1> QED BY <1>3, <1>6, <1>9, <1>10, <1>11, <1>12, <1>13, <1>14, <1>15, <1>1 DEF CheckTells

-----------------------------------------------------------------------------
(* What a query tells of its sources.                                      *)

\* The station of the query is one whose line does not cover it.
Outside(s, name) ==
    /\ Resolve(s, ContextLine(s)).matched
    /\ <<name, s, Resolve(s, ContextLine(s)).line>> \in Uncovered

FactTells(s, kind, fact) ==
    /\ "station_resolution" \in fact.failed <=> Unresolved(s, ContextLine(s))
    /\ "station_resolution" \in fact.failed => fact.value = {} /\ fact.sources = {} /\ fact.failed = {"station_resolution"}
    /\ "station_resolution" \notin fact.failed =>
          \A n \in SourcesOf(kind) : \E m \in fact.sources : m.name = n
    /\ \A n \in fact.failed \ {"station_resolution"} :
          n \in SourcesOf(kind) /\ \E m \in fact.sources : m.name = n /\ ~m.success /\ ~m.unsupported
    /\ \A m \in fact.sources :
          /\ m.name \in SourcesOf(kind)
          /\ m.unsupported <=> Outside(s, m.name)
          /\ m.unsupported => ~m.success /\ ~m.stale
          /\ m.stale => m.name \in fact.failed
          /\ ~m.unsupported => (m.success <=> m.name \notin fact.failed)
    /\ \A n \in SourcesOf(kind) : Outside(s, n) => \A f \in fact.value : f.source # n

LEMMA FactsTell ==
    ASSUME IInv, NEW s, NEW kind, <<s, kind>> \in DOMAIN facts
    PROVE  FactTells(s, kind, facts[<<s, kind>>])
<1> DEFINE fact == facts[<<s, kind>>]
           L == SourcesOf(kind)
<1>0. "station_resolution" \notin L BY DEF SourcesOf
<1>1. CASE Unresolved(s, ContextLine(s)) /\ fact = [Nothing EXCEPT !.failed = {"station_resolution"}]
  <2>1. fact.value = {} /\ fact.sources = {} /\ fact.failed = {"station_resolution"}
    BY <1>1 DEF Nothing
  <2> HIDE DEF fact
  <2> QED BY <1>1, <2>1 DEF fact, FactTells
<1>2. ASSUME NEW o \in [L -> {"ok", "stale", "failed"}], ~Unresolved(s, ContextLine(s)), MadeOf(fact, s, kind, o)
      PROVE  FactTells(s, kind, fact)
  <2> DEFINE E(n) == Ended(s, n, o[n])
  <2>1. /\ fact.value = UNION {E(n).value : n \in L}
        /\ fact.sources = UNION {E(n).sources : n \in L}
        /\ fact.failed = UNION {E(n).failed : n \in L}
    BY <1>2 DEF MadeOf
  <2>2. ASSUME NEW n \in L
        PROVE  LookupSays(E(n), n, CurrentRows(s, n), world[s] \cup StaleRows[s])
    <3>1. o[n] \in {"ok", "stale", "failed"} BY <1>2
    <3> HIDE DEF L
    <3> QED BY <3>1, LookupEnds DEF Ended, CurrentRows
  <2>3. ASSUME NEW n \in L, NEW m \in E(n).sources PROVE m.unsupported <=> Outside(s, n)
    BY <2>3, LookupOutside DEF Ended, Outside
  <2> HIDE DEF E, L, fact
  <2>4. ASSUME NEW n \in L
        PROVE  \E m : /\ E(n).sources = {m} /\ m.name = n
                      /\ m.unsupported => ~m.success /\ ~m.stale /\ E(n).failed = {} /\ E(n).value = {}
                      /\ ~m.unsupported => (m.success <=> E(n).failed = {})
                      /\ m.stale => E(n).failed = {n}
                      /\ E(n).failed \subseteq {n} /\ \A f \in E(n).value : f.source = n
    <3>1. PICK m : /\ E(n).sources = {m} /\ m.name = n
                   /\ m.unsupported => E(n).value = {} /\ E(n).failed = {}
                   /\ m.stale => E(n).failed = {n}
                   /\ m.unsupported \/ m.stale => ~m.success
                   /\ ~m.unsupported => (m.success <=> E(n).failed = {})
                   /\ E(n).failed \subseteq {n} /\ \A f \in E(n).value : f.source = n
      BY <2>2 DEF LookupSays
    <3> QED BY <3>1
  <2>5. \A n \in L : n \in fact.failed <=> E(n).failed = {n}
    BY <2>1, <2>4
  <2>6. fact.failed \subseteq L BY <2>1, <2>4
  <2>7. ASSUME NEW n \in L PROVE \E m \in fact.sources : m.name = n
    <3>1. PICK m : E(n).sources = {m} /\ m.name = n BY <2>4
    <3> QED BY <2>1, <3>1
  <2>8. ASSUME NEW n \in fact.failed PROVE \E m \in fact.sources : m.name = n /\ ~m.success /\ ~m.unsupported
    <3>1. n \in L /\ E(n).failed = {n} BY <2>5, <2>6
    <3>2. PICK m : /\ E(n).sources = {m} /\ m.name = n
                   /\ m.unsupported => E(n).failed = {}
                   /\ ~m.unsupported => (m.success <=> E(n).failed = {})
      BY <2>4, <3>1
    <3> QED BY <2>1, <3>1, <3>2
  <2>9. ASSUME NEW m \in fact.sources
        PROVE  /\ m.name \in L
               /\ m.unsupported <=> Outside(s, m.name)
               /\ m.unsupported => ~m.success /\ ~m.stale
               /\ m.stale => m.name \in fact.failed
               /\ ~m.unsupported => (m.success <=> m.name \notin fact.failed)
    <3>1. PICK n \in L : m \in E(n).sources BY <2>1
    <3>2. /\ m.name = n
          /\ m.unsupported => ~m.success /\ ~m.stale
          /\ ~m.unsupported => (m.success <=> E(n).failed = {})
          /\ m.stale => E(n).failed = {n}
          /\ E(n).failed \subseteq {n}
      BY <2>4, <3>1
    <3>3. m.unsupported <=> Outside(s, n) BY <2>3, <3>1
    <3> QED BY <2>5, <3>1, <3>2, <3>3
  <2>10. ASSUME NEW n \in L, Outside(s, n), NEW f \in fact.value PROVE f.source # n
    <3>1. SUFFICES ASSUME f.source = n PROVE FALSE OBVIOUS
    <3>2. PICK k \in L : f \in E(k).value BY <2>1
    <3>3. k = n BY <2>4, <3>1, <3>2
    <3>4. PICK m : E(n).sources = {m} /\ (m.unsupported => E(n).value = {}) BY <2>4
    <3> QED BY <2>3, <2>10, <3>2, <3>3, <3>4
  <2>11. "station_resolution" \notin fact.failed BY <1>0, <2>6
  <2> QED BY <1>2, <2>6, <2>7, <2>8, <2>9, <2>10, <2>11 DEF FactTells, L
<1> QED BY <1>1, <1>2, FactForm

-----------------------------------------------------------------------------
(* The verdict and the parts of the message.                               *)

\* The verdict of an answer with a route.
LEMMA VerdictIs ==
    ASSUME IInv, Judged
    PROVE  /\ answer.judgement \in {"cannot tell", "not recommended", "caution", "possible"}
           /\ answer.judgement = "cannot tell" <=> CriticalFailure(answer.failed)
           /\ answer.judgement = "cannot tell" <=> routeRead.failed # {} \/ StatusFailedFor(TheRoute)
           /\ answer.status \in {"SUCCESS", "PARTIAL"}
           /\ answer.status = "PARTIAL" <=> answer.failed # {} \/ \E m \in answer.sources : m.unsupported
<1>1. /\ answer.judgement = Judgement(answer.status, answer.level, answer.codes, answer.failed,
                                      answer.checks, request.profile)
      /\ answer.failed = FailedFor(TheRoute) /\ answer.level = Candidate(TheRoute).level
      /\ answer.status = CandidateStatus(answer.failed, answer.sources)
      /\ TheRoute \in routes /\ DOMAIN facts = Queries
  BY TheAnswer
<1>2. answer.level = "UNKNOWN" <=> CriticalFailure(answer.failed) BY <1>1, UnknownIs
<1>3. CriticalFailure(answer.failed) <=> routeRead.failed # {} \/ StatusFailedFor(TheRoute)
  BY <1>1, CriticalFailureIs
<1>4. /\ answer.status \in {"SUCCESS", "PARTIAL"}
      /\ answer.status = "PARTIAL" <=> answer.failed # {} \/ \E m \in answer.sources : m.unsupported
  BY <1>1 DEF CandidateStatus
<1> DEFINE words == Judgement(answer.status, answer.level, answer.codes, answer.failed,
                              answer.checks, request.profile)
<1>5. /\ words \in {"cannot tell", "not recommended", "caution", "possible"}
      /\ words = "cannot tell" <=> answer.level = "UNKNOWN" \/ CriticalFailure(answer.failed)
  BY <1>4 DEF Judgement
<1>6. answer.judgement = words BY <1>1
<1> HIDE DEF words
<1> QED BY <1>2, <1>3, <1>4, <1>5, <1>6

\* The parts of the message of such an answer.
LEMMA MessageIs ==
    ASSUME IInv, Judged
    PROVE  /\ Said.heading = ActionHeading(answer) /\ Said.lead = LeadPoints(answer)
           /\ Said.headline = IF answer.judgement = "cannot tell" \/ LeadPoints(answer) # NoLead THEN "none"
                              ELSE Headline(answer)
           /\ Said.actions = ShownActions(answer) /\ Said.table = Table(answer)
           /\ Said.transfers = (\E route \in answer.selected : route.transfers > 0)
           /\ Said.basis = DataBasis(answer)
           /\ Said.notices = Range(First(Notices(answer), 3))
           /\ answer.judgement = "cannot tell" => Said.heading = "data not confirmed"
           /\ answer.judgement \in {"cannot tell", "possible"} => Said.lead = NoLead
<1>1. answer.judgement # "more information" BY VerdictIs
<1>2. answer.status # "FAILED" BY VerdictIs
<1>3. answer.judgement = "cannot tell" => ActionHeading(answer) = "data not confirmed"
  BY <1>2 DEF ActionHeading, CannotTellHeading, RouteNotFound
<1>4. answer.judgement \in {"cannot tell", "possible"} => LeadPoints(answer) = NoLead BY DEF LeadPoints
<1>5. Said = [heading |-> ActionHeading(answer),
              headline |-> IF answer.judgement = "cannot tell" \/ LeadPoints(answer) # NoLead THEN "none"
                           ELSE Headline(answer),
              lead |-> LeadPoints(answer), actions |-> ShownActions(answer),
              transfers |-> \E route \in answer.selected : route.transfers > 0,
              table |-> Table(answer), basis |-> DataBasis(answer), notices |-> Range(First(Notices(answer), 3))]
  BY <1>1 DEF Said, Message
<1> QED BY <1>3, <1>4, <1>5

\* A source that failed for a station with a role is among the sources of the
\* answer, as one that had to answer and did not.
LEMMA FailedIsEvidence ==
    ASSUME IInv, Judged, NEW s \in ElevatorCheckStations(TheRoute), NEW kind, <<s, kind>> \in DOMAIN facts,
           NEW n \in facts[<<s, kind>>].failed, n # "station_resolution"
    PROVE  /\ n \in SourcesOf(kind)
           /\ \E m \in TripEvidence(answer) : m.name = n /\ ~m.success /\ ~m.unsupported
<1>1. /\ n \in SourcesOf(kind)
      /\ \E m \in facts[<<s, kind>>].sources : m.name = n /\ ~m.success /\ ~m.unsupported
  BY FactsTell DEF FactTells
<1>2. facts[<<s, kind>>].sources \subseteq answer.sources BY RoleFacts
<1> QED BY <1>1, <1>2 DEF TripEvidence

\* A group of sources one of which had to answer and did not says so.
LEMMA GroupTells ==
    ASSUME Judged, NEW g \in DOMAIN SourceGroups, NEW m \in TripEvidence(answer),
           m.name \in SourceGroups[g], ~m.success, ~m.unsupported
    PROVE  \E b \in DataBasis(answer) : b[1] = g /\ b[2] \in {"failed", "checked, some failed"}
<1> DEFINE status == SourceGroupStatus(answer, SourceGroups[g])
           sources == {x \in TripEvidence(answer) : x.name \in SourceGroups[g]}
           failing == {x \in sources : ~x.success /\ ~x.unsupported}
<1>1. status = IF sources = {} THEN "not asked"
               ELSE IF \A x \in sources : x.unsupported THEN "unsupported"
               ELSE IF ~\E x \in sources : x.success THEN "failed"
               ELSE IF failing = {} THEN "checked" ELSE "checked, some failed"
  BY DEF SourceGroupStatus
<1>2. m \in sources /\ m \in failing OBVIOUS
<1>3. status \in {"failed", "checked, some failed"} BY <1>1, <1>2
<1>4. g = "restrooms" => \E x \in TripEvidence(answer) : x.name = "restroom" BY DEF SourceGroups
<1> HIDE DEF status
<1>5. <<g, status>> \in DataBasis(answer) BY <1>3, <1>4 DEF DataBasis, status
<1>6. <<g, status>>[1] = g /\ <<g, status>>[2] = status OBVIOUS
<1> QED BY <1>3, <1>5, <1>6

\* The lead has all of its points, or none.
LEMMA LeadIs ==
    /\ NoLead.restricted = {} /\ NoLead.running = {} /\ NoLead.exits = {} /\ NoLead.unconfirmed = {}
    /\ IF /\ answer.judgement \in {"caution", "not recommended"}
          /\ RestrictedSentences(answer.checks) \cup Unconfirmed(answer) # {}
       THEN /\ LeadPoints(answer) # NoLead
            /\ LeadPoints(answer).restricted = RestrictedSentences(answer.checks)
            /\ LeadPoints(answer).running = OperatingStations(answer.checks)
            /\ LeadPoints(answer).unconfirmed = Unconfirmed(answer)
       ELSE LeadPoints(answer) = NoLead
<1> DEFINE restricted == RestrictedSentences(answer.checks)
           unconfirmed == Unconfirmed(answer)
           running == OperatingStations(answer.checks)
           exits == ExitsReached(answer.checks)
<1>1. LeadPoints(answer) = IF \/ answer.judgement \notin {"caution", "not recommended"}
                              \/ restricted \cup unconfirmed = {}
                           THEN NoLead
                           ELSE [restricted |-> restricted, running |-> running,
                                 exits |-> exits, unconfirmed |-> unconfirmed]
  BY DEF LeadPoints
<1> HIDE DEF restricted, unconfirmed, running, exits
<1>2. /\ NoLead.restricted = {} /\ NoLead.running = {} /\ NoLead.exits = {} /\ NoLead.unconfirmed = {}
  BY DEF NoLead
<1>3. CASE answer.judgement \in {"caution", "not recommended"} /\ restricted \cup unconfirmed # {}
  <2>1. LeadPoints(answer) = [restricted |-> restricted, running |-> running,
                              exits |-> exits, unconfirmed |-> unconfirmed]
    BY <1>1, <1>3
  <2>2. /\ LeadPoints(answer).restricted = restricted /\ LeadPoints(answer).running = running
        /\ LeadPoints(answer).unconfirmed = unconfirmed
    BY <2>1
  <2> QED BY <1>2, <1>3, <2>2 DEF restricted, unconfirmed, running
<1>4. CASE ~(answer.judgement \in {"caution", "not recommended"} /\ restricted \cup unconfirmed # {})
  BY <1>1, <1>2, <1>4 DEF restricted, unconfirmed
<1> QED BY <1>3, <1>4

-----------------------------------------------------------------------------
(* The questions.                                                          *)

IsSequence(s) == s \in Seq(Range(s))

LEMMA Joined ==
    ASSUME NEW s, NEW t, IsSequence(s), IsSequence(t)
    PROVE  IsSequence(s \o t) /\ Range(s \o t) = Range(s) \cup Range(t)
<1> DEFINE S == Range(s) \cup Range(t)
<1>1. s \in Seq(S) /\ t \in Seq(S)
  <2>1. \A A, B : A \subseteq B => Seq(A) \subseteq Seq(B) OBVIOUS
  <2> QED BY <2>1 DEF IsSequence
<1> HIDE DEF S
<1>2. Range(s \o t) = Range(s) \cup Range(t) BY <1>1, RangeConcatenation
<1>3. s \o t \in Seq(S) BY <1>1
<1>4. s \o t \in Seq(Range(s \o t)) BY <1>3, SeqOfRange
<1> QED BY <1>2, <1>4 DEF IsSequence

LEMMA PosedIs ==
    ASSUME NEW question
    PROVE  /\ IsSequence(Posed(question))
           /\ question.stations # {} => question \in Range(Posed(question))
<1>1. CASE question.stations = {} BY <1>1 DEF Posed, IsSequence, Range
<1>2. CASE question.stations # {}
  <2>1. Posed(question) = <<question>> BY <1>2 DEF Posed
  <2>2. DOMAIN <<question>> = {1} /\ <<question>>[1] = question OBVIOUS
  <2>3. Range(<<question>>) = {question} BY <2>2 DEF Range
  <2>4. <<question>> \in Seq({question}) OBVIOUS
  <2> QED BY <2>1, <2>3, <2>4 DEF IsSequence
<1> QED BY <1>1, <1>2

LEMMA HeadAndTail ==
    ASSUME NEW s, IsSequence(s), s # <<>>
    PROVE  Range(s) \subseteq Range(<<Head(s)>>) \cup Range(Tail(s))
<1> DEFINE S == Range(s)
<1>1. s \in Seq(S) BY DEF IsSequence
<1>2. \A x \in S : \E i \in 1 .. Len(s) : s[i] = x BY <1>1 DEF Range
<1> HIDE DEF S
<1>3. ASSUME NEW x \in S PROVE x \in Range(<<Head(s)>>) \cup Range(Tail(s))
  <2>1. PICK i \in 1 .. Len(s) : s[i] = x BY <1>2
  <2>2. CASE i = 1
    <3>1. <<Head(s)>>[1] = x /\ 1 \in DOMAIN <<Head(s)>> BY <1>1, <2>1, <2>2
    <3> QED BY <3>1 DEF Range
  <2>3. CASE i # 1
    <3>1. i - 1 \in DOMAIN Tail(s) /\ Tail(s)[i - 1] = x BY <1>1, <2>1, <2>3
    <3> QED BY <3>1 DEF Range
  <2> QED BY <2>2, <2>3
<1> QED BY <1>3 DEF S

\* The checks are finitely many.
LEMMA FinitelyManyChecks ==
    ASSUME IInv, Judged
    PROVE  IsFiniteSet(answer.checks)
<1>1. answer.checks = {CheckAt(s) : s \in ElevatorCheckStations(TheRoute)} BY ChecksAre
<1>2. IsFiniteSet(ElevatorCheckStations(TheRoute))
  <2>1. ElevatorCheckStations(TheRoute) \subseteq Station BY TheAnswer, StationsOfRoute
  <2> QED BY <2>1, RequestAssumption, FS_Subset
<1> DEFINE f == [s \in ElevatorCheckStations(TheRoute) |-> CheckAt(s)]
<1>3. DOMAIN f = ElevatorCheckStations(TheRoute) /\ answer.checks = {f[s] : s \in DOMAIN f} BY <1>1
<1> HIDE DEF f
<1> QED BY <1>2, <1>3, ImageIsFinite

Handled == {c \in answer.checks : IsRestricted(c) \/ IsMissing(c)}
Open == answer.checks \ Handled

LEMMA BlockingIs ==
    LET actions == BlockingActions(answer.checks)
    IN  /\ IsSequence(actions)
        /\ \A c \in answer.checks :
              /\ IsRestricted(c) => \E a \in Range(actions) : /\ c.station \in a.stations
                                                             /\ a.ask \in {{"other elevators"}, {"elevator or help"}}
              /\ IsMissing(c) => \E a \in Range(actions) : c.station \in a.stations
<1> DEFINE checks == answer.checks
           restricted(alternative) == {c \in checks : IsRestricted(c) /\ HasOperatingElevator(c) = alternative}
           missing(restroom) == {c \in checks : IsMissing(c) /\ (c.restroomRequired /\ c.restroom # "yes") = restroom}
           q1 == Question({"other elevators"}, restricted(TRUE))
           q2 == Question({"elevator or help"}, restricted(FALSE))
           q3 == Question({"elevator", "restroom"}, missing(TRUE))
           q4 == Question({"elevator"}, missing(FALSE))
           actions == Posed(q1) \o Posed(q2) \o Posed(q3) \o Posed(q4)
<1>1. BlockingActions(answer.checks) = actions BY DEF BlockingActions
<1>2. \A ask, set : Question(ask, set).ask = ask /\ Question(ask, set).stations = {c.station : c \in set}
  BY DEF Question
<1>3. \A c \in checks : /\ IsRestricted(c) => c \in restricted(TRUE) \/ c \in restricted(FALSE)
                        /\ IsMissing(c) => c \in missing(TRUE) \/ c \in missing(FALSE)
  BY DEF HasOperatingElevator
<1> HIDE DEF restricted, missing
<1>4. /\ q1.ask = {"other elevators"} /\ q2.ask = {"elevator or help"}
      /\ \A c \in restricted(TRUE) : c.station \in q1.stations
      /\ \A c \in restricted(FALSE) : c.station \in q2.stations
      /\ \A c \in missing(TRUE) : c.station \in q3.stations
      /\ \A c \in missing(FALSE) : c.station \in q4.stations
  BY Zenon, <1>2
<1> HIDE DEF q1, q2, q3, q4, checks
<1>5. \A q \in {q1, q2, q3, q4} : IsSequence(Posed(q)) /\ (q.stations # {} => q \in Range(Posed(q)))
  BY PosedIs
<1>6. /\ IsSequence(actions)
      /\ \A q \in {q1, q2, q3, q4} : q.stations # {} => q \in Range(actions)
  <2>1. /\ IsSequence(Posed(q1) \o Posed(q2))
        /\ Range(Posed(q1) \o Posed(q2)) = Range(Posed(q1)) \cup Range(Posed(q2))
    BY <1>5, Joined
  <2>2. /\ IsSequence(Posed(q1) \o Posed(q2) \o Posed(q3))
        /\ Range(Posed(q1) \o Posed(q2) \o Posed(q3)) = Range(Posed(q1)) \cup Range(Posed(q2)) \cup Range(Posed(q3))
    BY <1>5, <2>1, Joined
  <2>3. IsSequence(actions) /\ Range(actions) = Range(Posed(q1)) \cup Range(Posed(q2)) \cup Range(Posed(q3)) \cup Range(Posed(q4))
    BY <1>5, <2>2, Joined
  <2> QED BY <1>5, <2>3
<1> HIDE DEF actions
<1>7. \A c \in checks :
         /\ IsRestricted(c) => \E q \in {q1, q2} : q \in Range(actions) /\ c.station \in q.stations
         /\ IsMissing(c) => \E q \in {q3, q4} : q \in Range(actions) /\ c.station \in q.stations
  BY <1>3, <1>4, <1>6
<1> QED BY <1>1, <1>4, <1>6, <1>7 DEF checks

LEMMA PathsAre ==
    ASSUME NEW checks, IsFiniteSet(checks)
    PROVE  /\ IsSequence(PathActions(checks))
           /\ \A c \in checks : PathGaps(c) # {} => \E a \in Range(PathActions(checks)) : c.station \in a.stations
<1> DEFINE with(legs) == {c \in checks : PathGaps(c) = legs}
           asked == {PathGaps(c) : c \in checks} \ {{}}
           questions == {Question(legs, with(legs)) : legs \in asked}
<1>1. PathActions(checks) = SetToSeq(questions) BY DEF PathActions
<1>2. IsFiniteSet(questions)
  <2> DEFINE f == [c \in {c \in checks : PathGaps(c) # {}} |-> Question(PathGaps(c), with(PathGaps(c)))]
  <2>1. DOMAIN f = {c \in checks : PathGaps(c) # {}} OBVIOUS
  <2>2. questions = {f[c] : c \in DOMAIN f} OBVIOUS
  <2>3. IsFiniteSet({c \in checks : PathGaps(c) # {}}) BY FS_Subset
  <2> HIDE DEF f, questions
  <2> QED BY <2>1, <2>2, <2>3, ImageIsFinite
<1>3. ASSUME NEW c \in checks, PathGaps(c) # {} PROVE \E a \in questions : c.station \in a.stations
  <2> DEFINE a == Question(PathGaps(c), with(PathGaps(c)))
  <2>1. a \in questions BY <1>3
  <2>2. c \in with(PathGaps(c)) OBVIOUS
  <2>3. a.stations = {d.station : d \in with(PathGaps(c))} BY DEF Question
  <2> HIDE DEF a, questions, with
  <2> QED BY <2>1, <2>2, <2>3
<1> HIDE DEF questions
<1> QED BY <1>1, <1>2, <1>3, SetToSeqIs DEF IsSequence

LEMMA DetailsAre ==
    LET actions == DetailActions(answer, Handled)
    IN  /\ IsSequence(actions)
        /\ \A c \in Open : (c.line # NoLine /\ c.lineMatch # "CONFIRMED") \/ Gap(c.statusVerified) =>
              \E a \in Range(actions) : c.station \in a.stations
        /\ ChargerUnchecked(answer) => \E a \in Range(actions) : a.ask = {"charger"}
<1> DEFINE lines == {c \in Open : c.line # NoLine /\ c.lineMatch # "CONFIRMED"}
           states == {c \in Open : Gap(c.statusVerified)}
           restrooms == {c \in answer.checks : c.restroomRequired /\ c.restroom # "yes" /\ ~IsMissing(c)}
           charger == [ask |-> {"charger"}, stations |-> {Nowhere}]
           q1 == Question({"line"}, lines)
           q2 == Question({"status"}, states)
           q3 == IF ChargerUnchecked(answer) THEN <<charger>> ELSE <<>>
           q4 == Question({"restroom"}, restrooms)
           actions == Posed(q1) \o Posed(q2) \o q3 \o Posed(q4)
<1>1. DetailActions(answer, Handled) = actions BY DEF DetailActions, Open
<1>2. \A ask, set : Question(ask, set).stations = {c.station : c \in set} BY DEF Question
<1>3. \A c \in Open : /\ c.line # NoLine /\ c.lineMatch # "CONFIRMED" => c \in lines
                      /\ Gap(c.statusVerified) => c \in states
  OBVIOUS
<1> HIDE DEF lines, states, restrooms
<1>4. /\ \A c \in lines : c.station \in q1.stations
      /\ \A c \in states : c.station \in q2.stations
  BY Zenon, <1>2
<1>5. IsSequence(q3) /\ (ChargerUnchecked(answer) => \E a \in Range(q3) : a.ask = {"charger"})
  <2>1. charger.ask = {"charger"} OBVIOUS
  <2> HIDE DEF charger
  <2>2. <<charger>> \in Seq({charger}) /\ <<charger>>[1] = charger /\ DOMAIN <<charger>> = {1} OBVIOUS
  <2>3. Range(<<charger>>) = {charger} BY <2>2 DEF Range
  <2>4. IsSequence(<<>>) BY DEF IsSequence, Range
  <2> QED BY <2>1, <2>2, <2>3, <2>4 DEF IsSequence
<1> HIDE DEF q1, q2, q3, q4
<1>6. \A q \in {q1, q2, q4} : IsSequence(Posed(q)) /\ (q.stations # {} => q \in Range(Posed(q)))
  BY PosedIs
<1>7. IsSequence(actions) /\ Range(actions) = Range(Posed(q1)) \cup Range(Posed(q2)) \cup Range(q3) \cup Range(Posed(q4))
  <2>1. /\ IsSequence(Posed(q1) \o Posed(q2))
        /\ Range(Posed(q1) \o Posed(q2)) = Range(Posed(q1)) \cup Range(Posed(q2))
    BY <1>6, Joined
  <2>2. /\ IsSequence(Posed(q1) \o Posed(q2) \o q3)
        /\ Range(Posed(q1) \o Posed(q2) \o q3) = Range(Posed(q1)) \cup Range(Posed(q2)) \cup Range(q3)
    BY <1>5, <2>1, Joined
  <2> QED BY <1>6, <2>2, Joined
<1> HIDE DEF actions
<1> QED BY <1>1, <1>3, <1>4, <1>5, <1>6, <1>7

\* What is asked of a restricted station, of one without elevators, and, unless the
\* verdict is a warning, of every other one with a gap.
LEMMA ActionsAre ==
    ASSUME IInv, Judged
    PROVE  LET actions == PreDepartureActions(answer)
           IN  /\ IsSequence(actions)
               /\ \A c \in answer.checks :
                     /\ IsRestricted(c) => \E a \in Range(actions) : /\ c.station \in a.stations
                                                                    /\ a.ask \in {{"other elevators"}, {"elevator or help"}}
                     /\ IsMissing(c) => \E a \in Range(actions) : c.station \in a.stations
               /\ answer.judgement # "not recommended" =>
                     /\ \A c \in Open : PathGaps(c) # {} \/ Gap(c.statusVerified) \/ (c.line # NoLine /\ c.lineMatch # "CONFIRMED") =>
                           \E a \in Range(actions) : c.station \in a.stations
                     /\ ChargerUnchecked(answer) => \E a \in Range(actions) : a.ask = {"charger"}
<1> DEFINE blocking == BlockingActions(answer.checks)
           paths == PathActions(Open)
           details == DetailActions(answer, Handled)
           actions == PreDepartureActions(answer)
<1>1. actions = IF answer.judgement = "not recommended" THEN blocking ELSE blocking \o paths \o details
  BY DEF PreDepartureActions, Handled, Open
<1>2. IsFiniteSet(Open) BY FinitelyManyChecks, FS_Subset DEF Open
<1>3. /\ IsSequence(blocking)
      /\ \A c \in answer.checks :
            /\ IsRestricted(c) => \E a \in Range(blocking) : /\ c.station \in a.stations
                                                            /\ a.ask \in {{"other elevators"}, {"elevator or help"}}
            /\ IsMissing(c) => \E a \in Range(blocking) : c.station \in a.stations
  BY BlockingIs
<1>4. /\ IsSequence(paths)
      /\ \A c \in Open : PathGaps(c) # {} => \E a \in Range(paths) : c.station \in a.stations
  BY <1>2, PathsAre
<1>5. /\ IsSequence(details)
      /\ \A c \in Open : (c.line # NoLine /\ c.lineMatch # "CONFIRMED") \/ Gap(c.statusVerified) =>
            \E a \in Range(details) : c.station \in a.stations
      /\ ChargerUnchecked(answer) => \E a \in Range(details) : a.ask = {"charger"}
  BY DetailsAre
<1> HIDE DEF blocking, paths, details, actions
<1>6. /\ IsSequence(blocking \o paths \o details)
      /\ Range(blocking \o paths \o details) = Range(blocking) \cup Range(paths) \cup Range(details)
  <2>1. IsSequence(blocking \o paths) /\ Range(blocking \o paths) = Range(blocking) \cup Range(paths)
    BY <1>3, <1>4, Joined
  <2> QED BY <1>5, <2>1, Joined
<1>7. CASE answer.judgement = "not recommended" BY <1>1, <1>3, <1>7 DEF actions
<1>8. CASE answer.judgement # "not recommended"
  <2>1. actions = blocking \o paths \o details BY <1>1, <1>8
  <2>2. Range(actions) = Range(blocking) \cup Range(paths) \cup Range(details) /\ IsSequence(actions)
    BY <1>6, <2>1
  <2> QED BY <1>3, <1>4, <1>5, <2>2 DEF actions
<1> QED BY <1>7, <1>8

\* Unless it cannot be told, every question is shown, as the first action or among the others.
LEMMA ShownIs ==
    ASSUME IInv, Judged, answer.judgement # "cannot tell"
    PROVE  Range(PreDepartureActions(answer)) \subseteq ShownActions(answer)
<1> DEFINE actions == PreDepartureActions(answer)
           primary == PrimaryAction(answer, actions)
           rest == IF LeadPoints(answer) = NoLead /\ primary # <<>> /\ actions # <<>> THEN Tail(actions) ELSE actions
<1>1. ShownActions(answer) = Range(primary) \cup Range(rest) BY DEF ShownActions
<1>2. IsSequence(actions) BY ActionsAre
<1>3. actions # <<>> => primary = <<Head(actions)>>
  <2>1. answer.judgement \in {"not recommended", "caution", "possible"} BY VerdictIs
  <2> HIDE DEF actions
  <2> QED BY <2>1 DEF PrimaryAction
<1> HIDE DEF primary, actions
<1>4. CASE rest = actions BY <1>1, <1>4 DEF actions
<1>5. CASE rest # actions
  <2>1. actions # <<>> /\ rest = Tail(actions) BY <1>5
  <2>2. Range(actions) \subseteq Range(<<Head(actions)>>) \cup Range(Tail(actions))
    BY <1>2, <2>1, HeadAndTail
  <2> QED BY <1>1, <1>3, <2>1, <2>2 DEF actions
<1> QED BY <1>4, <1>5

-----------------------------------------------------------------------------
(* The elevators.                                                          *)

\* What the tests of the message find of a check.
CheckWords(c) ==
    /\ IsOperating(c) <=> c.state = "AVAILABLE"
    /\ IsMissing(c) <=> c.details = {}
    /\ HasOperatingElevator(c) <=> Reported(c.station, "AVAILABLE")
    /\ DetailsIn(c, Restricting) # {} <=> \E status \in Restricting : Reported(c.station, status)
    /\ DetailsIn(c, Restricting) # {} => IsRestricted(c) /\ c.has = "CONFIRMED"
    /\ IsRestricted(c) => ~IsMissing(c) /\ ~IsOperating(c)
    /\ (\E d \in VisibleDetails(c) : d.status = "AVAILABLE") => Reported(c.station, "AVAILABLE")
    /\ VisibleDetails(c) \subseteq c.details
    /\ c.details # {} => VisibleDetails(c) # {}
    /\ (\E status \in Restricting : Reported(c.station, status)) => \E d \in VisibleDetails(c) : d.status \in Restricting

LEMMA CheckSaysInWords ==
    ASSUME IInv, Judged, NEW c \in answer.checks
    PROVE  CheckWords(c)
<1>1. CheckTells(c) BY CheckSays
<1>2. /\ IsFiniteSet(c.details) /\ \A d \in c.details : d.status \in FacilityStatus
      /\ c.has = "CONFIRMED" <=> c.details # {}
      /\ c.has \in {"CONFIRMED", "FAILED", "UNVERIFIED"}
      /\ \A status \in FacilityStatus \ {"UNKNOWN"} :
            (\E d \in c.details : d.status = status) <=> Reported(c.station, status)
      /\ c.state \in FacilityStatus \cup {"MIXED", "NOT_FOUND", "UNSUPPORTED"}
      /\ c.details = {} => c.state \in {"NOT_FOUND", "UNSUPPORTED", "UNKNOWN"}
      /\ c.has = "FAILED" <=> c.state = "NOT_FOUND"
      /\ c.status = RepresentativeStatus(c.state)
      /\ c.statusVerified = StatusEvidence(c.has, c.state)
      /\ c.state = "AVAILABLE" => \A status : Reported(c.station, status) => status = "AVAILABLE"
      /\ c.state \in Restricting => Reported(c.station, c.state)
  BY <1>1 DEF CheckTells
<1>3. /\ VisibleDetails(c) \subseteq c.details
      /\ c.details # {} => VisibleDetails(c) # {}
      /\ DetailsIn(c, Restricting) # {} => \E d \in VisibleDetails(c) : d.status \in Restricting
  BY <1>2, VisibleIs
<1>4. IsOperating(c) <=> c.state = "AVAILABLE" BY <1>2 DEF IsOperating, StatusEvidence
<1>5. IsMissing(c) <=> c.details = {} BY <1>2 DEF IsMissing, Gap
<1>6. HasOperatingElevator(c) <=> Reported(c.station, "AVAILABLE")
  BY <1>2 DEF HasOperatingElevator, DetailsIn, FacilityStatus
<1>7. DetailsIn(c, Restricting) # {} <=> \E status \in Restricting : Reported(c.station, status)
  BY <1>2 DEF DetailsIn, Restricting, FacilityStatus
<1>8. DetailsIn(c, Restricting) # {} => IsRestricted(c) /\ c.has = "CONFIRMED"
  BY <1>2 DEF IsRestricted, DetailsIn
<1>9. c.status \in Restricting => c.state \in Restricting BY <1>2 DEF RepresentativeStatus, Restricting
<1>10. IsRestricted(c) => DetailsIn(c, Restricting) # {} \/ c.state = "MIXED"
  BY <1>2, <1>7, <1>9 DEF IsRestricted
<1>11. IsRestricted(c) => ~IsMissing(c) /\ ~IsOperating(c)
  <2>1. SUFFICES ASSUME IsRestricted(c) PROVE c.details # {} /\ c.state # "AVAILABLE" BY <1>4, <1>5
  <2>2. CASE DetailsIn(c, Restricting) # {}
    <3>1. c.details # {} BY <2>2 DEF DetailsIn
    <3>2. c.state # "AVAILABLE" BY <1>2, <1>7, <2>2 DEF Restricting
    <3> QED BY <3>1, <3>2
  <2>3. CASE c.state = "MIXED" BY <1>2, <2>3
  <2> QED BY <1>10, <2>1, <2>2, <2>3
<1>12. (\E d \in VisibleDetails(c) : d.status = "AVAILABLE") => Reported(c.station, "AVAILABLE")
  BY <1>2, <1>3 DEF FacilityStatus
<1> QED BY <1>3, <1>4, <1>5, <1>6, <1>7, <1>8, <1>11, <1>12 DEF CheckWords

\* The cells of the table are those of the checks.
LEMMA CellsAre ==
    ASSUME IInv, Judged
    PROVE  /\ \A s, w : <<s, w>> \in Cells("confirmed") <=>
                 \E c \in answer.checks : c.station = s /\ w \in TableConfirmed(c)
           /\ \A s, w : <<s, w>> \in Cells("attention") <=>
                 \E c \in answer.checks : c.station = s /\ w \in TableAttention(c)
           /\ \A column \in {"confirmed", "attention"} : \A x \in Cells(column) : x = <<x[1], x[2]>>
<1> DEFINE row(c) == [station |-> c.station, confirmed |-> TableConfirmed(c), attention |-> TableAttention(c)]
<1>1. Said.table = {row(c) : c \in answer.checks} BY MessageIs DEF Table
<1>2. ASSUME NEW c
      PROVE  /\ row(c).station = c.station /\ row(c)["confirmed"] = TableConfirmed(c)
             /\ row(c)["attention"] = TableAttention(c)
  OBVIOUS
<1> HIDE DEF row
<1>3. \A column, x : x \in Cells(column) <=> \E c \in answer.checks : \E w \in row(c)[column] : x = <<row(c).station, w>>
  BY <1>1 DEF Cells
<1> QED BY <1>2, <1>3

\* In the invariant, an elevator is said to run only where one is known to.
LEMMA TripRunning == IInv => RunningIsKnown
<1> SUFFICES ASSUME IInv, Judged
             PROVE  /\ \A s \in Said.lead.running \cup {x[1] : x \in {x \in Cells("confirmed") : x[2] = "running"}} :
                          /\ Reported(s, "AVAILABLE")
                          /\ StatusFailed(s) => /\ Said.heading = "data not confirmed"
                                                /\ \E b \in Said.basis : b[1] = "elevators" /\ b[2] # "checked"
                    /\ \A s \in Said.lead.running : \A status \in DOMAIN StatusRank \ {"AVAILABLE"} : ~Reported(s, status)
  BY DEF RunningIsKnown
<1>1. \A c \in answer.checks : CheckWords(c) /\ CheckTells(c) BY CheckSaysInWords, CheckSays
<1>2. ASSUME NEW s \in Said.lead.running
      PROVE  /\ s \in ElevatorCheckStations(TheRoute) /\ Reported(s, "AVAILABLE")
             /\ \A status : Reported(s, status) => status = "AVAILABLE"
  <2>1. Said.lead = LeadPoints(answer) BY MessageIs
  <2>2. s \in OperatingStations(answer.checks) BY <2>1, LeadIs
  <2>3. PICK c \in answer.checks : c.station = s /\ IsOperating(c) BY <2>2 DEF OperatingStations
  <2>4. c.state = "AVAILABLE" BY <1>1, <2>3 DEF CheckWords
  <2>5. s \in ElevatorCheckStations(TheRoute) BY <2>3, ChecksAre
  <2> QED BY <1>1, <2>3, <2>4, <2>5 DEF CheckTells
<1>3. ASSUME NEW x \in Cells("confirmed"), x[2] = "running"
      PROVE  x[1] \in ElevatorCheckStations(TheRoute) /\ Reported(x[1], "AVAILABLE")
  <2>1. PICK c \in answer.checks : c.station = x[1] /\ "running" \in TableConfirmed(c) BY <1>3, CellsAre
  <2>2. \E d \in VisibleDetails(c) : d.status = "AVAILABLE" BY <2>1 DEF TableConfirmed, PlatformCell
  <2> QED BY <1>1, <2>1, <2>2, ChecksAre DEF CheckWords
<1>4. ASSUME NEW s \in ElevatorCheckStations(TheRoute), StatusFailed(s)
      PROVE  /\ Said.heading = "data not confirmed"
             /\ \E b \in Said.basis : b[1] = "elevators" /\ b[2] # "checked"
  <2>1. answer.judgement = "cannot tell" BY <1>4, VerdictIs DEF StatusFailed, StatusFailedFor
  <2>2. "elevator_status" \in facts[<<s, "elevators">>].failed /\ <<s, "elevators">> \in DOMAIN facts
    BY <1>4, RoleFacts DEF StatusFailed
  <2>3. PICK m \in TripEvidence(answer) : m.name = "elevator_status" /\ ~m.success /\ ~m.unsupported
    BY <2>2, FailedIsEvidence
  <2>4. "elevators" \in DOMAIN SourceGroups /\ "elevator_status" \in SourceGroups["elevators"] BY DEF SourceGroups
  <2>5. \E b \in DataBasis(answer) : b[1] = "elevators" /\ b[2] \in {"failed", "checked, some failed"}
    BY <2>3, <2>4, GroupTells
  <2> QED BY <2>1, <2>5, MessageIs
<1>5. DOMAIN StatusRank \ {"AVAILABLE"} = {"UNAVAILABLE", "MAINTENANCE", "UNKNOWN"} BY DEF StatusRank
<1> QED BY <1>2, <1>3, <1>4, <1>5

\* In the invariant, no restriction is kept from the reader.
LEMMA TripRestriction == IInv => RestrictionIsTold
<1> SUFFICES ASSUME IInv, Judged, NEW c \in answer.checks, \E status \in Restricting : Reported(c.station, status)
             PROVE  /\ \E x \in Cells("attention") : x[1] = c.station /\ x[2] \in Restricting
                    /\ answer.judgement \in {"caution", "not recommended"} =>
                          /\ <<c.station, Reported(c.station, "AVAILABLE")>> \in Said.lead.restricted
                          /\ Said.heading \in {"avoid the elevator", "not recommended"}
                          /\ \E a \in Said.actions : c.station \in a.stations
                                                   /\ a.ask \cap {"other elevators", "elevator or help"} # {}
  BY DEF RestrictionIsTold
<1>1. /\ HasOperatingElevator(c) <=> Reported(c.station, "AVAILABLE")
      /\ IsRestricted(c) /\ c.has = "CONFIRMED"
      /\ \E d \in VisibleDetails(c) : d.status \in Restricting
  BY CheckSaysInWords DEF CheckWords
<1>2. \E x \in Cells("attention") : x[1] = c.station /\ x[2] \in Restricting
  <2>1. PICK d \in VisibleDetails(c) : d.status \in Restricting BY <1>1
  <2>2. d.status \in {e.status : e \in VisibleDetails(c)} \ {"AVAILABLE"} BY <2>1 DEF Restricting
  <2>3. d.status \in TableAttention(c) BY <1>1, <2>2 DEF TableAttention
  <2>4. <<c.station, d.status>> \in Cells("attention") BY <2>3, CellsAre
  <2>5. <<c.station, d.status>>[1] = c.station /\ <<c.station, d.status>>[2] = d.status OBVIOUS
  <2> QED BY <2>1, <2>4, <2>5
<1>3. ASSUME answer.judgement \in {"caution", "not recommended"}
      PROVE  /\ <<c.station, Reported(c.station, "AVAILABLE")>> \in Said.lead.restricted
             /\ Said.heading \in {"avoid the elevator", "not recommended"}
             /\ \E a \in Said.actions : c.station \in a.stations
                                      /\ a.ask \cap {"other elevators", "elevator or help"} # {}
  <2>1. <<c.station, HasOperatingElevator(c)>> \in RestrictedSentences(answer.checks)
    BY <1>1 DEF RestrictedSentences
  <2>2. Said.lead.restricted = RestrictedSentences(answer.checks) BY <1>3, <2>1, LeadIs, MessageIs
  <2>3. HasOperatingElevator(c) = Reported(c.station, "AVAILABLE")
    BY <1>1 DEF HasOperatingElevator, Reported
  <2>4. HasConfirmedRestriction(answer) BY <1>1 DEF HasConfirmedRestriction
  <2>5. Said.heading \in {"avoid the elevator", "not recommended"}
    BY <1>3, <2>4, MessageIs DEF ActionHeading, CautionHeading
  <2>6. PICK a \in Range(PreDepartureActions(answer)) :
           c.station \in a.stations /\ a.ask \in {{"other elevators"}, {"elevator or help"}}
    BY <1>1, ActionsAre
  <2>7. a \in Said.actions BY <1>3, <2>6, ShownIs, MessageIs
  <2>8. a.ask \cap {"other elevators", "elevator or help"} # {} BY <2>6
  <2> QED BY <2>1, <2>2, <2>3, <2>5, <2>6, <2>7, <2>8
<1> QED BY <1>2, <1>3

\* An elevator is said to run only where the status source has one that runs, and
\* not as confirmed if that was read from an expired entry; a restricted elevator
\* of a station that counts is never left out, whatever the message has room for
\* (user_message_decision.py, user_message_accessibility.py).
THEOREM ElevatorsAreToldAlways == Spec => []ElevatorsAreTold
<1>1. IInv => ElevatorsAreTold BY TripRunning, TripRestriction DEF ElevatorsAreTold
<1> QED BY <1>1, TripInvariant, PTL

-----------------------------------------------------------------------------
(* What is not known.                                                      *)

\* In the invariant, whoever needs elevators is told what to ask.
LEMMA TripGaps == IInv => GapsAreAsked
<1> SUFFICES ASSUME IInv, Judged, answer.judgement = "caution", NEW c \in answer.checks, Unverified(c),
                    ~\E a \in Said.actions : c.station \in a.stations
             PROVE  c.line = NoLine /\ PathGaps(c) = {} /\ c.status # "UNKNOWN"
  BY DEF GapsAreAsked
<1>1. Range(PreDepartureActions(answer)) \subseteq Said.actions BY ShownIs, MessageIs
<1>2. c \in Open /\ ~IsRestricted(c) /\ ~IsMissing(c) BY <1>1, ActionsAre DEF Open, Handled
<1>3. /\ PathGaps(c) = {} /\ ~Gap(c.statusVerified)
      /\ c.line = NoLine \/ c.lineMatch = "CONFIRMED"
  BY <1>1, <1>2, ActionsAre
<1>4. CheckTells(c) /\ (IsMissing(c) <=> c.details = {}) BY CheckSays, CheckSaysInWords DEF CheckWords
<1>5. c.has = "CONFIRMED" BY <1>2, <1>4 DEF CheckTells
<1>6. c.state # "MIXED" BY <1>2 DEF IsRestricted
<1>7. c.statusVerified = StatusEvidence(c.has, c.state) /\ c.status = RepresentativeStatus(c.state)
  BY <1>4 DEF CheckTells
<1>8. c.state \in {"AVAILABLE", "MAINTENANCE", "UNAVAILABLE"}
  BY <1>3, <1>5, <1>6, <1>7 DEF StatusEvidence, Gap
<1>9. c.status # "UNKNOWN" BY <1>7, <1>8 DEF RepresentativeStatus
<1>10. ~Gap(c.platform) /\ ~Gap(c.transfer) /\ ~Gap(c.exit) BY <1>3 DEF PathGaps
<1>11. ~Gap(c.has) /\ (c.lineMatch = "CONFIRMED" => ~Gap(c.lineMatch)) BY <1>5 DEF Gap
<1>12. Gap(c.lineMatch) BY <1>3, <1>9, <1>10, <1>11 DEF Unverified
<1> QED BY <1>3, <1>9, <1>11, <1>12

\* Where a source does not cover a station, no other one does, and the check of
\* the station says so.
LEMMA NothingIsCovered ==
    ASSUME IInv, Judged, NEW s \in ElevatorCheckStations(TheRoute),
           NEW x \in StationSources(facts, s), x.unsupported
    PROVE  StateAt(s) = "UNSUPPORTED"
<1>1. PICK q \in DOMAIN facts : q[1] = s /\ x \in facts[q].sources BY DEF StationSources
<1>2. q = <<s, q[2]>>
  <2>1. q \in Queries BY DEF IInv, FactsInv
  <2> QED BY <1>1, <2>1 DEF Queries, QueriesOf
<1>3. Outside(s, x.name) BY <1>1, <1>2, FactsTell DEF FactTells
<1>4. \A n \in FacilitySources : Outside(s, n)
  <2>1. <<x.name, s, Resolve(s, ContextLine(s)).line>> \in FacilitySources \X Station \X Line
    BY <1>3, RegistryAssumption DEF Outside
  <2> QED BY <1>3, <2>1, CoverageAssumption DEF Outside
<1>5. ~Unresolved(s, ContextLine(s)) BY <1>3 DEF Outside, Unresolved
<1>6. \A kind : SourcesOf(kind) \subseteq FacilitySources BY DEF SourcesOf, FacilitySources
<1>7. ASSUME NEW kind, <<s, kind>> \in DOMAIN facts PROVE facts[<<s, kind>>].value = {}
  <2>1. \A f \in facts[<<s, kind>>].value : f.source \in SourcesOf(kind) BY <1>7, FactsSay DEF FactSays
  <2>2. \A n \in SourcesOf(kind) : \A f \in facts[<<s, kind>>].value : f.source # n
    BY <1>4, <1>6, <1>7, FactsTell DEF FactTells
  <2> QED BY <2>1, <2>2
<1>8. ElevatorsAt(facts, s) = {} BY <1>7, RoleFacts
<1>9. AnswerState(ElevatorsAt(facts, s)) = "NOT_FOUND" BY <1>8, StateSays
<1> DEFINE relevant == {m \in StationSources(facts, s) : m.name \in {"facility_info", "elevator_status", "elevator_info"}}
<1>10. \A m \in relevant : m.unsupported
  <2>1. SUFFICES ASSUME NEW m \in relevant PROVE m.unsupported OBVIOUS
  <2>2. PICK k \in DOMAIN facts : k[1] = s /\ m \in facts[k].sources BY <2>1 DEF StationSources
  <2>3. k = <<s, k[2]>>
    <3>1. k \in Queries BY DEF IInv, FactsInv
    <3> QED BY <2>2, <3>1 DEF Queries, QueriesOf
  <2>4. m.name \in FacilitySources BY <2>1 DEF FacilitySources
  <2> QED BY <1>4, <2>2, <2>3, <2>4, FactsTell DEF FactTells
<1>11. relevant # {}
  <2>1. <<s, "elevators">> \in DOMAIN facts BY RoleFacts
  <2>2. "station_resolution" \notin facts[<<s, "elevators">>].failed BY <1>5, <2>1, FactsTell DEF FactTells
  <2>3. PICK m \in facts[<<s, "elevators">>].sources : m.name = "elevator_status"
    BY <2>1, <2>2, FactsTell DEF FactTells, SourcesOf
  <2>4. <<s, "elevators">>[1] = s OBVIOUS
  <2>5. m \in StationSources(facts, s) BY <2>1, <2>3, <2>4 DEF StationSources
  <2> QED BY <2>3, <2>5
<1> DEFINE covered == {m \in relevant : ~m.unsupported}
<1>12. covered = {} BY <1>10
<1> QED BY <1>9, <1>11, <1>12 DEF StateAt, AnswerStateAt, AlignedState

\* There is no limitation left to be noticed.
LEMMA NoCoverageNotices ==
    ASSUME IInv, Judged
    PROVE  CoverageNotices(answer) = {}
<1>1. SUFFICES ASSUME NEW c \in answer.checks, c.state # "UNSUPPORTED",
                      NEW x \in StationSources(facts, c.station), x.unsupported
               PROVE  FALSE
  BY DEF CoverageNotices
<1>2. PICK s \in ElevatorCheckStations(TheRoute) : c = CheckAt(s) /\ c.station = s BY ChecksAre
<1>3. StateAt(s) = "UNSUPPORTED" BY <1>1, <1>2, NothingIsCovered
<1> QED BY <1>1, <1>2, <1>3, CheckForm

\* Cut to the first ones, a sequence has nothing else and all of these.
LEMMA FirstAre ==
    ASSUME NEW S, NEW s \in Seq(S), NEW n \in Nat
    PROVE  /\ Range(First(s, n)) \subseteq Range(s)
           /\ \A k \in 1 .. Len(s) : k <= n => s[k] \in Range(First(s, n))
<1> DEFINE m == IF n < Len(s) THEN n ELSE Len(s)
<1>1. m \in Nat /\ m <= Len(s) OBVIOUS
<1>2. \A k \in 1 .. Len(s) : k <= n => k \in 1 .. m OBVIOUS
<1>3. First(s, n) = SubSeq(s, 1, m) BY DEF First
<1> HIDE DEF m
<1>4. DOMAIN First(s, n) = 1 .. m /\ \A k \in 1 .. m : First(s, n)[k] = s[k] BY <1>1, <1>3
<1>5. 1 .. m \subseteq DOMAIN s BY <1>1
<1> QED BY <1>2, <1>4, <1>5 DEF Range

LEMMA WhenIs ==
    ASSUME NEW condition, NEW x
    PROVE  /\ When(condition, x) \in Seq({x}) /\ Len(When(condition, x)) <= 1
           /\ condition => When(condition, x) = <<x>>
           /\ ~condition => When(condition, x) = <<>>
<1>1. <<x>> \in Seq({x}) /\ Len(<<x>>) = 1 OBVIOUS
<1>2. <<>> \in Seq({x}) /\ Len(<<>>) = 0 OBVIOUS
<1>3. CASE condition BY <1>1, <1>3 DEF When
<1>4. CASE ~condition BY <1>2, <1>4 DEF When
<1> QED BY <1>3, <1>4

\* The notes on the ends of a trip are of two kinds.
EndKinds == {"route code", "coverage limited"}

LEMMA EndNoticesAre == ASSUME NEW r PROVE EndNotices(r) \in Seq(EndKinds \X {request.from, request.to})
<1>1. ASSUME NEW S, NEW a \in S, NEW c PROVE When(c, a) \in Seq(S)
  <2>1. <<a>> \in Seq(S) /\ <<>> \in Seq(S) BY <1>1
  <2> QED BY <2>1, WhenIs
<1>2. ASSUME NEW s \in {request.from, request.to}, NEW line
      PROVE  SupportNotices(r, s, line) \in Seq(EndKinds \X {request.from, request.to})
  <2> DEFINE K == EndKinds \X {request.from, request.to}
             tabled == \E c \in r.checks : c.station = s /\ c.state = "UNSUPPORTED"
             limited == \E name \in FacilitySources : <<name, s, line>> \in Uncovered
             code == When(<<s, line>> \in Uncoded /\ ~tabled, <<"route code", s>>)
             coverage == When(limited /\ ~tabled /\ r.selected # {}, <<"coverage limited", s>>)
  <2>1. <<"route code", s>> \in K /\ <<"coverage limited", s>> \in K BY <1>2 DEF EndKinds
  <2>2. SupportNotices(r, s, line) = code \o coverage BY DEF SupportNotices
  <2> HIDE DEF K
  <2>3. code \in Seq(K) /\ coverage \in Seq(K) BY <1>1, <2>1
  <2> HIDE DEF code, coverage
  <2>4. SupportNotices(r, s, line) \in Seq(K) BY <2>2, <2>3
  <2> QED BY <2>4 DEF K
<1> DEFINE from == ResolveQuery(request.from, request.fromLine).line
           to == ResolveQuery(request.to, request.toLine).line
           first == SupportNotices(r, request.from, from)
           second == IF <<request.from, from>> = <<request.to, to>> THEN <<>> ELSE SupportNotices(r, request.to, to)
<1>3. EndNotices(r) = first \o second BY DEF EndNotices
<1>4. first \in Seq(EndKinds \X {request.from, request.to}) BY <1>2
<1>5. second \in Seq(EndKinds \X {request.from, request.to})
  <2>1. SupportNotices(r, request.to, to) \in Seq(EndKinds \X {request.from, request.to}) BY <1>2
  <2>2. <<>> \in Seq(EndKinds \X {request.from, request.to}) OBVIOUS
  <2> HIDE DEF to, from
  <2> QED BY <2>1, <2>2
<1> HIDE DEF first, second
<1> QED BY <1>3, <1>4, <1>5

\* Of three notices two are of the state and the scope.  The third is a note on an
\* end of the trip, if there is one, and the charger's otherwise.
LEMMA NoticesAre ==
    ASSUME IInv, Judged
    PROVE  /\ <<"some data not confirmed", Nowhere>> \in Said.notices => answer.failed # {}
           /\ ChargerUnchecked(answer) /\ Said.lead = NoLead =>
                 \/ <<"charger", Nowhere>> \in Said.notices
                 \/ \E n \in Said.notices : n[1] \in {"route code", "coverage limited"}
<1> DEFINE x == <<"status may change", Nowhere>>
           y == <<"scope", Nowhere>>
           z == <<"charger", Nowhere>>
           w == <<"some data not confirmed", Nowhere>>
           K == EndKinds \X {request.from, request.to}
           charger == ChargerUnchecked(answer) /\ LeadPoints(answer) = NoLead
           failed == answer.status # "FAILED" /\ answer.failed # {}
           s1 == When(ShowsElevatorStatus(answer), x)
           s2 == When(answer.selected # {}, y)
           s3 == EndNotices(answer)
           s4 == SetToSeq(CoverageNotices(answer))
           s5 == When(charger, z)
           s6 == When(failed, w)
           N == {x, y, z, w} \cup K
<1>1. answer.status \in {"SUCCESS", "PARTIAL"} /\ answer.selected # {} BY VerdictIs DEF Judged
<1>2. Notices(answer) = s1 \o s2 \o s3 \o s4 \o s5 \o s6 BY <1>1 DEF Notices
<1>3. s4 = <<>>
  <2>1. IsFiniteSet({}) BY FS_EmptySet
  <2>2. s4 \in Seq({}) BY <2>1, NoCoverageNotices, SetToSeqIs
  <2> QED BY <2>2
<1>4. failed <=> answer.failed # {} BY <1>1
<1>5. s3 \in Seq(K) BY EndNoticesAre
<1>6. /\ x[1] = "status may change" /\ y[1] = "scope" /\ z[1] = "charger" /\ w[1] = "some data not confirmed"
      /\ \A n \in K : n[1] \in EndKinds
  OBVIOUS
<1> HIDE DEF x, y, z, w, K, charger, failed, s3
<1>7. w \notin {x, y, z} \cup K BY <1>6 DEF EndKinds
<1>8. /\ s1 \in Seq({x}) /\ Len(s1) <= 1 /\ s2 \in Seq({y}) /\ Len(s2) <= 1
      /\ s5 \in Seq({z}) /\ s6 \in Seq({w})
      /\ charger => s5 = <<z>>
      /\ ~failed => s6 = <<>>
  BY WhenIs
<1> HIDE DEF s1, s2, s4, s5, s6
<1> DEFINE ahead == s1 \o s2
           before == ahead \o s3
           most == before \o s5
           notices == most \o s6
           k == Len(ahead) + 1
<1>9. /\ s1 \in Seq(N) /\ s2 \in Seq(N) /\ s3 \in Seq(N) /\ s5 \in Seq(N) /\ s6 \in Seq(N)
  <2>1. \A A, B : A \subseteq B => Seq(A) \subseteq Seq(B) OBVIOUS
  <2> QED BY <1>5, <1>8, <2>1
<1>10. /\ Range(s1) \subseteq {x} /\ Range(s2) \subseteq {y} /\ Range(s3) \subseteq K
       /\ Range(s5) \subseteq {z} /\ (~failed => Range(s6) = {})
  BY <1>5, <1>8, RangeOfSeq DEF Range
<1> HIDE DEF N
<1>11. /\ ahead \in Seq(N) /\ before \in Seq(N) /\ most \in Seq(N) /\ notices \in Seq(N)
       /\ Notices(answer) = notices
  <2>1. ahead \in Seq(N) BY <1>9
  <2>2. before \in Seq(N) BY <1>9, <2>1
  <2>3. before \o s4 = before BY <1>3, <2>2
  <2>4. most \in Seq(N) BY <1>9, <2>2
  <2>5. notices \in Seq(N) BY <1>9, <2>4
  <2> QED BY <1>2, <2>1, <2>2, <2>3, <2>4, <2>5
<1>12. k \in Nat /\ 1 <= k /\ k <= 3 BY <1>8, <1>9
<1>13. Range(notices) = Range(s1) \cup Range(s2) \cup Range(s3) \cup Range(s5) \cup Range(s6)
  <2>1. Range(ahead) = Range(s1) \cup Range(s2) BY <1>9, RangeConcatenation
  <2> HIDE DEF ahead
  <2>2. Range(before) = Range(ahead) \cup Range(s3) BY <1>9, <1>11, RangeConcatenation
  <2> HIDE DEF before
  <2>3. Range(most) = Range(before) \cup Range(s5) BY <1>9, <1>11, RangeConcatenation
  <2> HIDE DEF most
  <2>4. Range(notices) = Range(most) \cup Range(s6) BY <1>9, <1>11, RangeConcatenation
  <2> QED BY <2>1, <2>2, <2>3, <2>4
<1> HIDE DEF ahead
<1>14. ASSUME charger, s3 = <<>> PROVE k \in 1 .. Len(notices) /\ notices[k] = z
  <2>1. k = Len(before) + 1 BY <1>11, <1>14
  <2>2. most = before \o <<z>> BY <1>8, <1>14
  <2> HIDE DEF before, k
  <2>3. k \in 1 .. Len(most) /\ most[k] = z BY <1>11, <1>12, <2>1, <2>2
  <2> HIDE DEF most
  <2> QED BY <1>9, <1>11, <2>3
<1>15. ASSUME s3 # <<>> PROVE k \in 1 .. Len(notices) /\ notices[k] \in K
  <2>1. Len(s3) >= 1 /\ s3[1] \in K BY <1>5, <1>15
  <2>2. k \in 1 .. Len(before) /\ before[k] = s3[1] BY <1>9, <1>11, <1>12, <2>1
  <2> HIDE DEF before
  <2>3. k \in 1 .. Len(most) /\ most[k] = s3[1] BY <1>9, <1>11, <2>2
  <2> HIDE DEF most
  <2> QED BY <1>9, <1>11, <2>1, <2>3
<1> HIDE DEF notices, k
<1>16. Said.notices = Range(First(notices, 3)) /\ Said.lead = LeadPoints(answer) BY <1>11, MessageIs
<1>17. /\ Said.notices \subseteq Range(notices)
       /\ k \in 1 .. Len(notices) => notices[k] \in Said.notices
  <2>1. 3 \in Nat /\ notices \in Seq(N) BY <1>11
  <2> QED BY <1>12, <1>16, <2>1, FirstAre
<1>18. w \in Said.notices => failed BY <1>7, <1>10, <1>13, <1>17
<1>19. charger => z \in Said.notices \/ \E n \in Said.notices : n[1] \in EndKinds
  BY <1>6, <1>14, <1>15, <1>17
<1> QED BY <1>4, <1>16, <1>18, <1>19 DEF charger, w, z, EndKinds

\* A station that could not be resolved has in the table that its elevators are not
\* confirmed: no source was asked for it.
LEMMA UnresolvedIsTold ==
    ASSUME IInv, Judged, NEW s \in ElevatorCheckStations(TheRoute), Unresolved(s, ContextLine(s))
    PROVE  /\ "station_resolution" \in facts[<<s, "elevators">>].failed
           /\ <<s, "elevators not confirmed">> \in Cells("attention")
<1>1. ASSUME NEW kind, <<s, kind>> \in DOMAIN facts
      PROVE  /\ "station_resolution" \in facts[<<s, kind>>].failed
             /\ facts[<<s, kind>>].value = {} /\ facts[<<s, kind>>].sources = {}
  BY <1>1, FactsTell DEF FactTells
<1>2. ElevatorsAt(facts, s) = {} BY <1>1, RoleFacts
<1>3. StationSources(facts, s) = {}
  <2>1. SUFFICES ASSUME NEW q \in DOMAIN facts, q[1] = s PROVE facts[q].sources = {} BY DEF StationSources
  <2>2. q \in Queries BY DEF IInv, FactsInv
  <2>3. q = <<s, q[2]>> BY <2>1, <2>2 DEF Queries, QueriesOf
  <2> QED BY <1>1, <2>1, <2>3
<1>4. StateAt(s) = "UNKNOWN"
  <2>1. AnswerState({}) = "NOT_FOUND" BY StateSays
  <2>2. AlignedState("NOT_FOUND", {}) = "UNKNOWN" BY DEF AlignedState
  <2> QED BY <1>2, <1>3, <2>1, <2>2 DEF StateAt, AnswerStateAt
<1>5. PICK c \in answer.checks : c = CheckAt(s) /\ c.station = s BY ChecksAre
<1>6. c.state = "UNKNOWN" /\ c.has # "CONFIRMED"
  <2>1. c.state = StateAt(s) /\ c.details = ElevatorEvidence(ElevatorsAt(facts, s)) BY <1>5, CheckForm
  <2>2. ElevatorEvidence({}) = {} BY FS_EmptySet, DetailsSay
  <2>3. c.has = "CONFIRMED" <=> c.details # {} BY CheckSays DEF CheckTells
  <2> QED BY <1>2, <1>4, <2>1, <2>2, <2>3
<1>7. "elevators not confirmed" \in TableAttention(c) BY <1>6 DEF TableAttention, MissingElevators
<1>8. <<s, "elevators not confirmed">> \in Cells("attention") BY <1>5, <1>7, CellsAre
<1> QED BY <1>1, <1>8, RoleFacts

\* In the invariant, what failed is told.
LEMMA TripFailures == IInv => FailureIsTold
<1> DEFINE Unsaid(name) == /\ name \notin UNION Range(SourceGroups)
                           /\ \E s \in ElevatorCheckStations(TheRoute) :
                                 /\ name \in facts[<<s, "elevators">>].failed
                                 /\ <<s, "elevators not confirmed">> \in Cells("attention")
<1> SUFFICES ASSUME IInv, Judged, NEW name \in answer.failed
             PROVE  \/ \E b \in Said.basis : b[2] \in {"failed", "checked, some failed"} /\ name \in SourceGroups[b[1]]
                    \/ Unsaid(name)
  BY DEF FailureIsTold
<1>1. answer.failed = routeRead.failed \cup Metadata(TheRoute, facts, "failed") BY TheAnswer DEF FailedFor
<1>2. ASSUME NEW m \in TripEvidence(answer), m.name = name, ~m.success, ~m.unsupported,
             NEW g \in DOMAIN SourceGroups, name \in SourceGroups[g]
      PROVE  \E b \in Said.basis : b[2] \in {"failed", "checked, some failed"} /\ name \in SourceGroups[b[1]]
  <2>1. \E b \in DataBasis(answer) : b[1] = g /\ b[2] \in {"failed", "checked, some failed"}
    BY <1>2, GroupTells
  <2> QED BY <1>2, <2>1, MessageIs
<1>3. CASE name \in routeRead.failed
  <2>1. name = "shortest_route" BY <1>3 DEF IInv, RoutesInv
  <2>2. routeRead # Nothing BY <1>3 DEF Nothing
  <2>3. PICK outcome : routeRead = [value |-> {},
                                    sources |-> {Meta("shortest_route", outcome = "ok", outcome = "stale", FALSE)},
                                    failed |-> IF outcome = "ok" THEN {} ELSE {"shortest_route"}]
    BY <2>2 DEF IInv, RoutesInv
  <2> DEFINE m == Meta("shortest_route", outcome = "ok", outcome = "stale", FALSE)
  <2>4. outcome # "ok" BY <1>3, <2>3
  <2>5. m.name = "shortest_route" /\ ~m.success /\ ~m.unsupported BY <2>4 DEF Meta
  <2>6. m \in routeRead.sources BY <2>3
  <2> HIDE DEF m
  <2>7. m \in TripEvidence(answer) BY <2>6, TheAnswer DEF SourcesFor, TripEvidence
  <2>8. "route" \in DOMAIN SourceGroups /\ "shortest_route" \in SourceGroups["route"] BY DEF SourceGroups
  <2> QED BY <1>2, <2>1, <2>5, <2>7, <2>8
<1>4. ASSUME NEW q \in DOMAIN facts, q[1] \in CheckStations(TheRoute), name \in facts[q].failed
      PROVE  \/ \E b \in Said.basis : b[2] \in {"failed", "checked, some failed"} /\ name \in SourceGroups[b[1]]
             \/ Unsaid(name)
  <2>1. q = <<q[1], q[2]>> /\ q[1] \in ElevatorCheckStations(TheRoute)
    <3>1. q \in Queries BY DEF IInv, FactsInv
    <3> QED BY <1>4, <3>1 DEF Queries, QueriesOf, CheckStations
  <2>2. CASE name # "station_resolution"
    <3>1. /\ name \in SourcesOf(q[2])
          /\ \E m \in TripEvidence(answer) : m.name = name /\ ~m.success /\ ~m.unsupported
      BY <1>4, <2>1, <2>2, FailedIsEvidence
    <3>2. \E g \in DOMAIN SourceGroups : name \in SourceGroups[g] BY <3>1 DEF SourcesOf, SourceGroups
    <3> QED BY <1>2, <3>1, <3>2
  <2>3. CASE name = "station_resolution"
    <3>1. name \notin UNION Range(SourceGroups) BY <2>3 DEF SourceGroups, Range
    <3>2. Unresolved(q[1], ContextLine(q[1])) BY <1>4, <2>1, <2>3, FactsTell DEF FactTells
    <3> QED BY <2>1, <2>3, <3>1, <3>2, UnresolvedIsTold
  <2> QED BY <2>2, <2>3
<1> QED BY <1>1, <1>3, <1>4 DEF Metadata

\* In the invariant, the structured answer lists what the text tells.
LEMMA TripUnverified == IInv => UnverifiedIsListed
<1> DEFINE parts == UnverifiedParts(answer)
           named == {x[2] : x \in parts}
<1> SUFFICES ASSUME IInv, Judged
             PROVE  /\ \A b \in Said.basis : b[2] \in {"failed", "checked, some failed", "unsupported"} =>
                          SourceGroups[b[1]] \cap named # {}
                    /\ <<"some data not confirmed", Nowhere>> \in Said.notices => parts # {}
                    /\ \A s \in ElevatorCheckStations(TheRoute), q \in DOMAIN facts :
                          q[1] = s => \A m \in facts[q].sources : m.success \/ m.name \in named
                    /\ answer.confidence = "HIGH" => parts = {}
  BY DEF UnverifiedIsListed
<1>1. \A n \in answer.failed : n \in named
  <2>1. \A n \in answer.failed : <<"failed", n>> \in parts /\ <<"failed", n>>[2] = n BY DEF UnverifiedParts
  <2> HIDE DEF parts
  <2> QED BY <2>1
<1>2. ASSUME NEW m \in answer.sources, ~m.success PROVE m.name \in named
  <2>1. CASE m.unsupported
    <3>1. <<"outside coverage", m.name>> \in parts /\ <<"outside coverage", m.name>>[2] = m.name
      BY <2>1 DEF UnverifiedParts
    <3> HIDE DEF parts
    <3> QED BY <3>1
  <2>2. CASE ~m.unsupported
    <3>1. <<"no success", m.name>> \in parts /\ <<"no success", m.name>>[2] = m.name
      BY <1>2, <2>2 DEF UnverifiedParts
    <3> HIDE DEF parts
    <3> QED BY <3>1
  <2> QED BY <2>1, <2>2
<1>3. ASSUME NEW b \in Said.basis, b[2] \in {"failed", "checked, some failed", "unsupported"}
      PROVE  SourceGroups[b[1]] \cap named # {}
  <2>1. PICK g \in DOMAIN SourceGroups : b = <<g, SourceGroupStatus(answer, SourceGroups[g])>>
    BY MessageIs DEF DataBasis
  <2> DEFINE sources == {m \in TripEvidence(answer) : m.name \in SourceGroups[g]}
             failing == {m \in sources : ~m.success /\ ~m.unsupported}
             status == SourceGroupStatus(answer, SourceGroups[g])
  <2>2. status = IF sources = {} THEN "not asked"
                 ELSE IF \A m \in sources : m.unsupported THEN "unsupported"
                 ELSE IF ~\E m \in sources : m.success THEN "failed"
                 ELSE IF failing = {} THEN "checked" ELSE "checked, some failed"
    BY DEF SourceGroupStatus
  <2>3. b[1] = g /\ b[2] = status BY <2>1
  <2>4. \A m \in TripEvidence(answer) : (~m.success \/ m.unsupported) => m.name \in named
    <3>1. ASSUME NEW m \in answer.sources, m.unsupported PROVE m.name \in named
      <4>1. <<"outside coverage", m.name>> \in parts /\ <<"outside coverage", m.name>>[2] = m.name
        BY <3>1 DEF UnverifiedParts
      <4> HIDE DEF parts
      <4> QED BY <4>1
    <3>2. \A n : Meta(n, FALSE, FALSE, FALSE).name = n BY DEF Meta
    <3> HIDE DEF named
    <3> QED BY <1>1, <1>2, <3>1, <3>2 DEF TripEvidence
  <2>5. \E m \in sources : ~m.success \/ m.unsupported
    <3> HIDE DEF status
    <3> QED BY <1>3, <2>2, <2>3
  <2> HIDE DEF named
  <2> QED BY <2>3, <2>4, <2>5
<1>4. <<"some data not confirmed", Nowhere>> \in Said.notices => parts # {}
  <2>1. SUFFICES ASSUME answer.failed # {} PROVE parts # {} BY NoticesAre
  <2> QED BY <1>1, <2>1
<1>5. ASSUME NEW s \in ElevatorCheckStations(TheRoute), NEW q \in DOMAIN facts, q[1] = s, NEW m \in facts[q].sources
      PROVE  m.success \/ m.name \in named
  <2>1. facts[q].sources \subseteq answer.sources BY <1>5, FactIsMetadata, TheAnswer
  <2> HIDE DEF named
  <2> QED BY <1>2, <2>1
<1>6. ASSUME answer.confidence = "HIGH" PROVE parts = {}
  <2>1. answer.failed = {} /\ \A m \in answer.sources : m.success /\ ~m.stale /\ ~m.unsupported
    <3>1. answer.confidence = Confidence(answer.status, answer.level, answer.failed, answer.sources)
      BY TheAnswer
    <3> QED BY <1>6, <3>1 DEF Confidence
  <2> QED BY <2>1 DEF UnverifiedParts
<1> QED BY <1>3, <1>4, <1>5, <1>6

\* In the invariant, a charger that was asked for is not passed over.
LEMMA TripCharger == IInv => ChargerIsMentioned
<1> SUFFICES ASSUME IInv, Judged, ChargerUnchecked(answer)
             PROVE  \/ <<"charger", Nowhere>> \in Said.lead.unconfirmed \cup Said.notices
                    \/ \E a \in Said.actions : a.ask = {"charger"}
                    \/ /\ answer.judgement = "cannot tell"
                       /\ \E n \in Said.notices : n[1] \in {"route code", "coverage limited"}
  BY DEF ChargerIsMentioned
<1>1. <<"charger", Nowhere>> \in Unconfirmed(answer) BY DEF Unconfirmed
<1>2. CASE answer.judgement \in {"caution", "not recommended"}
  <2>1. Said.lead.unconfirmed = Unconfirmed(answer) BY <1>1, <1>2, LeadIs, MessageIs
  <2> QED BY <1>1, <2>1
<1>3. CASE answer.judgement = "possible"
  <2>1. PICK a \in Range(PreDepartureActions(answer)) : a.ask = {"charger"} BY <1>3, ActionsAre
  <2> QED BY <1>3, <2>1, ShownIs, MessageIs
<1>4. CASE answer.judgement = "cannot tell" BY <1>4, MessageIs, NoticesAre
<1> QED BY <1>2, <1>3, <1>4, VerdictIs

\* What is not known is told to everyone: a question for a gap in the evidence, a
\* word for every source that failed, in the text, where no cut of the notices
\* reaches it, and in the structured answer, and a word for a charger nobody can
\* look up, unless it cannot be told and a note on an end of the trip takes its
\* place (user_message.py, user_message_sources.py, evidence.py).
THEOREM UnknownIsAlwaysTold == Spec => []UnknownIsTold
<1>1. IInv => UnknownIsTold
  BY TripGaps, TripFailures, TripUnverified, TripCharger DEF UnknownIsTold
<1> QED BY <1>1, TripInvariant, PTL

-----------------------------------------------------------------------------
(* Why it is a caution.                                                    *)

\* A route whose way names its first or its last station.
EndOnTheWay ==
    \A q \in Requests : \A list \in RouteLists[q] : \A r \in list :
        {r.origin, r.destination} \cap Range(r.stations) # {}

\* A station of which neither the lead nor the table says anything has nothing
\* open: its elevators run, and its restroom is there, if one was asked for.
LEMMA NothingOpen ==
    ASSUME IInv, Judged, answer.judgement = "caution", Said.lead = NoLead, NEW c \in answer.checks,
           TableAttention(c) = {}, c.line # NoLine
    PROVE  /\ c.state = "AVAILABLE" /\ Reported(c.station, "AVAILABLE")
           /\ ~Unverified(c) /\ ~RestroomMissing(c) /\ c.restroom # "no"
<1>1. CheckTells(c) /\ CheckWords(c) BY CheckSays, CheckSaysInWords
<1>2. RestrictedSentences(answer.checks) = {} /\ Unconfirmed(answer) = {}
  BY LeadIs, MessageIs
<1>3. ~IsRestricted(c) BY <1>2 DEF RestrictedSentences
<1>4. ~IsMissing(c)
  <2>1. IsMissing(c) => <<MissingWord(c), c.station>> \in Unconfirmed(answer) BY DEF Unconfirmed
  <2> QED BY <1>2, <2>1
<1>5. c.details # {} /\ c.has = "CONFIRMED" BY <1>1, <1>4 DEF CheckTells, CheckWords
<1>6. IsOperating(c)
  <2>1. c.has = "CONFIRMED" /\ ~IsOperating(c) /\ ~IsRestricted(c) => <<"status", c.station>> \in Unconfirmed(answer)
    BY DEF Unconfirmed
  <2> QED BY <1>2, <1>3, <1>5, <2>1
<1>7. c.state = "AVAILABLE" /\ c.statusVerified = "CONFIRMED" BY <1>6 DEF IsOperating
<1>8. Reported(c.station, "AVAILABLE") /\ HasOperatingElevator(c) BY <1>1, <1>7 DEF CheckTells, CheckWords
<1>9. PathGaps(c) = {}
  <2>1. ASSUME NEW leg \in PathGaps(c) PROVE FALSE
    <3>1. leg \in UnverifiedPaths(answer.checks) BY <1>5, <1>8, <2>1 DEF UnverifiedPaths
    <3>2. <<leg, Nowhere>> \in UnverifiedPaths(answer.checks) \X {Nowhere} BY <3>1
    <3>3. <<leg, Nowhere>> \in Unconfirmed(answer) BY <3>2 DEF Unconfirmed
    <3> QED BY <1>2, <3>3
  <2> QED BY <2>1
<1>10. c.restroom # "no" BY DEF TableAttention
<1>11. ~Gap(c.lineMatch)
  <2>1. Gap(c.lineMatch) => "line" \in TableAttention(c) BY <1>5 DEF TableAttention
  <2> QED BY <2>1
<1>12. c.status = "AVAILABLE" BY <1>1, <1>7 DEF CheckTells, RepresentativeStatus
<1>13. ~Unverified(c)
  <2>1. ~Gap(c.platform) /\ ~Gap(c.transfer) /\ ~Gap(c.exit) BY <1>9 DEF PathGaps
  <2>2. ~Gap(c.has) /\ ~Gap(c.statusVerified) BY <1>5, <1>7 DEF Gap
  <2> QED BY <1>11, <1>12, <2>1, <2>2 DEF Unverified
<1> QED BY <1>7, <1>8, <1>10, <1>13 DEF RestroomMissing

\* Every station with a role has its check.
LEMMA CheckedAt ==
    ASSUME IInv, Judged, NEW s \in ElevatorCheckStations(TheRoute)
    PROVE  \E c \in answer.checks :
              /\ c.station = s /\ c.state = StateAt(s)
              /\ c.restroom # "no" /\ request.profile.need_accessible_restroom => RestroomAt(facts, s)
<1>1. PICK c \in answer.checks : c = CheckAt(s) /\ c.station = s BY ChecksAre
<1>2. /\ c.state = StateAt(s)
      /\ c.restroom = IF ~request.profile.need_accessible_restroom THEN "not asked"
                      ELSE IF RestroomAt(facts, s) THEN "yes" ELSE "no"
  BY <1>1, CheckForm
<1> QED BY <1>1, <1>2

\* The list of routes is covered everywhere, and stale only where its lookup failed.
LEMMA RouteReadSays ==
    ASSUME IInv, NEW m \in routeRead.sources
    PROVE  ~m.unsupported /\ (m.stale => m.name \in routeRead.failed)
<1> DEFINE meta(outcome) == Meta("shortest_route", outcome = "ok", outcome = "stale", FALSE)
<1>0. \/ routeRead = Nothing
      \/ \E outcome : routeRead = [value |-> {}, sources |-> {meta(outcome)},
                                   failed |-> IF outcome = "ok" THEN {} ELSE {"shortest_route"}]
  BY DEF IInv, RoutesInv
<1> HIDE DEF meta
<1>1. PICK outcome : routeRead = [value |-> {}, sources |-> {meta(outcome)},
                                  failed |-> IF outcome = "ok" THEN {} ELSE {"shortest_route"}]
  BY <1>0 DEF Nothing
<1>2. m = meta(outcome) BY <1>1
<1>3. m.name = "shortest_route" /\ ~m.unsupported /\ (m.stale => outcome = "stale") BY <1>2 DEF Meta, meta
<1> QED BY <1>1, <1>3

\* A route whose stations have nothing open, of which nothing failed, and
\* which has no change, has no reason against it.
LEMMA NothingFound ==
    ASSUME EndOnTheWay, IInv, Judged, answer.failed = {}, TheRoute.transfers = 0,
           \A c \in answer.checks : /\ c.state = "AVAILABLE" /\ Reported(c.station, "AVAILABLE")
                                    /\ ~RestroomMissing(c) /\ c.restroom # "no"
    PROVE  FoundFor(TheRoute) = {}
<1> DEFINE p == request.profile
<1>1. /\ TheRoute \in routes /\ TheRoute \in RouteCandidate
      /\ answer.failed = FailedFor(TheRoute) /\ answer.sources = SourcesFor(TheRoute)
  BY TheAnswer
<1>2. ASSUME NEW s \in ElevatorCheckStations(TheRoute)
      PROVE  /\ AnswerState(ElevatorsAt(facts, s)) = "AVAILABLE" /\ Reported(s, "AVAILABLE")
             /\ p.need_accessible_restroom => RestroomAt(facts, s)
  <2>1. PICK c \in answer.checks : /\ c.station = s /\ c.state = StateAt(s)
                                   /\ c.restroom # "no" /\ p.need_accessible_restroom => RestroomAt(facts, s)
    BY CheckedAt
  <2>2. c.state = "AVAILABLE" /\ Reported(s, "AVAILABLE") /\ c.restroom # "no" BY <2>1
  <2>4. AnswerStateAt(s) = "AVAILABLE" BY <2>1, <2>2 DEF StateAt, AlignedState
  <2>5. p.need_accessible_restroom => RestroomAt(facts, s) BY <2>1, <2>2
  <2> QED BY <2>2, <2>4, <2>5 DEF AnswerStateAt
<1>3. ElevatorReasons(TheRoute, p, facts) = {}
  <2>1. \A s \in ElevatorCheckStations(TheRoute) :
           /\ ElevatorCode(AnswerState(ElevatorsAt(facts, s))) = {}
           /\ ~EscalatorOnly(facts, p, s)
    BY <1>2 DEF ElevatorCode, EscalatorOnly, Reported
  <2> QED BY <2>1 DEF ElevatorReasons
<1>4. RestroomReasons(TheRoute, p, facts) = {}
  <2>1. SUFFICES ASSUME p.need_accessible_restroom PROVE RestroomSatisfied(TheRoute, p.restroom, facts)
    BY DEF RestroomReasons
  <2>2. CASE p.restroom = "ANY_ROUTE_STATION"
    <3>1. {TheRoute.origin, TheRoute.destination} \cap Range(TheRoute.stations) # {}
      BY <1>1 DEF EndOnTheWay, IInv, CallInv, RoutesInv
    <3>2. PICK s \in {TheRoute.origin, TheRoute.destination} : s \in Range(TheRoute.stations) BY <3>1
    <3>3. s \in ElevatorCheckStations(TheRoute) BY DEF ElevatorCheckStations
    <3> QED BY <1>2, <2>1, <2>2, <3>2, <3>3 DEF RestroomSatisfied
  <2>3. CASE p.restroom # "ANY_ROUTE_STATION"
    <3>1. RestroomStations(TheRoute, p.restroom, facts) \subseteq ElevatorCheckStations(TheRoute)
      BY <1>1, StationsOfRoute
    <3> QED BY <1>2, <2>1, <2>3, <3>1 DEF RestroomSatisfied, MissingRestrooms
  <2> QED BY <2>2, <2>3
<1>5. \A m \in answer.sources : ~m.stale
  <2>1. SUFFICES ASSUME NEW m \in answer.sources, m.stale PROVE m.name \in answer.failed BY DEF Judged
  <2>2. CASE m \in routeRead.sources
    <3>1. m.name \in routeRead.failed BY <2>1, <2>2, RouteReadSays
    <3> QED BY <1>1, <3>1 DEF FailedFor
  <2>3. CASE m \notin routeRead.sources
    <3>1. PICK q \in DOMAIN facts : q[1] \in ElevatorCheckStations(TheRoute) /\ m \in facts[q].sources
      BY <1>1, <2>3 DEF SourcesFor, Metadata, CheckStations
    <3>2. q = <<q[1], q[2]>>
      <4>1. q \in Queries BY DEF IInv, FactsInv
      <4> QED BY <4>1 DEF Queries, QueriesOf
    <3>3. m.name \in facts[q].failed BY <2>1, <3>1, <3>2, FactsTell DEF FactTells
    <3>4. facts[q].failed \subseteq answer.failed BY <1>1, <3>1, FactIsMetadata
    <3> QED BY <3>3, <3>4
  <2> QED BY <2>2, <2>3
<1>6. ~TooManyTransfers(TheRoute, p)
  <2>1. p.max_transfer_count \in Nat \cup {-1} BY RequestAssumption DEF IInv, CallInv
  <2> QED BY <2>1 DEF TooManyTransfers
<1>7. RouteReasons(TheRoute, p, FailedFor(TheRoute), SourcesFor(TheRoute)) = {}
  BY <1>1, <1>5, <1>6 DEF RouteReasons
<1> QED BY <1>3, <1>4, <1>7 DEF FoundFor, EvaluateRoute

\* Such a route is called possible.
LEMMA NothingToCareFor ==
    ASSUME EndOnTheWay, IInv, Judged, answer.failed = {}, answer.status = "SUCCESS", TheRoute.transfers = 0,
           \A c \in answer.checks : /\ c.state = "AVAILABLE" /\ Reported(c.station, "AVAILABLE")
                                    /\ ~Unverified(c) /\ ~RestroomMissing(c) /\ c.restroom # "no"
    PROVE  answer.judgement = "possible"
<1>1. FoundFor(TheRoute) = {} BY NothingFound
<1> DEFINE score == TotalScore(FoundFor(TheRoute))
           risk == AlignedRisk(score, answer.codes, answer.failed, answer.checks, request.profile)
<1>2. answer.codes = {}
  <2>1. answer.codes = {x[1] : x \in AlignCoverage(FoundFor(TheRoute), facts)} BY TheAnswer, CandidateIs
  <2>2. AlignCoverage({}, facts) = {} BY DEF AlignCoverage
  <2> QED BY <1>1, <2>1, <2>2
<1>3. score = 0
  <2>1. IsFiniteSet({}) BY FS_EmptySet
  <2>2. TotalScore({}) = 0 BY <2>1, ScoreInRange
  <2> QED BY <1>1, <2>2
<1>4. answer.level = risk.level BY TheAnswer, CandidateIs
<1>5. ~CriticalFailure(answer.failed) BY DEF CriticalFailure
<1>6. ~CautionFloor(answer.codes, answer.checks, request.profile) BY <1>2 DEF CautionFloor
<1>7. answer.level = "LOW"
  <2> HIDE DEF score, risk
  <2>1. risk.level = "LOW" <=> ~CriticalFailure(answer.failed) /\ ~(score >= 35)
                                 /\ ~CautionFloor(answer.codes, answer.checks, request.profile) /\ ~(score >= 70)
    BY AlignedLevel DEF risk
  <2>2. ~(score >= 35) /\ ~(score >= 70) BY <1>3
  <2> QED BY <1>4, <1>5, <1>6, <2>1, <2>2
<1>8. answer.judgement = Judgement(answer.status, answer.level, answer.codes, answer.failed,
                                    answer.checks, request.profile)
  BY TheAnswer
<1> QED BY <1>2, <1>5, <1>7, <1>8 DEF Judgement

\* A route that is not said to have changes has none.
LEMMA NoChange ==
    ASSUME IInv, Judged, ~(TheRoute.transfers > 0)
    PROVE  TheRoute.transfers = 0
<1>1. TheRoute.transfers \in Nat BY TheAnswer DEF RouteCandidate
<1> QED BY <1>1

\* In the invariant, a caution says what to take care of.
LEMMA TripCause == EndOnTheWay /\ IInv => CautionHasCause
<1> SUFFICES ASSUME EndOnTheWay, IInv, Judged, answer.judgement = "caution",
                    Said.lead = NoLead, ~Said.transfers,
                    \A row \in Said.table : row.attention = {},
                    \A b \in Said.basis : b[2] = "checked",
                    \A c \in answer.checks : c.line # NoLine
             PROVE  FALSE
  BY DEF CautionHasCause
<1>0. ASSUME NEW c \in answer.checks PROVE TableAttention(c) = {}
  <2> DEFINE row == [station |-> c.station, confirmed |-> TableConfirmed(c), attention |-> TableAttention(c)]
  <2>1. row \in Said.table /\ row.attention = TableAttention(c) BY <1>0, MessageIs DEF Table
  <2> QED BY <2>1
<1>1. \A c \in answer.checks : /\ c.state = "AVAILABLE" /\ Reported(c.station, "AVAILABLE")
                               /\ ~Unverified(c) /\ ~RestroomMissing(c) /\ c.restroom # "no"
  BY <1>0, NothingOpen
<1>2. answer.failed = {}
  <2>1. SUFFICES ASSUME NEW name \in answer.failed PROVE FALSE OBVIOUS
  <2>2. \A x : x \notin Cells("attention")
    <3>1. SUFFICES ASSUME NEW x \in Cells("attention") PROVE FALSE OBVIOUS
    <3>2. <<x[1], x[2]>> \in Cells("attention") BY <3>1, CellsAre
    <3> QED BY <1>0, <3>2, CellsAre
  <2> QED BY <2>2, TripFailures DEF FailureIsTold
<1>3. TheRoute.transfers = 0
  <2>1. answer.selected # {} /\ TheRoute \in answer.selected BY DEF Judged, TheRoute
  <2>2. ~(TheRoute.transfers > 0) BY <2>1, MessageIs
  <2> QED BY <2>2, NoChange
<1>4. answer.status = "SUCCESS"
  <2>1. SUFFICES ASSUME NEW m \in answer.sources, m.unsupported PROVE FALSE BY <1>2, VerdictIs
  <2>2. answer.sources = SourcesFor(TheRoute) BY TheAnswer
  <2>3. m \notin routeRead.sources BY <2>1, RouteReadSays
  <2>4. PICK q \in DOMAIN facts : q[1] \in ElevatorCheckStations(TheRoute) /\ m \in facts[q].sources
    BY <2>2, <2>3 DEF SourcesFor, Metadata, CheckStations
  <2>5. m \in StationSources(facts, q[1]) BY <2>4 DEF StationSources
  <2>6. StateAt(q[1]) = "UNSUPPORTED" BY <2>1, <2>4, <2>5, NothingIsCovered
  <2>7. PICK s \in ElevatorCheckStations(TheRoute) : s = q[1] BY <2>4
  <2>8. \E c \in answer.checks : c.state = StateAt(s) BY CheckedAt
  <2> QED BY <1>1, <2>6, <2>7, <2>8
<1> QED BY <1>1, <1>2, <1>3, <1>4, NothingToCareFor

\* The level, the score and the words of an answer agree, and a caution says
\* what to take care of, or a station's line is not known, on routes whose way
\* names one of their ends (risk_alignment.py, user_message_decision.py).
THEOREM VerdictAgreesAlways == EndOnTheWay => (Spec => []VerdictAgrees)
<1> SUFFICES ASSUME EndOnTheWay PROVE Spec => []VerdictAgrees OBVIOUS
<1>1. IInv => VerdictAgrees BY TripLevels, TripCause DEF VerdictAgrees
<1> QED BY <1>1, TripInvariant, PTL

-----------------------------------------------------------------------------
(* Another way.                                                            *)

\* Where the level is LOW, the elevators run for whoever cannot do without them.
LEMMA LowRuns ==
    ASSUME IInv, Judged, answer.level = "LOW", RequiresElevator(request.profile), NEW c \in answer.checks
    PROVE  c.status = "AVAILABLE" /\ ~IsRestricted(c)
<1>1. PICK s \in ElevatorCheckStations(TheRoute) : c = CheckAt(s) /\ c.station = s BY ChecksAre
<1>2. CheckTells(c) /\ CheckWords(c) BY CheckSays, CheckSaysInWords
<1>3. c.state = StateAt(s) /\ c.status = RepresentativeStatus(c.state) BY <1>1, CheckForm
<1>4. c.status # "UNKNOWN" BY LowMeans DEF Unverified
<1>5. c.status = c.state /\ c.state \in {"AVAILABLE", "MAINTENANCE", "UNAVAILABLE"}
  BY <1>3, <1>4 DEF RepresentativeStatus
<1>6. AnswerStateAt(s) = c.state BY <1>3, <1>5 DEF StateAt, AlignedState
<1>7. ElevatorCode(c.state) \cap CautionCodes = {} BY <1>6, LowStates DEF AnswerStateAt
<1>8. c.state = "AVAILABLE" BY <1>5, <1>7 DEF ElevatorCode, CautionCodes
<1>9. IsOperating(c) BY <1>2, <1>8 DEF CheckWords
<1> QED BY <1>2, <1>5, <1>8, <1>9 DEF CheckWords

\* In the invariant, who asks for another way is not told otherwise than who asks for the trip.
LEMMA TripAnotherWay == IInv => AnotherWayAgrees
<1> DEFINE other == RouteAlternative(answer)
<1> SUFFICES ASSUME IInv, phase = "answered"
             PROVE  /\ other.recommended # {} <=> answer.judgement \in {"possible", "caution"}
                    /\ other.verdict \in {"another way", "with care"} <=> other.recommended # {}
                    /\ other.verdict = "another way" =>
                          /\ RequiresElevator(Profile) => \A x \in other.stations : x[2] = "AVAILABLE"
                          /\ answer.judgement = "caution" =>
                                \/ other.limited \/ answer.status = "PARTIAL"
                                \/ ~RequiresElevator(Profile) /\ \E c \in answer.checks : Unverified(c)
  BY DEF AnotherWayAgrees
<1>1. /\ other.verdict = RouteVerdict(answer)
      /\ other.recommended = IF answer.level \in {"HIGH", "UNKNOWN"} THEN {} ELSE answer.selected
      /\ other.stations = {<<c.station, c.status>> : c \in answer.checks}
      /\ other.limited <=> answer.failed # {}
  BY DEF RouteAlternative
<1> HIDE DEF other
<1>2. CASE answer.selected = {}
  <2>1. PICK status \in {"NEEDS_CLARIFICATION", "FAILED"} : \E score, read, mismatch :
             answer = Unjudged(status, score, read, mismatch)
    BY <1>2 DEF IInv, UnjudgedInv
  <2>2. answer.level = "UNKNOWN" /\ answer.judgement \in {"more information", "cannot tell"}
    <3>1. PICK score, read, mismatch : answer = Unjudged(status, score, read, mismatch) BY <2>1
    <3>2. /\ answer.level = "UNKNOWN"
          /\ answer.judgement = Judgement(status, "UNKNOWN", {}, read.failed, {}, request.profile)
      BY <3>1 DEF Unjudged
    <3> QED BY <3>2 DEF Judgement
  <2>3. RouteVerdict(answer) = "cannot tell" BY <2>2 DEF RouteVerdict
  <2> QED BY <1>1, <1>2, <2>2, <2>3
<1>3. CASE answer.selected # {}
  <2>1. Judged BY <1>3 DEF Judged
  <2>2. /\ answer.status \in {"SUCCESS", "PARTIAL"}
        /\ answer.level \in {"UNKNOWN", "HIGH", "CAUTION", "LOW"}
        /\ answer.level = "LOW" => answer.judgement \in {"possible", "caution"}
        /\ answer.level = "CAUTION" => answer.judgement = "caution"
        /\ answer.level = "HIGH" => answer.judgement = "not recommended"
        /\ answer.level = "UNKNOWN" => answer.judgement = "cannot tell"
    BY <2>1, TripLevels, VerdictIs, LevelIs DEF LevelScoreWords
  <2>3. /\ answer.level = "UNKNOWN" => RouteVerdict(answer) = "cannot tell"
        /\ answer.level = "HIGH" => RouteVerdict(answer) = "none to recommend"
        /\ answer.level = "CAUTION" => RouteVerdict(answer) = "with care"
        /\ answer.level = "LOW" => RouteVerdict(answer) = "another way"
    BY <2>2 DEF RouteVerdict
  <2>4. ASSUME answer.level = "LOW", RequiresElevator(Profile), NEW x \in other.stations
        PROVE  x[2] = "AVAILABLE"
    <3>1. PICK c \in answer.checks : x = <<c.station, c.status>> BY <1>1, <2>4
    <3> QED BY <2>1, <2>4, <3>1, LowRuns DEF Profile
  <2>5. ASSUME answer.level = "LOW", answer.judgement = "caution", answer.failed = {}, answer.status # "PARTIAL"
        PROVE  ~RequiresElevator(Profile) /\ \E c \in answer.checks : Unverified(c)
    <3>1. answer.judgement = Judgement(answer.status, answer.level, answer.codes, answer.failed,
                                        answer.checks, request.profile)
      BY <2>1, TheAnswer
    <3>2. ~CautionFloor(answer.codes, answer.checks, request.profile) BY <2>1, <2>5, LowMeans
    <3>3. /\ answer.codes \cap WordCautionCodes = {}
          /\ ~\E c \in answer.checks : RestroomMissing(c)
          /\ ~(RequiresElevator(Profile) /\ \E c \in answer.checks : Unverified(c))
      BY <3>2 DEF CautionFloor, WordCautionCodes, Profile
    <3>4. \E c \in answer.checks : Unverified(c)
      BY <2>2, <2>5, <3>1, <3>3 DEF Judgement
    <3> QED BY <3>3, <3>4
  <2> QED BY <1>1, <1>3, <2>2, <2>3, <2>4, <2>5
<1> QED BY <1>2, <1>3

\* Who asks for another way is recommended what the trip does not warn of, by a
\* rule that knows the level alone; what it leaves out, said here, is a gap in the
\* evidence for a traveller who can do without elevators (alternative_message.py).
THEOREM AnotherWayAlwaysAgrees == Spec => []AnotherWayAgrees
BY TripInvariant, TripAnotherWay, PTL

-----------------------------------------------------------------------------
(* The summary.                                                            *)

\* The codes of an answer are those of its reasons, or say that a source does
\* not cover the station.
LEMMA CodesAre ==
    ASSUME IInv, Judged
    PROVE  answer.codes \subseteq DOMAIN RuleScore \cup {"elevator_source_unsupported", "restroom_source_unsupported"}
<1>1. TheRoute \in RouteCandidate BY TheAnswer
<1>2. answer.codes = {x[1] : x \in AlignCoverage(FoundFor(TheRoute), facts)} BY <1>1, TheAnswer, CandidateIs
<1>3. \A x \in FoundFor(TheRoute) : x[1] \in DOMAIN RuleScore BY <1>1, ReasonsOfRoute DEF FoundFor
<1> QED BY <1>2, <1>3 DEF AlignCoverage

Named(kind) == {x[2] : x \in {x \in Reasons(answer) : x[1] = kind}}

\* The place of a station on the way is a number.
LEMMA PlaceIsNumber ==
    ASSUME NEW route, NEW S, route.stations \in Seq(S), NEW s
    PROVE  PlaceOf(route, s) \in Nat
<1> DEFINE n == Len(route.stations)
           I == {i \in 1 .. n : route.stations[i] = s}
<1>1. n \in Nat /\ DOMAIN route.stations = 1 .. n OBVIOUS
<1>2. CASE s \notin Range(route.stations) BY <1>2 DEF PlaceOf
<1>3. CASE s \in Range(route.stations)
  <2>1. I # {} BY <1>1, <1>3 DEF Range
  <2>2. PlaceOf(route, s) = Max(I) BY <1>3, <2>1 DEF PlaceOf, SelectLastInSeq
  <2> DEFINE T == {n - i : i \in I}
  <2>3. T \subseteq Nat /\ T # {}
    <3>1. ASSUME NEW i \in I PROVE n - i \in Nat
      <4>1. i \in 1 .. n OBVIOUS
      <4> HIDE DEF n
      <4> QED BY <1>1, <4>1
    <3> HIDE DEF I
    <3> QED BY <2>1, <3>1
  <2>4. PICK t \in T : \A u \in T : t <= u
    <3> HIDE DEF T
    <3> QED BY <2>3, NatMin
  <2>5. PICK last \in I : t = n - last BY <2>4
  <2>6. \A i \in I : last >= i
    <3>1. SUFFICES ASSUME NEW i \in I PROVE last >= i OBVIOUS
    <3>2. n - last <= n - i BY <2>4, <2>5
    <3> QED BY <1>1, <3>2
  <2>7. Max(I) \in I
    <3> HIDE DEF I
    <3> QED BY <2>6 DEF Max
  <2> QED BY <2>2, <2>7
<1> QED BY <1>2, <1>3

\* Only stations of the locations are named, and if these are no more than three, all.
LEMMA NamedStationsAre ==
    ASSUME IInv, Judged, NEW L, IsFiniteSet(L)
    PROVE  /\ NamedStations(answer, L) \subseteq {x[1] : x \in L}
           /\ Cardinality(L) <= 3 => NamedStations(answer, L) = {x[1] : x \in L}
<1> DEFINE key == [x \in L |-> PlaceOf(TheRoute, x[1])]
<1>1. NamedStations(answer, L) = {x[1] : x \in Foremost(L, 3, key)} BY DEF NamedStations, TheRoute
<1>2. \A x \in L : key[x] \in Nat
  <2>1. TheRoute.stations \in Seq(Station) BY TheAnswer DEF RouteCandidate
  <2> QED BY <2>1, PlaceIsNumber
<1> HIDE DEF key
<1>3. Foremost(L, 3, key) \subseteq L BY <1>2, ForemostIs
<1>4. Cardinality(L) <= 3 => Foremost(L, 3, key) = L BY DEF Foremost
<1> QED BY <1>1, <1>3, <1>4

\* Where the elevators of some statuses are, and what is restricted.
LEMMA LocationsAre ==
    ASSUME IInv, Judged, NEW statuses
    PROVE  LET all == Locations(answer.checks, statuses)
           IN  /\ IsFiniteSet(all)
               /\ {x[1] : x \in all} = {c.station : c \in {c \in answer.checks : DetailsIn(c, statuses) # {}}}
<1> DEFINE of(c) == {<<c.station, {d}>> : d \in DetailsIn(c, statuses)}
           all == Locations(answer.checks, statuses)
<1>1. all = UNION {of(c) : c \in answer.checks} BY DEF Locations
<1>2. ASSUME NEW c \in answer.checks PROVE IsFiniteSet(of(c))
  <2> DEFINE D == DetailsIn(c, statuses)
             f == [d \in D |-> <<c.station, {d}>>]
  <2>1. IsFiniteSet(D)
    <3>1. IsFiniteSet(c.details) BY CheckSays DEF CheckTells
    <3> QED BY <3>1, FS_Subset DEF DetailsIn
  <2>2. DOMAIN f = D /\ of(c) = {f[d] : d \in DOMAIN f} OBVIOUS
  <2> HIDE DEF f, D, of
  <2> QED BY <2>1, <2>2, ImageIsFinite
<1>3. \A c, x : x \in of(c) <=> \E d \in DetailsIn(c, statuses) : x = <<c.station, {d}>> OBVIOUS
<1> HIDE DEF of
<1>4. IsFiniteSet(all)
  <2> DEFINE g == [c \in answer.checks |-> of(c)]
  <2>1. DOMAIN g = answer.checks /\ {of(c) : c \in answer.checks} = {g[c] : c \in DOMAIN g} OBVIOUS
  <2> HIDE DEF g
  <2>2. IsFiniteSet({of(c) : c \in answer.checks}) BY <2>1, FinitelyManyChecks, ImageIsFinite
  <2> QED BY <1>1, <1>2, <2>2, FS_UNION
<1>5. \A x : x \in all <=> \E c \in answer.checks : x \in of(c) BY <1>1
<1> HIDE DEF all
<1>6. {x[1] : x \in all} = {c.station : c \in {c \in answer.checks : DetailsIn(c, statuses) # {}}}
  <2>1. ASSUME NEW x \in all PROVE \E c \in answer.checks : DetailsIn(c, statuses) # {} /\ x[1] = c.station
    BY <1>3, <1>5
  <2>2. ASSUME NEW c \in answer.checks, DetailsIn(c, statuses) # {} PROVE \E x \in all : x[1] = c.station
    <3>1. PICK d \in DetailsIn(c, statuses) : TRUE BY <2>2
    <3>2. <<c.station, {d}>> \in all /\ <<c.station, {d}>>[1] = c.station BY <1>3, <1>5, <3>1
    <3> QED BY <3>2
  <2> QED BY <2>1, <2>2
<1> QED BY <1>4, <1>6 DEF all

LEMMA RestrictedLocationsAre ==
    ASSUME IInv, Judged
    PROVE  /\ IsFiniteSet(RestrictedLocations(answer.checks))
           /\ {x[1] : x \in RestrictedLocations(answer.checks)} =
                 {c.station : c \in {c \in answer.checks : IsRestricted(c)}}
<1> DEFINE all == Locations(answer.checks, Restricting)
           S == {c \in answer.checks : IsRestricted(c) /\ DetailsIn(c, Restricting) = {}}
           alone == {<<c.station, {}>> : c \in S}
<1>1. RestrictedLocations(answer.checks) = all \cup alone BY DEF RestrictedLocations
<1>2. /\ IsFiniteSet(all)
      /\ {x[1] : x \in all} = {c.station : c \in {c \in answer.checks : DetailsIn(c, Restricting) # {}}}
  BY LocationsAre
<1>3. IsFiniteSet(alone)
  <2> DEFINE f == [c \in S |-> <<c.station, {}>>]
  <2>1. DOMAIN f = S /\ alone = {f[c] : c \in DOMAIN f} OBVIOUS
  <2>2. IsFiniteSet(S) BY FinitelyManyChecks, FS_Subset
  <2> HIDE DEF f, S, alone
  <2> QED BY <2>1, <2>2, ImageIsFinite
<1>4. {x[1] : x \in alone} = {c.station : c \in S}
  <2>1. \A c : <<c.station, {}>>[1] = c.station OBVIOUS
  <2> HIDE DEF S
  <2> QED BY <2>1
<1>5. \A c : DetailsIn(c, Restricting) # {} => IsRestricted(c) BY DEF IsRestricted
<1> HIDE DEF all, alone
<1>6. {x[1] : x \in all \cup alone} = {x[1] : x \in all} \cup {x[1] : x \in alone} OBVIOUS
<1>7. {c.station : c \in {c \in answer.checks : DetailsIn(c, Restricting) # {}}} \cup {c.station : c \in S}
        = {c.station : c \in {c \in answer.checks : IsRestricted(c)}}
  BY <1>5
<1>8. IsFiniteSet(all \cup alone) BY <1>2, <1>3, FS_Union
<1> QED BY <1>1, <1>2, <1>4, <1>6, <1>7, <1>8

\* Which stations the reasons of the summary name: of what runs and of what is
\* restricted, each cut to three locations, and where the state has to be asked.
LEMMA ReasonsName ==
    ASSUME IInv, Judged
    PROVE  LET running == {c.station : c \in {c \in answer.checks : HasOperatingElevator(c)}}
               restricted == {c.station : c \in {c \in answer.checks : IsRestricted(c)}}
           IN  /\ Named("running") \subseteq running /\ Named("restricted") \subseteq restricted
               /\ Named("more running") = {} => Named("running") = running
               /\ Named("restricted") = restricted \/ Cardinality(RestrictedLocations(answer.checks)) > 3
               /\ Named("status") \subseteq
                     {c.station : c \in {c \in answer.checks : \A d \in c.details : d.status = "UNKNOWN"}}
<1> DEFINE L == Locations(answer.checks, {"AVAILABLE"})
           M == RestrictedLocations(answer.checks)
           running == NamedStations(answer, L)
           more == {x \in {"more running"} : Cardinality(L) > 3}
           restricted == NamedStations(answer, M)
           status == {c.station : c \in {c \in answer.checks :
                          /\ \A d \in c.details : d.status = "UNKNOWN"
                          /\ c.status = "UNKNOWN" \/ c.statusVerified # "CONFIRMED"}}
           path == {c.station : c \in {c \in answer.checks : PathGaps(c) # {}}}
           restroom == {c.station : c \in {c \in answer.checks : RestroomMissing(c)}}
           codes == {c \in answer.codes : c \notin {"escalator_only_for_wheelchair", "elevator_mixed"}}
           limits == {x \in {"limits"} : answer.failed # {} \/ answer.status = "PARTIAL"}
<1>1. Reasons(answer) = ({"running"} \X running) \cup (more \X {Nowhere}) \cup ({"restricted"} \X restricted)
                           \cup ({"status"} \X status) \cup ({"path"} \X path) \cup ({"restroom"} \X restroom)
                           \cup (codes \X {Nowhere}) \cup (limits \X {Nowhere})
  BY DEF Reasons
<1>2. {"running", "more running", "restricted", "status"} \cap (codes \cup limits) = {} BY CodesAre DEF RuleScore
<1>3. status \subseteq {c.station : c \in {c \in answer.checks : \A d \in c.details : d.status = "UNKNOWN"}}
  OBVIOUS
<1>4. more \subseteq {"more running"} /\ (more = {} => ~(Cardinality(L) > 3)) OBVIOUS
<1> HIDE DEF running, more, restricted, status, path, restroom, codes, limits
<1>5. \A kind \in {"running", "more running", "restricted", "status"} : \A s :
         s \in Named(kind) <=> <<kind, s>> \in Reasons(answer)
  BY <1>1 DEF Named
<1>6. \A s : /\ <<"running", s>> \in Reasons(answer) <=> s \in running
             /\ <<"more running", s>> \in Reasons(answer) <=> "more running" \in more /\ s = Nowhere
             /\ <<"restricted", s>> \in Reasons(answer) <=> s \in restricted
             /\ <<"status", s>> \in Reasons(answer) <=> s \in status
  BY <1>1, <1>2, <1>4
<1>7. Named("running") = running /\ Named("restricted") = restricted /\ Named("status") = status
  BY <1>5, <1>6
<1>8. Named("more running") = {} => more = {} BY <1>4, <1>5, <1>6
<1>9. /\ IsFiniteSet(L) /\ Cardinality(L) \in Nat
      /\ {x[1] : x \in L} = {c.station : c \in {c \in answer.checks : HasOperatingElevator(c)}}
  BY LocationsAre, FS_CardinalityType DEF HasOperatingElevator
<1>10. /\ IsFiniteSet(M) /\ Cardinality(M) \in Nat
       /\ {x[1] : x \in M} = {c.station : c \in {c \in answer.checks : IsRestricted(c)}}
  BY RestrictedLocationsAre, FS_CardinalityType
<1> HIDE DEF L, M
<1>11. running \subseteq {x[1] : x \in L} /\ (Cardinality(L) <= 3 => running = {x[1] : x \in L})
  BY <1>9, NamedStationsAre DEF running
<1>12. restricted \subseteq {x[1] : x \in M} /\ (Cardinality(M) <= 3 => restricted = {x[1] : x \in M})
  BY <1>10, NamedStationsAre DEF restricted
<1>13. more = {} => Cardinality(L) <= 3 BY <1>4, <1>9
<1>14. Cardinality(M) <= 3 \/ Cardinality(M) > 3 BY <1>10
<1> QED BY <1>3, <1>7, <1>8, <1>9, <1>10, <1>11, <1>12, <1>13, <1>14 DEF M

\* A table that leaves the running elevator of a station out shows one of which
\* nobody knows.
LEMMA LeftOutForUnknown ==
    ASSUME IInv, Judged, NEW c \in answer.checks, HasOperatingElevator(c), "running" \notin TableConfirmed(c)
    PROVE  {"more", "UNKNOWN"} \subseteq TableAttention(c)
<1>1. CheckTells(c) /\ CheckWords(c) BY CheckSays, CheckSaysInWords
<1>2. \A d \in VisibleDetails(c) : d.status # "AVAILABLE" BY DEF TableConfirmed
<1>3. PICK e \in c.details : e.status = "AVAILABLE" BY DEF HasOperatingElevator, DetailsIn
<1>4. c.has = "CONFIRMED" /\ VisibleDetails(c) # c.details BY <1>1, <1>2, <1>3 DEF CheckTells
<1>5. \E d \in VisibleDetails(c) : d.status = "UNKNOWN"
  <2>1. SUFFICES ASSUME \A d \in VisibleDetails(c) : d.status # "UNKNOWN" PROVE FALSE OBVIOUS
  <2>2. PICK d \in VisibleDetails(c) : TRUE BY <1>1, <1>3 DEF CheckWords
  <2>3. d \in c.details /\ d.status \in Restricting
    BY <1>1, <1>2, <2>1, <2>2 DEF CheckTells, CheckWords, FacilityStatus, Restricting
  <2>4. Reported(c.station, d.status) /\ Reported(c.station, "AVAILABLE") /\ d.status # "AVAILABLE"
    BY <1>1, <1>3, <2>3 DEF CheckTells, FacilityStatus, Restricting
  <2>5. c.state = "MIXED" BY <1>1, <2>4 DEF CheckTells
  <2>6. d \in DetailsIn(c, Restricting) /\ e \in DetailsIn(c, {"AVAILABLE"})
    BY <1>3, <2>3 DEF DetailsIn
  <2>7. \E v \in VisibleDetails(c) : v.status = "AVAILABLE" BY <1>1, <2>5, <2>6, VisibleIs DEF CheckTells
  <2> QED BY <1>2, <2>7
<1> QED BY <1>4, <1>5 DEF TableAttention

\* In the invariant, the summary does not contradict the message.
LEMMA TripSummary == IInv => SummaryAgrees
<1> DEFINE tabled == {x[1] : x \in {x \in Cells("confirmed") : x[2] = "running"}}
<1> SUFFICES ASSUME IInv, Judged
             PROVE  /\ Named("more running") = {} => Said.lead.running \cup tabled \subseteq Named("running")
                    /\ \/ {x[1] : x \in Said.lead.restricted} \subseteq Named("restricted")
                       \/ Cardinality(RestrictedLocations(answer.checks)) > 3
                    /\ Said.lead.running \cap (Named("restricted") \cup Named("status")) = {}
                    /\ \A s \in Named("running") \ tabled : {<<s, "more">>, <<s, "UNKNOWN">>} \subseteq Cells("attention")
                    /\ tabled \cap Named("status") = {}
                    /\ Said.headline = "no restriction known" /\ RequiresElevator(Profile) => Named("restricted") = {}
  BY DEF SummaryAgrees, Named
<1>1. \A c \in answer.checks : CheckTells(c) /\ CheckWords(c) BY CheckSays, CheckSaysInWords
<1>2. \A c, d \in answer.checks : c.station = d.station => c = d BY ChecksAre
<1>3. \A s : s \in tabled <=> \E c \in answer.checks : c.station = s /\ "running" \in TableConfirmed(c)
  <2>1. \A s : s \in tabled <=> <<s, "running">> \in Cells("confirmed") BY CellsAre
  <2> QED BY <2>1, CellsAre
<1>4. \A c : "running" \in TableConfirmed(c) => \E d \in VisibleDetails(c) : d.status = "AVAILABLE"
  BY DEF TableConfirmed, PlatformCell
<1> HIDE DEF tabled
<1>5. ASSUME NEW s \in Said.lead.running
      PROVE  /\ \E c \in answer.checks : c.station = s /\ HasOperatingElevator(c)
             /\ s \notin Named("restricted") /\ s \notin Named("status")
  <2>1. s \in OperatingStations(answer.checks) BY LeadIs, MessageIs
  <2>2. PICK c \in answer.checks : c.station = s /\ IsOperating(c) BY <2>1 DEF OperatingStations
  <2>3. HasOperatingElevator(c) /\ ~IsRestricted(c) BY <1>1, <2>2 DEF CheckTells, CheckWords
  <2>4. ~\A d \in c.details : d.status = "UNKNOWN" BY <2>3 DEF HasOperatingElevator, DetailsIn
  <2>5. s \notin Named("restricted")
    <3>1. \A x \in Named("restricted") : \E e \in answer.checks : e.station = x /\ IsRestricted(e) BY ReasonsName
    <3> QED BY <1>2, <2>2, <2>3, <3>1
  <2>6. s \notin Named("status")
    <3>1. \A x \in Named("status") : \E e \in answer.checks :
             e.station = x /\ \A d \in e.details : d.status = "UNKNOWN"
      BY ReasonsName
    <3> QED BY <1>2, <2>2, <2>4, <3>1
  <2> QED BY <2>2, <2>3, <2>5, <2>6
<1>6. ASSUME NEW s \in tabled
      PROVE  /\ \E c \in answer.checks : c.station = s /\ HasOperatingElevator(c)
             /\ s \notin Named("status")
  <2>1. PICK c \in answer.checks : c.station = s /\ "running" \in TableConfirmed(c) BY <1>3
  <2>2. PICK d \in c.details : d.status = "AVAILABLE" BY <1>1, <1>4, <2>1 DEF CheckWords
  <2>3. HasOperatingElevator(c) BY <2>2 DEF HasOperatingElevator, DetailsIn
  <2> QED BY <1>2, <2>1, <2>2, <2>3, ReasonsName
<1>7. ASSUME NEW s \in Named("running"), s \notin tabled
      PROVE  {<<s, "more">>, <<s, "UNKNOWN">>} \subseteq Cells("attention")
  <2>1. PICK c \in answer.checks : c.station = s /\ HasOperatingElevator(c) BY ReasonsName
  <2>2. "running" \notin TableConfirmed(c) BY <1>3, <1>7, <2>1
  <2>3. {"more", "UNKNOWN"} \subseteq TableAttention(c) BY <2>1, <2>2, LeftOutForUnknown
  <2> QED BY <2>1, <2>3, CellsAre
<1>8. ASSUME Said.headline = "no restriction known", RequiresElevator(Profile) PROVE Named("restricted") = {}
  <2>1. answer.judgement = "possible"
    BY <1>8, MessageIs, VerdictIs DEF Headline, CautionHeading
  <2>2. answer.level = "LOW" BY <2>1, LevelIs, TripLevels DEF LevelScoreWords
  <2>3. \A c \in answer.checks : ~IsRestricted(c) BY <1>8, <2>2, LowRuns DEF Profile
  <2> QED BY <2>3, ReasonsName
<1>9. Named("more running") = {} => Said.lead.running \cup tabled \subseteq Named("running")
  BY <1>5, <1>6, ReasonsName
<1>10. \/ {x[1] : x \in Said.lead.restricted} \subseteq Named("restricted")
       \/ Cardinality(RestrictedLocations(answer.checks)) > 3
  <2>1. Said.lead.restricted \subseteq RestrictedSentences(answer.checks) BY LeadIs, MessageIs
  <2>2. \A x \in RestrictedSentences(answer.checks) : \E c \in answer.checks : IsRestricted(c) /\ x[1] = c.station
    BY DEF RestrictedSentences
  <2> QED BY <2>1, <2>2, ReasonsName
<1> QED BY <1>5, <1>6, <1>7, <1>8, <1>9, <1>10

\* The reasons of the summary, which name three locations of a kind and say of the
\* running ones alone that there are more, the lead and the table, each made by
\* tests of its own, agree on what runs, whatever the table leaves out, and no
\* headline says that nothing is known where a restriction is
\* (user_message_decision.py).
THEOREM SummaryAlwaysAgrees == Spec => []SummaryAgrees
BY TripInvariant, TripSummary, PTL

-----------------------------------------------------------------------------
(* The key points.                                                         *)

\* What the key point of a check consists of.
LEMMA PointIs ==
    ASSUME NEW c
    PROVE  /\ \A w : <<"elevator", w>> \in KeyPoint(c) <=> w \in PointElevators(c)
           /\ \A leg \in {"transfer", "exit"} : \A w :
                 <<leg, w>> \in KeyPoint(c) <=> w = c[leg] /\ c[leg] # "NOT_APPLICABLE"
           /\ \A w : <<"restroom", w>> \in KeyPoint(c) <=> w = c.restroom /\ c.restroom # "not asked"
<1> DEFINE elevators == {<<"elevator", w>> : w \in PointElevators(c)}
           lines == {<<"line", c.lineMatch>> : l \in {c.line} \ {NoLine}}
           states == {<<"status", PointStatus(c)>> : none \in {{}} \cap {c.details}}
           legs == {<<leg, c[leg]>> : leg \in {leg \in {"platform", "transfer", "exit"} : c[leg] # "NOT_APPLICABLE"}}
           restrooms == {<<"restroom", c.restroom>> : w \in {c.restroom} \ {"not asked"}}
<1>1. KeyPoint(c) = elevators \cup lines \cup states \cup legs \cup restrooms BY DEF KeyPoint
<1>2. /\ \A x \in elevators : x[1] = "elevator"
      /\ \A x \in lines : x[1] = "line"
      /\ \A x \in states : x[1] = "status"
      /\ \A x \in legs : x[1] \in {"platform", "transfer", "exit"}
      /\ \A x \in restrooms : x[1] = "restroom"
  <2>1. (\A x \in elevators : x[1] = "elevator") /\ (\A x \in lines : x[1] = "line") OBVIOUS
  <2>2. \A x \in states : x[1] = "status" OBVIOUS
  <2>3. \A x \in legs : x[1] \in {"platform", "transfer", "exit"} OBVIOUS
  <2>4. \A x \in restrooms : x[1] = "restroom"
    <3>1. \A x \in restrooms : x = <<"restroom", c.restroom>> OBVIOUS
    <3> HIDE DEF restrooms
    <3> QED BY <3>1
  <2> HIDE DEF elevators, lines, states, legs, restrooms
  <2> QED BY <2>1, <2>2, <2>3, <2>4
<1>3. \A w : <<"elevator", w>> \in elevators <=> w \in PointElevators(c) OBVIOUS
<1>4. \A leg \in {"transfer", "exit"} : \A w : <<leg, w>> \in legs <=> w = c[leg] /\ c[leg] # "NOT_APPLICABLE" OBVIOUS
<1>5. \A w : <<"restroom", w>> \in restrooms <=> w = c.restroom /\ c.restroom # "not asked"
  <2>1. restrooms = IF c.restroom = "not asked" THEN {} ELSE {<<"restroom", c.restroom>>} OBVIOUS
  <2> HIDE DEF restrooms
  <2> QED BY <2>1
<1>6. \A k, w : <<k, w>>[1] = k OBVIOUS
<1> HIDE DEF elevators, lines, states, legs, restrooms
<1>7. \A w : <<"elevator", w>> \in KeyPoint(c) <=> <<"elevator", w>> \in elevators BY <1>1, <1>2, <1>6
<1>8. \A leg \in {"transfer", "exit"} : \A w : <<leg, w>> \in KeyPoint(c) <=> <<leg, w>> \in legs BY <1>1, <1>2, <1>6
<1>9. \A w : <<"restroom", w>> \in KeyPoint(c) <=> <<"restroom", w>> \in restrooms BY <1>1, <1>2, <1>6
<1>10. ASSUME NEW leg \in {"transfer", "exit"}, NEW w
       PROVE  <<leg, w>> \in KeyPoint(c) <=> w = c[leg] /\ c[leg] # "NOT_APPLICABLE"
  BY <1>4, <1>8
<1>11. \A w : <<"elevator", w>> \in KeyPoint(c) <=> w \in PointElevators(c) BY <1>3, <1>7
<1>12. \A w : <<"restroom", w>> \in KeyPoint(c) <=> w = c.restroom /\ c.restroom # "not asked" BY <1>5, <1>9
<1> QED BY <1>10, <1>11, <1>12

Missed == {"elevators unsupported", "elevators not found", "elevators not confirmed"}
Facilities == {"restroom", "restroom unsupported"}
Platforms == {"which platform", "platform elevator", "platform"}

\* What the columns of the table consist of.
LEMMA ColumnsAre ==
    ASSUME IInv, Judged, NEW c \in answer.checks
    PROVE  /\ "running" \in TableConfirmed(c) <=> \E d \in VisibleDetails(c) : d.status = "AVAILABLE"
           /\ \A leg \in {"transfer", "exit"} : leg \in TableConfirmed(c) <=> c[leg] = "CONFIRMED"
           /\ "restroom" \in TableConfirmed(c) <=> c.restroom = "yes"
           /\ \A w \in {"UNKNOWN"} \cup Restricting :
                 w \in TableAttention(c) <=> \E d \in VisibleDetails(c) : d.status = w
           /\ "more" \in TableAttention(c) <=> VisibleDetails(c) # c.details
           /\ \A leg \in {"transfer", "exit"} : leg \in TableAttention(c) <=> c.has = "CONFIRMED" /\ Gap(c[leg])
           /\ TableAttention(c) \cap Facilities # {} <=> c.restroom = "no"
           /\ TableAttention(c) \cap Missed # {} <=> c.has # "CONFIRMED"
<1> DEFINE states == {d.status : d \in VisibleDetails(c)} \ {"AVAILABLE"}
           words == {w \in {"more", "line", "transfer", "exit"} :
                        CASE w = "more" -> VisibleDetails(c) # c.details
                          [] w = "line" -> c.line # NoLine /\ Gap(c.lineMatch)
                          [] OTHER -> Gap(c[w])}
           platform == IF Gap(c.platform) THEN {PlatformCell(c)} ELSE {}
           restroom == IF c.restroom # "no" THEN {}
                       ELSE {IF c.restroomUnsupported THEN "restroom unsupported" ELSE "restroom"}
           elevators == IF c.has # "CONFIRMED" THEN {MissingElevators(c)} ELSE states \cup words \cup platform
<1>1. CheckTells(c) /\ CheckWords(c) BY CheckSays, CheckSaysInWords
<1>2. TableAttention(c) = elevators \cup restroom BY DEF TableAttention
<1>3. PlatformCell(c) \in Platforms BY DEF PlatformCell, Platforms
<1>4. MissingElevators(c) \in Missed BY DEF MissingElevators, Missed
<1>5. states \subseteq {"UNKNOWN", "MAINTENANCE", "UNAVAILABLE"}
  BY <1>1 DEF CheckTells, CheckWords, FacilityStatus
<1>6. c.has # "CONFIRMED" => VisibleDetails(c) = {} /\ c.details = {}
  BY <1>1 DEF CheckTells, CheckWords
<1>7. /\ "running" \in TableConfirmed(c) <=> \E d \in VisibleDetails(c) : d.status = "AVAILABLE"
      /\ \A leg \in {"transfer", "exit"} : leg \in TableConfirmed(c) <=> c[leg] = "CONFIRMED"
      /\ "restroom" \in TableConfirmed(c) <=> c.restroom = "yes"
  BY <1>3 DEF TableConfirmed, Platforms
<1>8. words \subseteq {"more", "line", "transfer", "exit"} OBVIOUS
<1>9. /\ "more" \in words <=> VisibleDetails(c) # c.details
      /\ \A leg \in {"transfer", "exit"} : leg \in words <=> Gap(c[leg])
  OBVIOUS
<1>10. \A w \in {"UNKNOWN"} \cup Restricting : w \in states <=> \E d \in VisibleDetails(c) : d.status = w
  BY DEF Restricting
<1>11. platform \subseteq Platforms BY <1>3
<1>12. restroom \subseteq Facilities /\ (restroom # {} <=> c.restroom = "no") BY DEF Facilities
<1> HIDE DEF states, words, platform, restroom
<1>13. CASE c.has # "CONFIRMED"
  <2>1. TableAttention(c) = {MissingElevators(c)} \cup restroom BY <1>2, <1>13
  <2> QED BY <1>4, <1>6, <1>7, <1>12, <1>13, <2>1 DEF Missed, Facilities, Restricting
<1>14. CASE c.has = "CONFIRMED"
  <2>1. TableAttention(c) = states \cup words \cup platform \cup restroom BY <1>2, <1>14
  <2>2. \A w \in {"UNKNOWN"} \cup Restricting : w \in TableAttention(c) <=> w \in states
    BY <1>8, <1>11, <1>12, <2>1 DEF Platforms, Facilities, Restricting
  <2>3. \A w \in {"more", "transfer", "exit"} : w \in TableAttention(c) <=> w \in words
    BY <1>5, <1>11, <1>12, <2>1 DEF Platforms, Facilities
  <2>4. TableAttention(c) \cap Facilities # {} <=> restroom # {}
    BY <1>5, <1>8, <1>11, <1>12, <2>1 DEF Platforms, Facilities
  <2>5. TableAttention(c) \cap Missed = {}
    BY <1>5, <1>8, <1>11, <1>12, <2>1 DEF Platforms, Facilities, Missed
  <2> QED BY <1>7, <1>9, <1>10, <1>12, <1>14, <2>2, <2>3, <2>4, <2>5
<1> QED BY <1>13, <1>14

\* In the invariant, the key points and the table show the same.
LEMMA TripPoints == IInv => PointsAgree
<1> SUFFICES ASSUME IInv, Judged, NEW c \in answer.checks
             PROVE  LET point == KeyPoint(c)  confirmed == TableConfirmed(c)  attention == TableAttention(c)
                    IN  /\ <<"elevator", "AVAILABLE">> \in point <=> "running" \in confirmed
                        /\ \A w \in {"UNKNOWN", "more"} \cup Restricting : <<"elevator", w>> \in point <=> w \in attention
                        /\ \A leg \in {"transfer", "exit"} :
                              /\ <<leg, "CONFIRMED">> \in point <=> leg \in confirmed
                              /\ leg \in attention => <<leg, "UNVERIFIED">> \in point
                        /\ <<"restroom", "yes">> \in point <=> "restroom" \in confirmed
                        /\ <<"restroom", "no">> \in point <=> attention \cap Facilities # {}
                        /\ (\E w \in {"none known", "not confirmed"} : <<"elevator", w>> \in point)
                              <=> attention \cap Missed # {}
  BY DEF PointsAgree, Facilities, Missed
<1>1. CheckTells(c) /\ CheckWords(c) BY CheckSays, CheckSaysInWords
<1>2. /\ c.has = "CONFIRMED" <=> c.details # {}
      /\ VisibleDetails(c) \subseteq c.details /\ \A d \in c.details : d.status \in FacilityStatus
  BY <1>1 DEF CheckTells, CheckWords
<1>3. PointElevators(c) = IF c.details # {}
                          THEN {d.status : d \in VisibleDetails(c)} \cup {w \in {"more"} : VisibleDetails(c) # c.details}
                          ELSE {IF c.has = "FAILED" THEN "none known" ELSE "not confirmed"}
  BY DEF PointElevators
<1>4. /\ \A w \in {"AVAILABLE", "UNKNOWN"} \cup Restricting :
            w \in PointElevators(c) <=> \E d \in VisibleDetails(c) : d.status = w
      /\ "more" \in PointElevators(c) <=> VisibleDetails(c) # c.details
      /\ (\E w \in {"none known", "not confirmed"} : w \in PointElevators(c)) <=> c.details = {}
  <2>1. CASE c.details = {}
    <3>1. VisibleDetails(c) = {} BY <1>2, <2>1
    <3>2. PointElevators(c) \in {{"none known"}, {"not confirmed"}} BY <1>3, <2>1
    <3> QED BY <2>1, <3>1, <3>2 DEF Restricting
  <2>2. CASE c.details # {}
    <3>1. PointElevators(c) = {d.status : d \in VisibleDetails(c)} \cup {w \in {"more"} : VisibleDetails(c) # c.details}
      BY <1>3, <2>2
    <3> QED BY <1>2, <2>2, <3>1 DEF FacilityStatus, Restricting
  <2> QED BY <2>1, <2>2
<1>5. ASSUME NEW leg \in {"transfer", "exit"}, c.has = "CONFIRMED", Gap(c[leg]) PROVE c[leg] = "UNVERIFIED"
  <2>1. PICK s : c = CheckAt(s) BY ChecksAre
  <2>2. /\ c.transfer = PathEvidence(Needed /\ c.role = "transfer", c.has, ElevatorsAt(facts, s), "transfer")
        /\ c.exit = PathEvidence(Needed /\ c.role # "transfer", c.has, ElevatorsAt(facts, s), "exit")
    BY <2>1, CheckForm
  <2>3. c["transfer"] = c.transfer /\ c["exit"] = c.exit OBVIOUS
  <2>4. \A required, elevators, l : PathEvidence(required, c.has, elevators, l) # "FAILED"
    BY <1>5 DEF PathEvidence
  <2>5. c[leg] # "FAILED" BY <2>2, <2>3, <2>4
  <2> QED BY <1>5, <2>5 DEF Gap
<1>6. ASSUME NEW leg \in {"transfer", "exit"}
      PROVE  /\ <<leg, "CONFIRMED">> \in KeyPoint(c) <=> leg \in TableConfirmed(c)
             /\ leg \in TableAttention(c) => <<leg, "UNVERIFIED">> \in KeyPoint(c)
  <2>1. \A w : <<leg, w>> \in KeyPoint(c) <=> w = c[leg] /\ c[leg] # "NOT_APPLICABLE" BY PointIs
  <2>2. /\ leg \in TableConfirmed(c) <=> c[leg] = "CONFIRMED"
        /\ leg \in TableAttention(c) <=> c.has = "CONFIRMED" /\ Gap(c[leg])
    BY ColumnsAre
  <2> QED BY <1>5, <2>1, <2>2
<1>7. /\ <<"elevator", "AVAILABLE">> \in KeyPoint(c) <=> "running" \in TableConfirmed(c)
      /\ \A w \in {"UNKNOWN", "more"} \cup Restricting : <<"elevator", w>> \in KeyPoint(c) <=> w \in TableAttention(c)
  BY <1>4, PointIs, ColumnsAre
<1>8. /\ <<"restroom", "yes">> \in KeyPoint(c) <=> "restroom" \in TableConfirmed(c)
      /\ <<"restroom", "no">> \in KeyPoint(c) <=> TableAttention(c) \cap Facilities # {}
  BY PointIs, ColumnsAre
<1>9. (\E w \in {"none known", "not confirmed"} : <<"elevator", w>> \in KeyPoint(c)) <=> TableAttention(c) \cap Missed # {}
  BY <1>2, <1>4, PointIs, ColumnsAre
<1> QED BY <1>6, <1>7, <1>8, <1>9

\* The key points of the structured answer and the table of the text show the same
\* elevators, legs and restrooms of every station (accessibility_check_points,
\* build_accessibility_table).
THEOREM PointsAlwaysAgree == Spec => []PointsAgree
BY TripInvariant, TripPoints, PTL

-----------------------------------------------------------------------------
(* The way.  The message finds the stations that matter by reading the     *)
(* segments one after the other; it lists them by their places.            *)

\* What is known after the first segments.
Passed(seen, g) ==
    [line |-> IF g.line = NoLine THEN seen.line ELSE g.line,
     stations |-> seen.stations
        \cup (IF g.transfer THEN {g.from, g.to} ELSE {})
        \cup IF NoLine \notin {seen.line, g.line} /\ seen.line # g.line THEN {g.from} ELSE {}]

\* The fold over the segments takes them one after the other.
LEMMA FoldOfSegments ==
    ASSUME NEW route \in RouteCandidate
    PROVE  \E seen : /\ seen[0] = [line |-> NoLine, stations |-> {route.origin, route.destination}]
                     /\ \A k \in 1 .. Len(route.segments) : seen[k] = Passed(seen[k - 1], route.segments[k])
                     /\ CriticalRouteStations(route) = seen[Len(route.segments)].stations
<1> DEFINE segs == route.segments
           len == Len(segs)
           S == DOMAIN segs
           start == [line |-> NoLine, stations |-> {route.origin, route.destination}]
           Sets(n) == {s \in SUBSET S : Cardinality(s) <= n}
           Folds(f, n) == /\ f = [s \in Sets(n) |-> f[s]]
                          /\ \A s \in Sets(n) :
                               f[s] = IF s = {} THEN start
                                      ELSE LET x == Max(s) IN Passed(f[s \ {x}], segs[x])
           T == {n \in Nat : \E f : Folds(f, n)}
<1>1. len \in Nat /\ S = 1 .. len
  <2>1. segs \in Seq(RouteSegment) BY DEF RouteCandidate
  <2> QED BY <2>1
<1>2. IsFiniteSet(S) /\ Cardinality(S) = len /\ \A n \in 0 .. len : Cardinality(1 .. n) = n
  <2>1. \A n \in Nat : IsFiniteSet(1 .. n) /\ Cardinality(1 .. n) = n BY FS_Interval
  <2> QED BY <1>1, <2>1
<1>3. \A s \in SUBSET S : IsFiniteSet(s) /\ Cardinality(s) \in Nat /\ Cardinality(s) <= len
  BY <1>2, FS_Subset, FS_CardinalityType
<1>4. ASSUME NEW s \in SUBSET S, s # {} PROVE Max(s) \in s /\ \A y \in s : y <= Max(s)
  <2> DEFINE Above == {n \in Nat : \A y \in s : y <= n}
  <2>1. s \subseteq Nat /\ len \in Above BY <1>1
  <2>2. PICK top \in Above : \A n \in Above : top <= n BY <2>1, NatMin
  <2>3. top \in s
    <3>1. SUFFICES ASSUME top \notin s PROVE FALSE OBVIOUS
    <3>2. PICK y \in s : TRUE BY <1>4
    <3>3. \A z \in s : z < top
      <4>1. \A z \in s : z \in Nat /\ z <= top /\ z # top BY <2>1, <3>1
      <4> QED BY <4>1
    <3>4. top # 0 /\ top \in Nat BY <2>1, <3>2, <3>3
    <3>5. top - 1 \in Above BY <2>1, <3>3, <3>4
    <3> QED BY <2>2, <3>4, <3>5
  <2>4. \E x \in s : \A y \in s : x >= y BY <2>1, <2>3
  <2>5. Max(s) \in s /\ \A y \in s : Max(s) >= y BY <2>4 DEF Max
  <2> QED BY <2>1, <2>5
<1> HIDE DEF segs, len, S, start
<1>5. 0 \in T
  <2>1. Sets(0) = {{}} BY <1>3, FS_EmptySet
  <2>2. Folds([s \in {{}} |-> start], 0) BY <2>1
  <2> QED BY <2>2
<1>6. ASSUME NEW m \in Nat, m \in T PROVE m + 1 \in T
  <2>1. PICK f : Folds(f, m) BY <1>6
  <2> DEFINE g == [s \in Sets(m + 1) |->
                     IF s = {} THEN start ELSE LET x == Max(s) IN Passed(f[s \ {x}], segs[x])]
  <2>2. \A s \in Sets(m) : s \in Sets(m + 1) /\ g[s] = f[s]
    <3>1. Sets(m) \subseteq Sets(m + 1) BY <1>3
    <3> QED BY <2>1, <3>1
  <2>3. ASSUME NEW s \in Sets(m + 1), s # {} PROVE s \ {Max(s)} \in Sets(m)
    <3>1. Max(s) \in s BY <1>4, <2>3
    <3>2. Cardinality(s \ {Max(s)}) = Cardinality(s) - 1 BY <1>3, <3>1, FS_RemoveElement
    <3>3. Cardinality(s) \in Nat /\ Cardinality(s) <= m + 1 BY <1>3
    <3> QED BY <3>2, <3>3
  <2> HIDE DEF Sets
  <2>4. ASSUME NEW s \in Sets(m + 1)
        PROVE  g[s] = IF s = {} THEN start ELSE LET x == Max(s) IN Passed(g[s \ {x}], segs[x])
    <3>1. CASE s = {} BY <3>1
    <3>2. CASE s # {}
      <4>1. g[s \ {Max(s)}] = f[s \ {Max(s)}] BY <2>2, <2>3, <3>2
      <4>2. g[s] = Passed(f[s \ {Max(s)}], segs[Max(s)]) BY <3>2
      <4> HIDE DEF g
      <4> QED BY <3>2, <4>1, <4>2
    <3> QED BY <3>1, <3>2
  <2>5. Folds(g, m + 1)
    <3>1. g = [s \in Sets(m + 1) |-> g[s]] OBVIOUS
    <3> HIDE DEF g
    <3> QED BY <2>4, <3>1
  <2> HIDE DEF Folds
  <2> QED BY <2>5
<1>7. len \in T
  <2> HIDE DEF T
  <2>1. 0 .. len \subseteq T BY <1>1, <1>5, <1>6, UpTo
  <2> QED BY <1>1, <2>1
<1>8. PICK f : Folds(f, len) BY <1>7
<1>9. Sets(len) = SUBSET S BY <1>3
<1> DEFINE Rule(h) == [s \in SUBSET S |-> IF s = {} THEN start
                          ELSE LET x == Max(s) IN Passed(h[s \ {x}], segs[x])]
           iter == CHOOSE h : h = Rule(h)
<1>10. f = Rule(f)
  <2>1. \A s \in SUBSET S : f[s] = Rule(f)[s] BY <1>8, <1>9
  <2>2. f = [s \in SUBSET S |-> f[s]] BY <1>8, <1>9
  <2> HIDE DEF Folds
  <2> QED BY <2>1, <2>2
<1>11. iter = Rule(iter)
  <2> HIDE DEF Rule
  <2> QED BY <1>10
<1>12. \A s \in SUBSET S : iter[s] = IF s = {} THEN start ELSE LET x == Max(s) IN Passed(iter[s \ {x}], segs[x])
  <2> HIDE DEF iter
  <2> QED BY <1>11
<1>13. CriticalRouteStations(route) = iter[S].stations
  BY Zenon DEF CriticalRouteStations, FoldLeft, MapThenFoldSet, Passed, segs, start, S
<1> HIDE DEF iter
<1> DEFINE seen == [k \in 0 .. len |-> iter[1 .. k]]
<1>14. seen[0] = start
  <2>1. 1 .. 0 = {} /\ 0 \in 0 .. len BY <1>1
  <2> QED BY <1>12, <2>1
<1>15. ASSUME NEW k \in 1 .. len PROVE seen[k] = Passed(seen[k - 1], segs[k])
  <2>1. 1 .. k \in SUBSET S /\ 1 .. k # {}
    <3>1. k \in Nat /\ k >= 1 /\ k <= len /\ len \in Nat BY <1>1
    <3>2. 1 .. k \subseteq 1 .. len BY <3>1
    <3>3. k \in 1 .. k BY <3>1
    <3> QED BY <1>1, <3>2, <3>3
  <2>2. Max(1 .. k) = k
    <3>1. Max(1 .. k) \in 1 .. k /\ \A y \in 1 .. k : y <= Max(1 .. k) BY <1>4, <2>1
    <3> QED BY <1>1, <3>1
  <2>3. (1 .. k) \ {k} = 1 .. k - 1 BY <1>1
  <2>4. iter[1 .. k] = Passed(iter[1 .. k - 1], segs[k]) BY <1>12, <2>1, <2>2, <2>3
  <2>5. k \in 0 .. len /\ k - 1 \in 0 .. len BY <1>1
  <2> QED BY <2>4, <2>5
<1>16. CriticalRouteStations(route) = seen[len].stations
  <2>1. S = 1 .. len /\ len \in 0 .. len BY <1>1
  <2> QED BY <1>13, <2>1
<1> HIDE DEF seen
<1> QED BY <1>14, <1>15, <1>16 DEF segs, len, start

\* What is known of the line after the first k segments: it is that of the last
\* of them that has a line.
LineAfter(segs, k, line) ==
    \/ line = NoLine /\ \A j \in 1 .. k : segs[j].line = NoLine
    \/ /\ line # NoLine
       /\ \E j \in 1 .. k : segs[j].line = line /\ \A i \in j + 1 .. k : segs[i].line = NoLine

\* The line that is remembered tells whether the next segment is a change.
LEMMA ChangeIs ==
    ASSUME NEW segs, NEW k \in Nat, NEW line, LineAfter(segs, k, line)
    PROVE  LineChange(segs, k + 1) <=> NoLine \notin {line, segs[k + 1].line} /\ line # segs[k + 1].line
<1>1. ASSUME LineChange(segs, k + 1)
      PROVE  NoLine \notin {line, segs[k + 1].line} /\ line # segs[k + 1].line
  <2>1. PICK j \in 1 .. k : /\ NoLine \notin {segs[k + 1].line, segs[j].line}
                            /\ segs[k + 1].line # segs[j].line
                            /\ \A i \in j + 1 .. k : segs[i].line = NoLine
    BY <1>1 DEF LineChange
  <2>2. PICK h \in 1 .. k : segs[h].line = line /\ \A i \in h + 1 .. k : segs[i].line = NoLine
    BY <2>1 DEF LineAfter
  <2>3. line # NoLine BY <2>1 DEF LineAfter
  <2>4. ~(h < j) BY <2>1, <2>2
  <2>5. ~(j < h) BY <2>1, <2>2, <2>3
  <2>6. h = j BY <2>4, <2>5
  <2> QED BY <2>1, <2>2, <2>6
<1>2. ASSUME NoLine \notin {line, segs[k + 1].line} /\ line # segs[k + 1].line
      PROVE  LineChange(segs, k + 1)
  <2>1. PICK j \in 1 .. k : segs[j].line = line /\ \A i \in j + 1 .. k : segs[i].line = NoLine
    BY <1>2 DEF LineAfter
  <2>2. k + 1 - 1 = k OBVIOUS
  <2>3. \E h \in 1 .. k : /\ NoLine \notin {segs[k + 1].line, segs[h].line}
                          /\ segs[k + 1].line # segs[h].line
                          /\ \A i \in h + 1 .. k : segs[i].line = NoLine
    BY <1>2, <2>1
  <2> QED BY <2>2, <2>3 DEF LineChange
<1> QED BY <1>1, <1>2

\* The line that is remembered after one segment more.
LEMMA NextLineAfter ==
    ASSUME NEW segs, NEW k \in Nat, NEW line, LineAfter(segs, k, line)
    PROVE  LineAfter(segs, k + 1, IF segs[k + 1].line = NoLine THEN line ELSE segs[k + 1].line)
<1>1. CASE segs[k + 1].line # NoLine
  <2>1. k + 1 \in 1 .. k + 1 /\ \A i \in k + 1 + 1 .. k + 1 : FALSE OBVIOUS
  <2> QED BY <1>1, <2>1 DEF LineAfter
<1>2. CASE segs[k + 1].line = NoLine
  <2>1. \A j \in 1 .. k + 1 : j \in 1 .. k \/ j = k + 1 OBVIOUS
  <2>2. CASE line = NoLine BY <1>2, <2>1, <2>2 DEF LineAfter
  <2>3. CASE line # NoLine
    <3>1. PICK j \in 1 .. k : segs[j].line = line /\ \A i \in j + 1 .. k : segs[i].line = NoLine
      BY <2>3 DEF LineAfter
    <3>2. \A i \in j + 1 .. k + 1 : i \in j + 1 .. k \/ i = k + 1 OBVIOUS
    <3>3. j \in 1 .. k + 1 /\ \A i \in j + 1 .. k + 1 : segs[i].line = NoLine BY <1>2, <3>1, <3>2
    <3> QED BY <1>2, <2>3, <3>1, <3>3 DEF LineAfter
  <2> QED BY <2>2, <2>3
<1> QED BY <1>1, <1>2

\* The two rules in code of their own find the same stations: those of the
\* message, which reads the segments one after the other, and those of the checks.
THEOREM SameStations ==
    ASSUME NEW route \in RouteCandidate
    PROVE  CriticalRouteStations(route) = ElevatorCheckStations(route)
<1> DEFINE segs == route.segments
           len == Len(segs)
           ends == {route.origin, route.destination}
           From(k) == {segs[i].from : i \in {i \in 1 .. k : segs[i].transfer \/ LineChange(segs, i)}}
           To(k) == {segs[i].to : i \in {i \in 1 .. k : segs[i].transfer}}
<1>1. PICK seen : /\ seen[0] = [line |-> NoLine, stations |-> ends]
                  /\ \A k \in 1 .. len : seen[k] = Passed(seen[k - 1], segs[k])
                  /\ CriticalRouteStations(route) = seen[len].stations
  BY FoldOfSegments
<1>2. len \in Nat /\ DOMAIN segs = 1 .. len
  <2>1. segs \in Seq(RouteSegment) BY DEF RouteCandidate
  <2> QED BY <2>1
<1> DEFINE T == {k \in Nat : k <= len => /\ LineAfter(segs, k, seen[k].line)
                                         /\ seen[k].stations = ends \cup From(k) \cup To(k)}
<1> HIDE DEF segs, len, ends
<1>3. 0 \in T
  <2>1. LineAfter(segs, 0, NoLine) BY DEF LineAfter
  <2>2. From(0) = {} /\ To(0) = {} OBVIOUS
  <2> HIDE DEF From, To
  <2> QED BY <1>1, <2>1, <2>2
<1>4. ASSUME NEW k \in Nat, k \in T PROVE k + 1 \in T
  <2> DEFINE g == segs[k + 1]
             changes == NoLine \notin {seen[k].line, g.line} /\ seen[k].line # g.line
  <2>1. SUFFICES ASSUME k + 1 <= len
                 PROVE  /\ LineAfter(segs, k + 1, seen[k + 1].line)
                        /\ seen[k + 1].stations = ends \cup From(k + 1) \cup To(k + 1)
    OBVIOUS
  <2>2. /\ LineAfter(segs, k, seen[k].line)
        /\ seen[k].stations = ends \cup From(k) \cup To(k)
    BY <1>2, <1>4, <2>1
  <2>3. seen[k + 1] = Passed(seen[k], g)
    <3>1. k + 1 \in 1 .. len /\ k + 1 - 1 = k BY <1>2, <2>1
    <3> QED BY <1>1, <3>1
  <2>4. seen[k + 1].line = IF g.line = NoLine THEN seen[k].line ELSE g.line BY <2>3 DEF Passed
  <2>5. LineAfter(segs, k + 1, seen[k + 1].line) BY <2>2, <2>4, NextLineAfter
  <2>6. LineChange(segs, k + 1) <=> changes BY <2>2, ChangeIs
  <2>7. From(k + 1) = From(k) \cup IF g.transfer \/ changes THEN {g.from} ELSE {}
    <3>1. \A i : i \in 1 .. k + 1 <=> i \in 1 .. k \/ i = k + 1 OBVIOUS
    <3> HIDE DEF changes
    <3> QED BY <2>6, <3>1
  <2>8. To(k + 1) = To(k) \cup IF g.transfer THEN {g.to} ELSE {}
    <3>1. \A i : i \in 1 .. k + 1 <=> i \in 1 .. k \/ i = k + 1 OBVIOUS
    <3> QED BY <3>1
  <2>9. seen[k + 1].stations = seen[k].stations \cup (IF g.transfer THEN {g.from, g.to} ELSE {})
                                                \cup IF changes THEN {g.from} ELSE {}
    BY <2>3 DEF Passed
  <2> HIDE DEF From, To, g, changes
  <2> QED BY <2>2, <2>5, <2>7, <2>8, <2>9
<1>5. len \in T
  <2> HIDE DEF T
  <2>1. 0 .. len \subseteq T BY <1>2, <1>3, <1>4, UpTo
  <2> QED BY <1>2, <2>1
<1>6. seen[len].stations = ends \cup From(len) \cup To(len) BY <1>5, <1>2
<1>7. TransferPoints(route) = From(len) \cup To(len)
  <2>1. {i \in DOMAIN segs : segs[i].transfer} \cup {i \in DOMAIN segs : LineChange(segs, i)}
          = {i \in 1 .. len : segs[i].transfer \/ LineChange(segs, i)}
    BY <1>2
  <2>2. {i \in DOMAIN segs : segs[i].transfer} = {i \in 1 .. len : segs[i].transfer} BY <1>2
  <2> QED BY <2>1, <2>2 DEF TransferPoints, segs
<1> HIDE DEF From, To
<1> QED BY <1>1, <1>6, <1>7 DEF ElevatorCheckStations, ends

\* A finite set can be listed in the order of a number each element has.
LEMMA Listing ==
    ASSUME NEW S, IsFiniteSet(S), NEW key \in [S -> Nat]
    PROVE  \E f \in SetToSeqs(S) : \A i, j \in DOMAIN f : i < j => key[f[i]] <= key[f[j]]
<1> DEFINE Listed(f, s) == f \in SetToSeqs(s) /\ \A i, j \in DOMAIN f : i < j => key[f[i]] <= key[f[j]]
           T == {n \in Nat : \A s \in SUBSET S : Cardinality(s) = n => \E f : Listed(f, s)}
<1>1. \A s \in SUBSET S : IsFiniteSet(s) /\ Cardinality(s) \in Nat BY FS_Subset, FS_CardinalityType
<1>2. 0 \in T
  <2>1. SUFFICES ASSUME NEW s \in SUBSET S, Cardinality(s) = 0 PROVE \E f : Listed(f, s) OBVIOUS
  <2>2. [i \in 1 .. 0 |-> 0] \in [1 .. Cardinality(s) -> s] BY <2>1
  <2>3. Listed([i \in 1 .. 0 |-> 0], s) BY <2>1, <2>2 DEF SetToSeqs
  <2> QED BY <2>3
<1>3. ASSUME NEW m \in Nat, m \in T PROVE m + 1 \in T
  <2>1. SUFFICES ASSUME NEW s \in SUBSET S, Cardinality(s) = m + 1 PROVE \E f : Listed(f, s) OBVIOUS
  <2>2. \E x \in s : \A y \in s : key[x] <= key[y]
    <3> DEFINE K == {key[y] : y \in s}
    <3>1. s # {} BY <2>1, FS_EmptySet
    <3>2. K \subseteq Nat /\ K # {} BY <3>1
    <3>3. PICK k \in K : \A y \in K : k <= y
      <4> HIDE DEF K
      <4> QED BY <3>2, NatMin
    <3> QED BY <3>3
  <2>3. PICK x \in s : \A y \in s : key[x] <= key[y] BY <2>2
  <2>4. Cardinality(s \ {x}) = m
    <3>1. IsFiniteSet(s) BY <1>1
    <3>2. Cardinality(s \ {x}) = Cardinality(s) - 1 BY <2>3, <3>1, FS_RemoveElement
    <3> QED BY <2>1, <3>2
  <2>5. PICK g : Listed(g, s \ {x}) BY <1>3, <2>4
  <2>6. /\ g \in [1 .. m -> s \ {x}]
        /\ \A i, j \in 1 .. m : i # j => g[i] # g[j]
        /\ \A i, j \in 1 .. m : i < j => key[g[i]] <= key[g[j]]
    BY <2>4, <2>5 DEF SetToSeqs
  <2> DEFINE f == [i \in 1 .. m + 1 |-> IF i = 1 THEN x ELSE g[i - 1]]
  <2>7. \A i \in 1 .. m + 1 : i # 1 => i - 1 \in 1 .. m /\ f[i] = g[i - 1] /\ f[i] \in s \ {x}
    <3>1. SUFFICES ASSUME NEW i \in 1 .. m + 1, i # 1
                   PROVE  i - 1 \in 1 .. m /\ f[i] = g[i - 1] /\ f[i] \in s \ {x}
      OBVIOUS
    <3>2. i - 1 \in 1 .. m BY <3>1
    <3>3. g[i - 1] \in s \ {x} BY <2>6, <3>2
    <3> QED BY <3>1, <3>2, <3>3
  <2>8. f[1] = x OBVIOUS
  <2>9. f \in [1 .. Cardinality(s) -> s]
    <3>1. \A i \in 1 .. m + 1 : f[i] \in s BY <2>7, <2>8
    <3> QED BY <2>1, <3>1
  <2> HIDE DEF f
  <2>10. ASSUME NEW i \in 1 .. m + 1, NEW j \in 1 .. m + 1, i < j
         PROVE  f[i] # f[j] /\ key[f[i]] <= key[f[j]]
    <3>1. j # 1 BY <2>10
    <3>2. CASE i = 1
      <4>1. f[j] \in s \ {x} BY <2>7, <3>1
      <4> QED BY <2>3, <2>8, <3>2, <4>1
    <3>3. CASE i # 1
      <4>1. i - 1 \in 1 .. m /\ j - 1 \in 1 .. m /\ i - 1 < j - 1 /\ i - 1 # j - 1 BY <2>10, <3>1, <3>3
      <4>2. f[i] = g[i - 1] /\ f[j] = g[j - 1] BY <2>7, <3>1, <3>3
      <4> QED BY <2>6, <4>1, <4>2
    <3> QED BY <3>2, <3>3
  <2>11. \A i, j \in 1 .. m + 1 : i # j => f[i] # f[j]
    <3>1. SUFFICES ASSUME NEW i \in 1 .. m + 1, NEW j \in 1 .. m + 1, i # j PROVE f[i] # f[j] OBVIOUS
    <3>2. i < j \/ j < i BY <3>1
    <3> QED BY <2>10, <3>2
  <2>12. DOMAIN f = 1 .. m + 1 BY <2>1, <2>9
  <2>13. f \in SetToSeqs(s) BY <2>1, <2>9, <2>11 DEF SetToSeqs
  <2>14. Listed(f, s) BY <2>10, <2>12, <2>13
  <2> HIDE DEF Listed
  <2> QED BY <2>14
<1>4. Cardinality(S) \in T
  <2> HIDE DEF T
  <2>1. Cardinality(S) \in Nat BY <1>1
  <2>2. 0 .. Cardinality(S) \subseteq T BY <1>2, <1>3, <2>1, UpTo
  <2> QED BY <2>1, <2>2
<1>5. PICK f : Listed(f, S) BY <1>4
<1> QED BY <1>5

\* A route whose list of stations leads from its origin to its destination,
\* lists none twice, and has the ends of all the segments.
ListsItsWay(route) ==
    /\ route.origin # route.destination
    /\ route.stations # <<>>
    /\ route.stations[1] = route.origin /\ route.stations[Len(route.stations)] = route.destination
    /\ \A i, j \in DOMAIN route.stations : i # j => route.stations[i] # route.stations[j]
    /\ \A g \in Range(route.segments) : {g.from, g.to} \subseteq Range(route.stations)

\* The places of the stations that matter tell them apart; the ends have the
\* first and the last.
LEMMA PlacesOnTheWay ==
    ASSUME NEW route \in RouteCandidate, ListsItsWay(route)
    PROVE  /\ CriticalRouteStations(route) \subseteq Range(route.stations)
           /\ \A s \in Range(route.stations) :
                 /\ PlaceOf(route, s) \in 1 .. Len(route.stations)
                 /\ route.stations[PlaceOf(route, s)] = s
           /\ \A s \in Range(route.stations) :
                 /\ s # route.origin => PlaceOf(route, route.origin) < PlaceOf(route, s)
                 /\ s # route.destination => PlaceOf(route, s) < PlaceOf(route, route.destination)
<1> DEFINE way == route.stations
           n == Len(way)
<1>1. n \in Nat /\ DOMAIN way = 1 .. n /\ 1 \in 1 .. n /\ n \in 1 .. n
  <2>1. way \in Seq(Station) BY DEF RouteCandidate
  <2>2. way # <<>> BY DEF ListsItsWay
  <2> QED BY <2>1, <2>2
<1>2. route.origin \in Range(way) /\ route.destination \in Range(way)
  BY <1>1 DEF ListsItsWay, Range
<1>3. CriticalRouteStations(route) \subseteq Range(way)
  <2>1. CriticalRouteStations(route) = ElevatorCheckStations(route) BY SameStations
  <2>2. \A i \in DOMAIN route.segments : route.segments[i] \in Range(route.segments) BY DEF Range
  <2>3. TransferPoints(route) \subseteq UNION {{g.from, g.to} : g \in Range(route.segments)}
    BY <2>2 DEF TransferPoints
  <2>4. UNION {{g.from, g.to} : g \in Range(route.segments)} \subseteq Range(way) BY DEF ListsItsWay
  <2> QED BY <1>2, <2>1, <2>3, <2>4 DEF ElevatorCheckStations
<1>4. ASSUME NEW i \in 1 .. n PROVE PlaceOf(route, way[i]) = i
  <2>1. way[i] \in Range(way) BY <1>1 DEF Range
  <2>2. {j \in 1 .. n : way[j] = way[i]} = {i} BY <1>1 DEF ListsItsWay
  <2>3. Max({i}) = i BY DEF Max
  <2>4. PlaceOf(route, way[i]) = Max({j \in 1 .. n : way[j] = way[i]})
    BY <2>1, <2>2 DEF PlaceOf, SelectLastInSeq
  <2> QED BY <2>2, <2>3, <2>4
<1>5. \A s \in Range(way) : \E i \in 1 .. n : way[i] = s BY <1>1 DEF Range
<1>6. \A s \in Range(way) : PlaceOf(route, s) \in 1 .. n /\ way[PlaceOf(route, s)] = s BY <1>4, <1>5
<1>7. PlaceOf(route, route.origin) = 1 /\ PlaceOf(route, route.destination) = n
  BY <1>1, <1>4 DEF ListsItsWay
<1>8. ASSUME NEW s \in Range(way)
      PROVE  /\ s # route.origin => PlaceOf(route, s) # 1
             /\ s # route.destination => PlaceOf(route, s) # n
  BY <1>6 DEF ListsItsWay
<1>9. ASSUME NEW s \in Range(way)
      PROVE  /\ s # route.origin => 1 < PlaceOf(route, s)
             /\ s # route.destination => PlaceOf(route, s) < n
  <2>1. PlaceOf(route, s) \in 1 .. n BY <1>6
  <2> QED BY <1>1, <1>8, <2>1
<1> QED BY <1>3, <1>6, <1>7, <1>9

\* The stops of the way that is told: all the stations that matter, each once,
\* from the origin to the destination, and the others are changes.
LEMMA WayIs ==
    ASSUME NEW route \in RouteCandidate, ListsItsWay(route)
    PROVE  LET way == RecommendedRoute(route)
           IN  /\ way[1][1] = route.origin /\ way[Len(way)][1] = route.destination
               /\ Range(way) = {<<s, s \notin {route.origin, route.destination}>> : s \in CriticalRouteStations(route)}
<1> DEFINE C == CriticalRouteStations(route)
           ends == {route.origin, route.destination}
           n == Cardinality(C)
           stops == CHOOSE f \in SetToSeqs(C) :
                       \A i, j \in DOMAIN f : i < j => PlaceOf(route, f[i]) <= PlaceOf(route, f[j])
           all == [i \in DOMAIN stops |-> <<stops[i], stops[i] \notin ends>>]
<1>1. RecommendedRoute(route) = IF Len(stops) <= 2 THEN <<<<route.origin, FALSE>>, <<route.destination, FALSE>>>>
                                ELSE all
  BY DEF RecommendedRoute
<1>2. C = ElevatorCheckStations(route) BY SameStations
<1>3. IsFiniteSet(C) /\ n \in Nat
  <2>1. C \subseteq Station BY <1>2, StationsOfRoute
  <2>2. IsFiniteSet(Station) BY RequestAssumption
  <2> QED BY <2>1, <2>2, FS_Subset, FS_CardinalityType
<1>4. ends \subseteq C /\ route.origin # route.destination BY <1>2 DEF ElevatorCheckStations, ListsItsWay
<1>5. \A s \in C : s \in Range(route.stations) /\ PlaceOf(route, s) \in Nat
  <2>1. C \subseteq Range(route.stations) BY PlacesOnTheWay
  <2>2. \A s \in Range(route.stations) : PlaceOf(route, s) \in 1 .. Len(route.stations) BY PlacesOnTheWay
  <2> QED BY <2>1, <2>2
<1> HIDE DEF C
<1>6. stops \in SetToSeqs(C) /\ \A i, j \in DOMAIN stops : i < j => PlaceOf(route, stops[i]) <= PlaceOf(route, stops[j])
  <2> DEFINE key == [s \in C |-> PlaceOf(route, s)]
  <2>1. key \in [C -> Nat] BY <1>5
  <2>2. PICK f \in SetToSeqs(C) : \A i, j \in DOMAIN f : i < j => key[f[i]] <= key[f[j]]
    <3> HIDE DEF key
    <3> QED BY <1>3, <2>1, Listing
  <2>3. f \in [1 .. n -> C] BY <2>2 DEF SetToSeqs
  <2>4. \A i \in DOMAIN f : key[f[i]] = PlaceOf(route, f[i]) BY <2>3
  <2>5. \A i, j \in DOMAIN f : i < j => PlaceOf(route, f[i]) <= PlaceOf(route, f[j]) BY <2>2, <2>4
  <2> QED BY <2>2, <2>5
<1> HIDE DEF stops
<1>7. stops \in [1 .. n -> C] /\ \A i, j \in 1 .. n : i # j => stops[i] # stops[j]
  BY <1>6 DEF SetToSeqs
<1>8. \A s \in C : \E i \in 1 .. n : stops[i] = s
  <2>1. stops \in Injection(1 .. n, C) BY <1>7 DEF Injection, IsInjective
  <2>2. Cardinality(1 .. n) = n /\ IsFiniteSet(1 .. n) BY <1>3, FS_Interval
  <2>3. stops \in Surjection(1 .. n, C) BY <1>3, <2>1, <2>2, FS_Injection
  <2> QED BY <2>3 DEF Surjection
<1>9. stops \in Seq(C) /\ Len(stops) = n BY <1>3, <1>7
<1>10. ASSUME n <= 2 PROVE C = ends
  <2>1. Cardinality(C \ {route.origin}) = n - 1 /\ IsFiniteSet(C \ {route.origin})
    BY <1>3, <1>4, FS_RemoveElement
  <2>2. route.destination \in C \ {route.origin} BY <1>4
  <2> DEFINE others == (C \ {route.origin}) \ {route.destination}
  <2>3. Cardinality(others) = n - 1 - 1 /\ IsFiniteSet(others)
    BY <2>1, <2>2, FS_RemoveElement
  <2>4. Cardinality(others) \in Nat BY <2>3, FS_CardinalityType
  <2>5. Cardinality(others) = 0 BY <1>3, <1>10, <2>3, <2>4
  <2>6. others = {} BY <2>3, <2>5, FS_EmptySet
  <2> QED BY <1>4, <2>6
<1>11. CASE n <= 2
  <2> DEFINE way == <<<<route.origin, FALSE>>, <<route.destination, FALSE>>>>
  <2>1. RecommendedRoute(route) = way BY <1>1, <1>9, <1>11
  <2>2. Len(way) = 2 /\ way[1][1] = route.origin /\ way[2][1] = route.destination OBVIOUS
  <2>3. Range(way) = {<<route.origin, FALSE>>, <<route.destination, FALSE>>}
    <3>1. DOMAIN way = 1 .. 2 OBVIOUS
    <3>2. \A i : i \in 1 .. 2 <=> i = 1 \/ i = 2 OBVIOUS
    <3>3. way[1] = <<route.origin, FALSE>> /\ way[2] = <<route.destination, FALSE>> OBVIOUS
    <3> HIDE DEF way
    <3> QED BY <3>1, <3>2, <3>3 DEF Range
  <2>4. {<<s, s \notin ends>> : s \in ends} = {<<route.origin, FALSE>>, <<route.destination, FALSE>>}
    <3>1. (route.origin \notin ends) = FALSE /\ (route.destination \notin ends) = FALSE OBVIOUS
    <3> QED BY <3>1
  <2> QED BY <1>10, <1>11, <2>1, <2>2, <2>3, <2>4 DEF C
<1>12. CASE ~(n <= 2)
  <2>1. RecommendedRoute(route) = all BY <1>1, <1>9, <1>12
  <2>2. /\ DOMAIN all = 1 .. n /\ Len(all) = n
        /\ \A i \in 1 .. n : all[i] = <<stops[i], stops[i] \notin ends>> /\ all[i][1] = stops[i]
    <3>1. DOMAIN all = 1 .. n BY <1>7
    <3>2. Len(all) = n BY <1>3, <3>1
    <3> QED BY <3>1, <3>2
  <2>3. Range(all) = {<<s, s \notin ends>> : s \in C}
    <3>1. Range(all) = {all[i] : i \in 1 .. n} BY <2>2 DEF Range
    <3>2. \A i \in 1 .. n : stops[i] \in C BY <1>7
    <3> HIDE DEF all, ends
    <3>3. {all[i] : i \in 1 .. n} = {<<stops[i], stops[i] \notin ends>> : i \in 1 .. n} BY <2>2
    <3>4. {<<stops[i], stops[i] \notin ends>> : i \in 1 .. n} = {<<s, s \notin ends>> : s \in C}
      BY <1>8, <3>2
    <3> QED BY <3>1, <3>3, <3>4
  <2>4. 1 \in 1 .. n /\ n \in 1 .. n BY <1>3, <1>12
  <2>5. stops[1] = route.origin
    <3>1. SUFFICES ASSUME stops[1] # route.origin PROVE FALSE OBVIOUS
    <3>2. PICK i \in 1 .. n : stops[i] = route.origin BY <1>4, <1>8
    <3>3. 1 < i BY <3>1, <3>2
    <3>4. PlaceOf(route, stops[1]) <= PlaceOf(route, route.origin) BY <1>6, <1>7, <2>4, <3>2, <3>3
    <3>5. stops[1] \in C /\ route.origin \in C BY <1>4, <1>7, <2>4
    <3>6. PlaceOf(route, route.origin) < PlaceOf(route, stops[1]) BY <1>5, <3>1, <3>5, PlacesOnTheWay
    <3> QED BY <1>5, <3>4, <3>5, <3>6
  <2>6. stops[n] = route.destination
    <3>1. SUFFICES ASSUME stops[n] # route.destination PROVE FALSE OBVIOUS
    <3>2. PICK i \in 1 .. n : stops[i] = route.destination BY <1>4, <1>8
    <3>3. i < n BY <1>3, <3>1, <3>2
    <3>4. PlaceOf(route, route.destination) <= PlaceOf(route, stops[n]) BY <1>6, <1>7, <2>4, <3>2, <3>3
    <3>5. stops[n] \in C /\ route.destination \in C BY <1>4, <1>7, <2>4
    <3>6. PlaceOf(route, stops[n]) < PlaceOf(route, route.destination) BY <1>5, <3>1, <3>5, PlacesOnTheWay
    <3> QED BY <1>5, <3>4, <3>5, <3>6
  <2> HIDE DEF all
  <2> QED BY <2>1, <2>2, <2>3, <2>4, <2>5, <2>6 DEF C
<1> QED BY <1>11, <1>12

\* Every route the source may return lists its way.
WayListed == \A q \in Requests : \A list \in RouteLists[q] : \A r \in list : ListsItsWay(r)

\* In the invariant, the way that is told is that of the checks.
LEMMA TripWay == WayListed /\ IInv => WayAgrees
<1> SUFFICES ASSUME WayListed, IInv, Judged PROVE WayAgrees BY DEF WayAgrees
<1> DEFINE route == TheRoute
           ends == {route.origin, route.destination}
           way == RecommendedRoute(route)
           E == ElevatorCheckStations(route)
<1>1. route \in routes /\ route \in RouteCandidate BY TheAnswer
<1>2. ListsItsWay(route) BY <1>1 DEF WayListed, IInv, CallInv, RoutesInv
<1>3. way[1][1] = route.origin /\ way[Len(way)][1] = route.destination BY <1>1, <1>2, WayIs
<1>4. Range(way) = {<<s, s \notin ends>> : s \in E} BY <1>1, <1>2, WayIs, SameStations
<1>5. /\ {c.station : c \in answer.checks} = E
      /\ \A s \in E : \E c \in answer.checks : c.station = s /\ c.role = StationRole(route, s)
      /\ \A c \in answer.checks : c.station \in E /\ c.role = StationRole(route, c.station)
  <2>1. answer.checks = {CheckAt(s) : s \in E} /\ \A s : CheckAt(s).station = s BY ChecksAre
  <2>2. \A s : CheckAt(s).role = StationRole(route, s) BY DEF CheckAt, Check
  <2> HIDE DEF E, route
  <2> QED BY <2>1, <2>2
<1>6. \A s \in E : s \notin ends => StationRole(route, s) = "transfer"
  BY DEF StationRole, ElevatorCheckStations
<1> HIDE DEF way, E, route, ends
<1>7. /\ \A x \in Range(way) : x[1] \in E /\ (x[2] <=> x[1] \notin ends)
      /\ \A s \in E : \E x \in Range(way) : x[1] = s
  <2>1. \A s \in E : <<s, s \notin ends>>[1] = s /\ (<<s, s \notin ends>>[2] <=> s \notin ends) BY Zenon
  <2> QED BY <1>4, <2>1, Zenon
<1>8. {x[1] : x \in Range(way)} = E /\ {x[1] : x \in {x \in Range(way) : x[2]}} = E \ ends
  BY <1>7, Zenon
<1>9. {c.station : c \in {c \in answer.checks : c.role = "transfer"}} \ ends = E \ ends
  BY <1>5, <1>6
<1> QED BY <1>3, <1>5, <1>8, <1>9 DEF WayAgrees, way, ends, route

\* The way the message tells leads from the first station to the last, and has
\* the stations the checks are made at, the changes marked
\* (user_message_decision.py and user_message_accessibility.py).
THEOREM WayAlwaysAgrees == WayListed => (Spec => []WayAgrees)
<1> SUFFICES ASSUME WayListed PROVE Spec => []WayAgrees OBVIOUS
<1>1. IInv => WayAgrees BY TripWay
<1> QED BY <1>1, TripInvariant, PTL

\* The parts of the message, each made by a rule of its own, fit each other.
THEOREM PartsAlwaysAgree == WayListed => (Spec => []PartsAgree)
<1> SUFFICES ASSUME WayListed PROVE Spec => []PartsAgree OBVIOUS
<1>1. IInv => PartsAgree BY TripSummary, TripWay, TripPoints, TripAnotherWay DEF PartsAgree
<1> QED BY <1>1, TripInvariant, PTL
=============================================================================
