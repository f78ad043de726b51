---------------------------- MODULE LookupsProofs ----------------------------
(***************************************************************************)
(* What the proofs about trips and about questions share: induction over   *)
(* the natural numbers, two facts about finite sets, and what the result   *)
(* of one lookup says of how it ended.                                     *)
(***************************************************************************)
EXTENDS Lookups, SequencesExt, WellFoundedInduction, FiniteSetTheorems, TLAPS

-----------------------------------------------------------------------------
(* Induction, stated about sets.  The induction theorems of the library    *)
(* take a predicate as an operator; these lemmas rest on the order of the  *)
(* naturals being well-founded, which it states about a set of pairs.      *)

\* A set of natural numbers that is not empty has a smallest one.
LEMMA NatMin ==
    ASSUME NEW T, T \subseteq Nat, T # {}
    PROVE  \E n \in T : \A m \in T : n <= m
<1>1. \E x \in T : \A y \in T : ~ (<<y, x>> \in OpToRel(<, Nat))
  BY WFMin, NatLessThanWellFounded
<1>2. OpToRel(<, Nat) = {ss \in Nat \X Nat : ss[1] < ss[2]}
  BY Zenon DEF OpToRel
<1>3. \E x \in T : \A y \in T : <<y, x>> \notin {ss \in Nat \X Nat : ss[1] < ss[2]}
  BY Zenon, <1>1, <1>2
<1>4. PICK x \in T : \A y \in T : <<y, x>> \notin {ss \in Nat \X Nat : ss[1] < ss[2]}
  BY <1>3
<1>5. ASSUME NEW y \in T PROVE x <= y
  <2>1. <<y, x>> \in Nat \X Nat BY <1>4
  <2>2. ~ (y < x) BY <1>4, <2>1
  <2> QED BY <2>1, <2>2
<1> QED BY <1>4, <1>5

\* A set with 0 that has the successor of each of its numbers below n has
\* every number up to n.
LEMMA UpTo ==
    ASSUME NEW n \in Nat, NEW T, 0 \in T,
           \A m \in 0 .. n - 1 : m \in T => m + 1 \in T
    PROVE  0 .. n \subseteq T
<1>1. SUFFICES ASSUME (0 .. n) \ T # {} PROVE FALSE OBVIOUS
<1>2. PICK m \in (0 .. n) \ T : \A k \in (0 .. n) \ T : m <= k
  <2>1. (0 .. n) \ T \subseteq Nat OBVIOUS
  <2> QED BY <1>1, <2>1, NatMin
<1>3. m # 0 BY <1>2
<1>4. m - 1 \in 0 .. n - 1 BY <1>3
<1>5. m - 1 \in T BY <1>2, <1>4
<1>6. (m - 1) + 1 \in T BY <1>4, <1>5
<1> QED BY <1>2, <1>6

-----------------------------------------------------------------------------
(* Finite sets.                                                            *)

\* A finite set has a finite image.
LEMMA ImageIsFinite ==
    ASSUME NEW f, IsFiniteSet(DOMAIN f)
    PROVE  IsFiniteSet({f[x] : x \in DOMAIN f})
<1> DEFINE g == [x \in DOMAIN f |-> f[x]]
           T == {f[x] : x \in DOMAIN f}
<1>1. g \in Surjection(DOMAIN f, T) BY DEF Surjection
<1> HIDE DEF g, T
<1> QED BY <1>1, FS_Surjection DEF T

\* Of a finite set the sequence of its elements has all of them.
LEMMA SetToSeqIs ==
    ASSUME NEW S, IsFiniteSet(S)
    PROVE  SetToSeq(S) \in Seq(S) /\ Range(SetToSeq(S)) = S
<1> DEFINE n == Cardinality(S)
           f == SetToSeq(S)
<1>1. n \in Nat /\ ExistsBijection(1 .. n, S) BY FS_CardinalityType
<1>2. PICK g : g \in Bijection(1 .. n, S) BY <1>1 DEF ExistsBijection
<1>3. g \in [1 .. n -> S] /\ IsInjective(g) BY <1>2 DEF Bijection, Injection
<1>4. f \in [1 .. n -> S] /\ IsInjective(f) BY <1>3 DEF SetToSeq
<1> HIDE DEF f
<1>5. f \in Injection(1 .. n, S) BY <1>4 DEF Injection
<1>6. Cardinality(1 .. n) = n /\ IsFiniteSet(1 .. n) BY <1>1, FS_Interval
<1>7. f \in Surjection(1 .. n, S) BY <1>5, <1>6, FS_Injection
<1>8. Range(f) = S BY <1>4, <1>7 DEF Surjection, Range
<1>9. f \in Seq(S) BY <1>1, <1>4
<1> QED BY <1>8, <1>9 DEF f

-----------------------------------------------------------------------------
(* One lookup.                                                             *)

\* A lookup that did not fail and is inside the coverage has what the source
\* holds for the line; one whose value is not what the source holds says so.
LookupSays(result, name, now, known) ==
    /\ \E m : /\ result.sources = {m} /\ m.name = name
              /\ m.unsupported => result.value = {} /\ result.failed = {}
              /\ ~m.unsupported /\ ~m.stale /\ m.success => result.value = now
              /\ ~m.stale => result.value \subseteq now
              /\ ~m.unsupported /\ result.failed = {} => m.success /\ ~m.stale
              /\ m.stale => result.failed = {name}
              /\ m.unsupported \/ m.stale => ~m.success
              /\ ~m.unsupported => (m.success <=> result.failed = {})
    /\ result.failed \subseteq {name}
    /\ \A f \in result.value : f.source = name
    /\ result.value \subseteq known

LEMMA LookupEnds ==
    ASSUME NEW name, NEW s, NEW line, NEW outcome \in {"ok", "stale", "failed"}, NEW held, NEW old
    PROVE  LookupSays(Lookup(name, s, line, outcome, held, old), name,
                      Rows(name, held, Resolve(s, line).line), held \cup old)
<1> USE DEF LookupSays
<1>1. CASE Resolve(s, line).matched /\ <<name, s, Resolve(s, line).line>> \in Uncovered
  <2> DEFINE m == Meta(name, FALSE, FALSE, TRUE)
             result == Lookup(name, s, line, outcome, held, old)
  <2>1. result = [Nothing EXCEPT !.sources = {m}] BY <1>1 DEF Lookup
  <2>2. result.value = {} /\ result.sources = {m} /\ result.failed = {} BY <2>1 DEF Nothing
  <2>3. m.name = name /\ m.unsupported = TRUE /\ m.success = FALSE /\ m.stale = FALSE BY DEF Meta
  <2> HIDE DEF m, result
  <2>4. {} \subseteq Rows(name, held, Resolve(s, line).line) OBVIOUS
  <2> QED BY <2>2, <2>3, <2>4 DEF result
<1>2. CASE ~(Resolve(s, line).matched /\ <<name, s, Resolve(s, line).line>> \in Uncovered)
  <2> DEFINE now == Rows(name, held, Resolve(s, line).line)
             then == Rows(name, old, Resolve(s, line).line)
             result == Lookup(name, s, line, outcome, held, old)
             m == Meta(name, outcome = "ok", outcome = "stale", FALSE)
  <2>1. /\ \A f \in now \cup then : f.source = name
        /\ now \subseteq held /\ then \subseteq old
    BY DEF Rows
  <2>2. result = Read(name, outcome, now, then) BY <1>2 DEF Lookup
  <2> HIDE DEF now, then
  <2>3. /\ result.sources = {m}
        /\ result.failed = IF outcome = "ok" THEN {} ELSE {name}
        /\ result.value = CASE outcome = "ok" -> now [] outcome = "stale" -> then [] OTHER -> {}
    BY <2>2 DEF Read
  <2>4. /\ m.name = name /\ m.success = (outcome = "ok") /\ m.stale = (outcome = "stale")
        /\ m.unsupported = FALSE
    BY DEF Meta
  <2> HIDE DEF m, result
  <2>5. CASE outcome = "ok" BY <2>1, <2>3, <2>4, <2>5 DEF now, result
  <2>6. CASE outcome = "stale" BY <2>1, <2>3, <2>4, <2>6 DEF now, result
  <2>7. CASE outcome = "failed" BY <2>1, <2>3, <2>4, <2>7 DEF now, result
  <2> QED BY <2>5, <2>6, <2>7
<1> QED BY <1>1, <1>2

\* What a lookup returns is of its source and for its line.
LEMMA LookupRows ==
    ASSUME NEW name, NEW s, NEW line, NEW outcome \in {"ok", "stale", "failed"}, NEW held, NEW old
    PROVE  Lookup(name, s, line, outcome, held, old).value
              \subseteq Rows(name, held \cup old, Resolve(s, line).line)
<1> DEFINE now == Rows(name, held, Resolve(s, line).line)
           then == Rows(name, old, Resolve(s, line).line)
<1>1. now \cup then \subseteq Rows(name, held \cup old, Resolve(s, line).line) BY DEF Rows
<1> HIDE DEF now, then
<1>2. Read(name, outcome, now, then).value \subseteq now \cup then BY DEF Read
<1>3. [Nothing EXCEPT !.sources = {Meta(name, FALSE, FALSE, TRUE)}].value = {} BY DEF Nothing
<1>4. \/ Lookup(name, s, line, outcome, held, old) = [Nothing EXCEPT !.sources = {Meta(name, FALSE, FALSE, TRUE)}]
      \/ Lookup(name, s, line, outcome, held, old) = Read(name, outcome, now, then)
  BY DEF Lookup, now, then
<1> QED BY <1>1, <1>2, <1>3, <1>4

\* Where a source does not cover the station, its lookup says so, and only there.
LEMMA LookupOutside ==
    ASSUME NEW name, NEW s, NEW line, NEW outcome, NEW held, NEW old,
           NEW m \in Lookup(name, s, line, outcome, held, old).sources
    PROVE  m.unsupported <=> Resolve(s, line).matched /\ <<name, s, Resolve(s, line).line>> \in Uncovered
<1> DEFINE outside == Resolve(s, line).matched /\ <<name, s, Resolve(s, line).line>> \in Uncovered
           now == Rows(name, held, Resolve(s, line).line)
           then == Rows(name, old, Resolve(s, line).line)
<1>1. CASE outside
  <2>1. Lookup(name, s, line, outcome, held, old) = [Nothing EXCEPT !.sources = {Meta(name, FALSE, FALSE, TRUE)}]
    BY <1>1 DEF Lookup
  <2>2. m = Meta(name, FALSE, FALSE, TRUE) BY <2>1 DEF Nothing
  <2> QED BY <1>1, <2>2 DEF Meta
<1>2. CASE ~outside
  <2>1. Lookup(name, s, line, outcome, held, old) = Read(name, outcome, now, then) BY <1>2 DEF Lookup
  <2>2. m = Meta(name, outcome = "ok", outcome = "stale", FALSE) BY <2>1 DEF Read
  <2> QED BY <1>2, <2>2 DEF Meta
<1> QED BY <1>1, <1>2
=============================================================================
