-------------------------- MODULE PagedFetchProofs --------------------------
(***************************************************************************)
(* What a fetch of the elevator status guarantees for any number of        *)
(* fetches, rows, retries and permits.                                     *)
(*                                                                         *)
(* IInv says which states of the calls go with which state of the fetch,   *)
(* and what a call has made of its requests.  The counters are then one    *)
(* step of counting (CountFits); the rows need that every page has those   *)
(* of its range (RowsInv); and the pages of a fetch are the jobs of        *)
(* GatherLimited under the mapping the model states.                       *)
(***************************************************************************)
EXTENDS PagedFetch, WellFoundedInduction, FiniteSetTheorems, SequenceTheorems, TLAPS

-----------------------------------------------------------------------------
(* Induction, stated about sets as in LookupsProofs: the theorems of the   *)
(* library take a predicate as an operator.                                *)

\* A set of natural numbers that is not empty has a smallest one.
LEMMA NatMin ==
    ASSUME NEW T, T \subseteq Nat, T # {}
    PROVE  \E n \in T : \A m \in T : n <= m
<1>1. \E x \in T : \A y \in T : ~ (<<y, x>> \in OpToRel(<, Nat))
  BY WFMin, NatLessThanWellFounded
<1>2. OpToRel(<, Nat) = {ss \in Nat \X Nat : ss[1] < ss[2]}
  BY Zenon DEF OpToRel
<1>3. \E x \in T : \A y \in T : <<y, x>> \notin {ss \in Nat \X Nat : ss[1] < ss[2]}
  BY Zenon, <1>1, <1>2
<1>4. PICK x \in T : \A y \in T : <<y, x>> \notin {ss \in Nat \X Nat : ss[1] < ss[2]}
  BY <1>3
<1>5. ASSUME NEW y \in T PROVE x <= y
  <2>1. <<y, x>> \in Nat \X Nat BY <1>4
  <2>2. ~ (y < x) BY <1>4, <2>1
  <2> QED BY <2>1, <2>2
<1> QED BY <1>4, <1>5

\* A set with 0 that has the successor of each of its numbers below n has
\* every number up to n.
LEMMA UpTo ==
    ASSUME NEW n \in Nat, NEW T, 0 \in T,
           \A m \in 0 .. n - 1 : m \in T => m + 1 \in T
    PROVE  0 .. n \subseteq T
<1>1. SUFFICES ASSUME (0 .. n) \ T # {} PROVE FALSE OBVIOUS
<1>2. PICK m \in (0 .. n) \ T : \A k \in (0 .. n) \ T : m <= k
  <2>1. (0 .. n) \ T \subseteq Nat OBVIOUS
  <2> QED BY <1>1, <2>1, NatMin
<1>3. m # 0 BY <1>2
<1>4. m - 1 \in 0 .. n - 1 BY <1>3
<1>5. m - 1 \in T BY <1>2, <1>4
<1>6. (m - 1) + 1 \in T BY <1>4, <1>5
<1> QED BY <1>2, <1>6

-----------------------------------------------------------------------------
(* The inductive invariant. *)

\* Which states of the calls go with which state of a fetch: the further pages
\* are called once the first one has come in, as many as its total asks for.
PhaseFits ==
    \A f \in Fetch :
        /\ call[f][0] # "queued"
        /\ phase[f] = "idle" => call[f][0] = "none"
        /\ phase[f] = "first" <=> call[f][0] \in Pending
        /\ phase[f] \in {"paging", "returned"} => call[f][0] = "ok"
        /\ phase[f] = "paging" => FurtherPages(total[f]) > 0
        /\ phase[f] = "paging" => \A p \in Further : call[f][p] # "cancelled"
        /\ IF call[f][0] = "ok"
           THEN \A p \in Further : call[f][p] = "none" <=> p > FurtherPages(total[f])
           ELSE \A p \in Further : call[f][p] = "none"

\* A total never tells more rows than were ever listed.
TotalsAreCounts ==
    /\ source.first <= source.last + 1
    /\ \A f \in Fetch : total[f] # None => total[f] <= MaxRows
    /\ source.first = 1 => \A f \in Fetch : total[f] # None => total[f] <= source.last

\* What a call has made of its requests.
CallFits ==
    \A f \in Fetch, p \in Page :
        /\ call[f][p] = "ok" <=> page[f][p] # None
        /\ call[f][p] = "failed" <=> reason[f][p] # None
        /\ call[f][p] \in {"none", "queued"} => attempt[f][p] = 0
        /\ call[f][p] = "calling" => attempt[f][p] > 0
        /\ call[f][p] = "backoff" => attempt[f][p] \in 1 .. Retries
        /\ reason[f][p] \in Transient => attempt[f][p] = Retries + 1

ResultFits == \A f \in Fetch : result[f] # None <=> phase[f] = "returned"

IInv ==
    /\ TypeOK
    /\ PhaseFits
    /\ TotalsAreCounts
    /\ CallFits
    /\ ResultFits
    /\ ErrorAfterLastAttempt

-----------------------------------------------------------------------------
(* Pages and rows. *)

\* The pages are numbered from zero and finitely many.
LEMMA PageNumbers ==
    /\ PageSize \in Nat \ {0}
    /\ \E N \in Nat : Page = 0 .. N /\ Further = 1 .. N
    /\ 0 \in Page
    /\ Page \subseteq Nat
BY PagingAssumption DEF PageSize, Page, Further

\* A product grows with its first factor.
LEMMA TimesMonotonic ==
    ASSUME NEW a \in Int, NEW b \in Int, NEW c \in Nat, a <= b
    PROVE  a * c <= b * c
<1>1. (b - a) * c \in Nat OBVIOUS
<1>2. (b - a) * c = b * c - a * c OBVIOUS
<1> QED BY <1>1, <1>2

\* The further pages reach exactly as far as the last of n rows.
LEMMA PageCount ==
    ASSUME NEW n \in Nat
    PROVE  /\ FurtherPages(n) \in Nat
           /\ FurtherPages(n) = 0 <=> n <= EndIndex
           /\ n > EndIndex => /\ FirstRow(FurtherPages(n)) <= n
                              /\ n <= FirstRow(FurtherPages(n)) + PageSize - 1
<1> DEFINE a == n - EndIndex - 1
           q == a \div PageSize
<1> n # None BY NoneAssumption
<1>1. CASE n <= EndIndex BY <1>1, PagingAssumption DEF FurtherPages
<1>2. CASE n > EndIndex
  <2>1. a \in Nat BY <1>2, PagingAssumption
  <2>2. q \in Nat /\ q * PageSize <= a /\ a < q * PageSize + PageSize
    BY <2>1, PageNumbers, SMTT(30)
  <2>3. FurtherPages(n) = (a + PageSize) \div PageSize
    BY <1>2, PagingAssumption, PageNumbers DEF FurtherPages
  <2>4. (a + PageSize) \div PageSize = q + 1
    <3> DEFINE r == (a + PageSize) \div PageSize
    <3>1. r \in Nat /\ r * PageSize <= a + PageSize /\ a < r * PageSize
      BY <2>1, PageNumbers, SMTT(30)
    <3> HIDE DEF q, r, a
    <3>2. (q + 1) * PageSize = q * PageSize + PageSize BY <2>2, PageNumbers
    <3>3. r <= q + 1
      <4> SUFFICES ASSUME q + 2 <= r PROVE FALSE BY <2>2, <3>1
      <4>1. (q + 2) * PageSize <= r * PageSize BY <2>2, <3>1, PageNumbers, TimesMonotonic
      <4>2. (q + 2) * PageSize = q * PageSize + PageSize + PageSize BY <2>2, PageNumbers
      <4> QED BY <2>1, <2>2, <3>1, <4>1, <4>2, PageNumbers
    <3>4. q < r
      <4> SUFFICES ASSUME r <= q PROVE FALSE BY <2>2, <3>1
      <4>1. r * PageSize <= q * PageSize BY <2>2, <3>1, PageNumbers, TimesMonotonic
      <4> QED BY <2>1, <2>2, <3>1, <4>1, PageNumbers
    <3> QED BY <2>2, <3>1, <3>3, <3>4 DEF r
  <2> QED BY <1>2, <2>1, <2>2, <2>3, <2>4, PagingAssumption, PageNumbers DEF FirstRow
<1> QED BY <1>1, <1>2, PagingAssumption

\* What the source lists of a range is a sequence of its rows.
LEMMA ListedRows ==
    ASSUME TypeOK, source.first <= source.last + 1, NEW a \in Nat \ {0}, NEW b \in Int
    PROVE  Listed(a, b) \in Rows
<1> DEFINE n == (IF b < Count THEN b ELSE Count) - a + 1
<1>1. source.first \in 1 .. MaxRows + 1 /\ source.last \in 0 .. MaxRows BY DEF TypeOK
<1>2. Count \in Nat BY <1>1, PagingAssumption DEF Count
<1>3. n \in Int BY <1>2
<1>4. ASSUME NEW i \in 1 .. n PROVE source.first + a + i - 2 \in 1 .. MaxRows
  <2>1. i + a - 1 <= Count BY <1>2
  <2> QED BY <1>1, <2>1, PagingAssumption DEF Count
<1>5. \E m \in Nat : 1 .. n = 1 .. m
  <2>1. CASE n \in Nat BY <2>1
  <2>2. CASE n < 0
    <3>1. 1 .. n = 1 .. 0 BY <1>3, <2>2
    <3> QED BY <3>1
  <2> QED BY <1>3, <2>1, <2>2
<1>6. PICK m \in Nat : 1 .. n = 1 .. m BY <1>5
<1>7. Listed(a, b) = [i \in 1 .. n |-> source.first + a + i - 2] BY DEF Listed
<1>8. Listed(a, b) \in [1 .. m -> 1 .. MaxRows] BY <1>4, <1>6, <1>7
<1> QED BY <1>8, SeqDef DEF Rows

-----------------------------------------------------------------------------
(* Merging the pages. *)

\* The definition of the merge by recursion over the pages has a solution.
LEMMA MergeExists ==
    ASSUME NEW pages
    PROVE  \E join : join = [p \in Page |-> IF p = 0 THEN pages[0]
                                          ELSE join[p - 1] \o pages[p]]
<1>1. PICK N \in Nat : Page = 0 .. N BY PageNumbers
<1> DEFINE Solves(join, n) ==
               join = [p \in 0 .. n |-> IF p = 0 THEN pages[0] ELSE join[p - 1] \o pages[p]]
           T == {n \in Nat : \E join : Solves(join, n)}
<1>2. 0 \in T
  <2> DEFINE j == [p \in 0 .. 0 |-> pages[0]]
  <2>1. Solves(j, 0) OBVIOUS
  <2> QED BY <2>1
<1>3. ASSUME NEW n \in 0 .. N - 1, n \in T PROVE n + 1 \in T
  <2>1. PICK g : Solves(g, n) BY <1>3
  <2> DEFINE h == [p \in 0 .. n + 1 |-> IF p <= n THEN g[p] ELSE g[n] \o pages[n + 1]]
  <2>2. ASSUME NEW p \in 0 .. n + 1
        PROVE  h[p] = IF p = 0 THEN pages[0] ELSE h[p - 1] \o pages[p]
    <3>1. CASE p = 0
      <4>1. h[0] = g[0] OBVIOUS
      <4>2. g[0] = pages[0] BY <2>1
      <4> QED BY <3>1, <4>1, <4>2
    <3>2. CASE p \in 1 .. n
      <4>1. h[p] = g[p] /\ h[p - 1] = g[p - 1] BY <3>2
      <4>2. p \in 0 .. n /\ p # 0 BY <3>2
      <4>3. g[p] = g[p - 1] \o pages[p] BY <2>1, <4>2
      <4> QED BY <4>1, <4>2, <4>3
    <3>3. CASE p = n + 1
      <4>1. h[p] = g[n] \o pages[n + 1] /\ h[p - 1] = g[n] BY <3>3
      <4> QED BY <3>3, <4>1
    <3> QED BY <3>1, <3>2, <3>3
  <2> HIDE DEF h
  <2>3. h = [p \in 0 .. n + 1 |-> h[p]] BY DEF h
  <2>4. Solves(h, n + 1) BY <2>2, <2>3
  <2> QED BY <2>4
<1>4. N \in T
  <2> HIDE DEF T
  <2>1. 0 .. N \subseteq T BY <1>2, <1>3, UpTo
  <2> QED BY <2>1
<1> QED BY <1>1, <1>4

\* Merging one page more appends its rows.
LEMMA Merging ==
    ASSUME NEW f \in Fetch
    PROVE  /\ Merged(f, 0) = page[f][0]
           /\ \A p \in Further : Merged(f, p) = Merged(f, p - 1) \o page[f][p]
<1> DEFINE pages == page[f]
           Solves(join) == join = [p \in Page |-> IF p = 0 THEN pages[0]
                                                 ELSE join[p - 1] \o pages[p]]
           j == CHOOSE join : Solves(join)
<1>1. \A n : Merged(f, n) = j[n] BY DEF Merged
<1>2. \E join : Solves(join)
  <2> HIDE DEF pages
  <2> QED BY MergeExists
<1>3. Solves(j)
  <2> HIDE DEF Solves
  <2> QED BY <1>2
<1> HIDE DEF j
<1>4. \A p \in Page : j[p] = IF p = 0 THEN pages[0] ELSE j[p - 1] \o pages[p] BY <1>3
<1> QED BY <1>1, <1>4, PageNumbers DEF Further

\* Pages that are sequences of rows merge to one.
LEMMA MergedRows ==
    ASSUME NEW f \in Fetch, NEW n \in Page, \A p \in 0 .. n : page[f][p] \in Rows
    PROVE  Merged(f, n) \in Rows
<1> DEFINE T == {p \in Nat : Merged(f, p) \in Rows}
<1>0. n \in Nat /\ 0 \in 0 .. n BY PageNumbers
<1>1. 0 \in T BY <1>0, Merging
<1>2. ASSUME NEW m \in 0 .. n - 1, m \in T PROVE m + 1 \in T
  <2>1. m + 1 \in Further /\ m + 1 \in 0 .. n
    BY PageNumbers
  <2>2. Merged(f, m + 1) = Merged(f, (m + 1) - 1) \o page[f][m + 1] BY Merging, <2>1
  <2>3. (m + 1) - 1 = m OBVIOUS
  <2>4. Merged(f, m) \in Rows /\ page[f][m + 1] \in Rows BY <1>2, <2>1
  <2>5. Merged(f, m) \o page[f][m + 1] \in Rows BY <2>4 DEF Rows
  <2>6. m + 1 \in Nat OBVIOUS
  <2> QED BY <2>2, <2>3, <2>5, <2>6
<1>3. 0 .. n \subseteq T
  <2> HIDE DEF T
  <2> QED BY <1>0, <1>1, <1>2, UpTo
<1> QED BY <1>0, <1>3

-----------------------------------------------------------------------------
(* The invariant holds initially and is preserved. *)

\* None is no number, reason or page, and asks for no further page.
LEMMA NoneIsNew ==
    /\ None \notin Nat
    /\ None \notin Reason
    /\ None \notin Rows
    /\ FurtherPages(None) = 0
BY NoneAssumption DEF FurtherPages

LEMMA InitIInv == Init => IInv
<1> SUFFICES ASSUME Init PROVE IInv OBVIOUS
<1>1. PICK n \in 0 .. MaxRows : source = [first |-> 1, last |-> n] BY DEF Init
<1>2. TypeOK BY <1>1, PagingAssumption, NoneIsNew DEF Init, TypeOK
<1>3. PhaseFits BY PageNumbers, NoneIsNew DEF Init, PhaseFits, Pending, Further
<1>4. TotalsAreCounts BY <1>1 DEF Init, TotalsAreCounts
<1>5. CallFits BY NoneIsNew DEF Init, CallFits, Reason
<1>6. ResultFits /\ ErrorAfterLastAttempt
  BY DEF Init, ResultFits, ErrorAfterLastAttempt
<1> QED BY <1>2, <1>3, <1>4, <1>5, <1>6 DEF IInv

\* A call that waits for its permit or its next attempt makes a request.
LEMMA SendIInv ==
    ASSUME IInv, NEW f \in Fetch, NEW p \in Page, Send(f, p),
           call[f][p] \in {"queued", "backoff"},
           UNCHANGED <<source, phase, total, page, error, reason, result, counted>>
    PROVE  IInv'
<1> USE DEF IInv
<1>1. TypeOK' BY PagingAssumption DEF TypeOK, Send, CallFits, Pending
<1>2. PhaseFits'
  BY DEF TypeOK, PhaseFits, Send, Pending, Further, FurtherPages
<1>3. TotalsAreCounts' BY DEF TotalsAreCounts
<1>4. CallFits'
  BY NoneIsNew, PagingAssumption DEF TypeOK, CallFits, Send, Transient, Reason
<1>5. ResultFits' BY DEF ResultFits
<1>6. ErrorAfterLastAttempt'
  BY DEF TypeOK, CallFits, ErrorAfterLastAttempt, Send
<1> QED BY <1>1, <1>2, <1>3, <1>4, <1>5, <1>6

LEMMA StartIInv ==
    ASSUME IInv, NEW f \in Fetch, Start(f)
    PROVE  IInv'
<1> USE DEF IInv
<1>0. call[f][0] = "none" BY DEF Start, PhaseFits
<1>1. TypeOK' BY <1>0, PagingAssumption, PageNumbers, SMTT(30) DEF TypeOK, Start, Send, CallFits, Pending
<1>2. PhaseFits'
  BY <1>0, PageNumbers, SMTT(30) DEF TypeOK, PhaseFits, Start, Send, Pending, Further, FurtherPages
<1>3. TotalsAreCounts' BY DEF Start, TotalsAreCounts
<1>4. CallFits'
  BY <1>0, PageNumbers, NoneIsNew, PagingAssumption, SMTT(60)
  DEF TypeOK, CallFits, Start, Send, Transient, Reason
<1>5. ResultFits' BY DEF TypeOK, Start, ResultFits
<1>6. ErrorAfterLastAttempt'
  BY <1>0, PageNumbers, SMTT(30) DEF TypeOK, CallFits, ErrorAfterLastAttempt, Start, Send
<1> QED BY <1>1, <1>2, <1>3, <1>4, <1>5, <1>6

\* Adding to one counter leaves the other one alone.
LEMMA CountsMove ==
    ASSUME counted \in [success : Nat, failure : Nat]
    PROVE  /\ [counted EXCEPT !.success = @ + 1] =
                  [success |-> counted.success + 1, failure |-> counted.failure]
           /\ [counted EXCEPT !.failure = @ + 1] =
                  [success |-> counted.success, failure |-> counted.failure + 1]
           /\ counted.success \in Nat /\ counted.failure \in Nat
OBVIOUS

LEMMA RetryIInv ==
    ASSUME IInv, NEW f \in Fetch, NEW p \in Page, call[f][p] = "calling",
           attempt[f][p] <= Retries, call' = [call EXCEPT ![f][p] = "backoff"],
           UNCHANGED <<source, phase, total, attempt, page, error, reason, result, counted>>
    PROVE  IInv'
<1> USE DEF IInv
<1>1. TypeOK' BY DEF TypeOK, Pending
<1>2. PhaseFits' BY DEF TypeOK, PhaseFits, Pending, Further, FurtherPages
<1>3. TotalsAreCounts' BY DEF TotalsAreCounts
<1>4. CallFits' BY PagingAssumption DEF TypeOK, CallFits
<1>5. ResultFits' BY DEF ResultFits
<1>6. ErrorAfterLastAttempt' BY DEF TypeOK, ErrorAfterLastAttempt
<1> QED BY <1>1, <1>2, <1>3, <1>4, <1>5, <1>6

LEMMA CallFailsIInv ==
    ASSUME IInv, NEW f \in Fetch, NEW p \in Page, call[f][p] = "calling",
           NEW r \in Reason, ~MayRetry(r, attempt[f][p]),
           call' = [call EXCEPT ![f][p] = "failed"],
           reason' = [reason EXCEPT ![f][p] = r],
           phase' = [phase EXCEPT ![f] = IF p = 0 THEN "raised" ELSE @],
           error' = [error EXCEPT ![f] = IF p = 0 THEN r ELSE @],
           counted' = [counted EXCEPT !.failure = @ + 1],
           UNCHANGED <<source, total, attempt, page, result>>
    PROVE  IInv'
<1> USE DEF IInv
<1>1. attempt[f][p] \in 1 .. Retries + 1 BY DEF TypeOK, CallFits
<1>2. r \in Transient => attempt[f][p] = Retries + 1
  BY <1>1, PagingAssumption DEF MayRetry
<1>3. TypeOK'
  <2>1. call' \in [Fetch -> [Page -> {"none", "queued"} \cup Pending \cup Ended]]
    BY DEF TypeOK, Ended
  <2>2. reason' \in [Fetch -> [Page -> Reason \cup {None}]]
    <3> DEFINE R == Reason \cup {None}
    <3>1. reason \in [Fetch -> [Page -> R]] /\ r \in R BY DEF TypeOK
    <3> HIDE DEF R
    <3>2. reason' \in [Fetch -> [Page -> R]] BY <3>1
    <3> QED BY <3>2 DEF R
  <2>3. phase' \in [Fetch -> {"idle", "first", "paging", "returned", "raised", "cancelled"}]
    BY DEF TypeOK
  <2>4. error' \in [Fetch -> Reason \cup {None}] BY DEF TypeOK
  <2>5. counted' \in [success : Nat, failure : Nat] BY CountsMove DEF TypeOK
  <2> QED BY <2>1, <2>2, <2>3, <2>4, <2>5 DEF TypeOK
<1>4. PhaseFits'
  BY DEF TypeOK, PhaseFits, Pending, Further, FurtherPages
<1>5. TotalsAreCounts' BY DEF TotalsAreCounts
<1>6. CallFits'
  BY <1>1, <1>2, NoneIsNew, PagingAssumption DEF TypeOK, CallFits
<1>7. ResultFits' BY DEF TypeOK, PhaseFits, Pending, ResultFits
<1>8. ErrorAfterLastAttempt'
  BY <1>2 DEF TypeOK, ErrorAfterLastAttempt, CallFits
<1> QED BY <1>3, <1>4, <1>5, <1>6, <1>7, <1>8

LEMMA AttemptFailsIInv ==
    ASSUME IInv, NEW f \in Fetch, NEW p \in Page, AttemptFails(f, p)
    PROVE  IInv'
<1>1. PICK r \in Reason :
        \/ /\ MayRetry(r, attempt[f][p])
           /\ call' = [call EXCEPT ![f][p] = "backoff"]
           /\ UNCHANGED <<phase, error, reason, counted>>
        \/ /\ ~MayRetry(r, attempt[f][p])
           /\ call' = [call EXCEPT ![f][p] = "failed"]
           /\ reason' = [reason EXCEPT ![f][p] = r]
           /\ counted' = [counted EXCEPT !.failure = @ + 1]
           /\ phase' = [phase EXCEPT ![f] = IF p = 0 THEN "raised" ELSE @]
           /\ error' = [error EXCEPT ![f] = IF p = 0 THEN r ELSE @]
  BY DEF AttemptFails
<1>2. call[f][p] = "calling" /\ UNCHANGED <<source, total, attempt, page, result>>
  BY DEF AttemptFails
<1>3. CASE MayRetry(r, attempt[f][p]) BY <1>1, <1>2, <1>3, RetryIInv DEF MayRetry
<1>4. CASE ~MayRetry(r, attempt[f][p]) BY <1>1, <1>2, <1>4, CallFailsIInv
<1> QED BY <1>3, <1>4


LEMMA FirstPageIInv ==
    ASSUME IInv, NEW f \in Fetch, FirstPage(f)
    PROVE  IInv'
<1> USE DEF IInv
<1>1. PICK n \in {None, Count} :
        /\ total' = [total EXCEPT ![f] = n]
        /\ \/ /\ FurtherPages(n) = 0
              /\ phase' = [phase EXCEPT ![f] = "returned"]
              /\ result' = [result EXCEPT ![f] = page'[f][0]]
              /\ call' = [call EXCEPT ![f][0] = "ok"]
           \/ /\ FurtherPages(n) > 0
              /\ phase' = [phase EXCEPT ![f] = "paging"]
              /\ call' = [call EXCEPT ![f] =
                            [p \in Page |->
                               IF p = 0 THEN "ok"
                               ELSE IF p <= FurtherPages(n) THEN "queued"
                               ELSE "none"]]
              /\ UNCHANGED result
  BY DEF FirstPage
<1> DEFINE rows == Listed(StartIndex, EndIndex)
<1>2. /\ call[f][0] = "calling"
      /\ page' = [page EXCEPT ![f][0] = rows]
      /\ counted' = [counted EXCEPT !.success = @ + 1]
      /\ UNCHANGED <<source, attempt, error, reason>>
  BY DEF FirstPage, Replied
<1>3. rows \in Rows /\ rows # None
  BY ListedRows, PagingAssumption, NoneIsNew DEF TotalsAreCounts
<1> HIDE DEF rows
<1>4. /\ Count \in Nat /\ Count <= MaxRows
      /\ source.first = 1 => Count = source.last
  BY PagingAssumption DEF TypeOK, TotalsAreCounts, Count
<1>5. phase[f] = "first" /\ \A p \in Further : call[f][p] = "none"
  BY <1>2 DEF PhaseFits, Pending
<1>6. FurtherPages(n) \in Nat
  BY <1>4, NoneIsNew, PageCount
<1>7. 0 \in Page /\ Page \subseteq Nat BY PageNumbers
<1>8. \A p \in Page :
        call'[f][p] = IF p = 0 THEN "ok"
                      ELSE IF p <= FurtherPages(n) THEN "queued" ELSE "none"
  BY <1>1, <1>5, <1>6, <1>7 DEF TypeOK, Further
<1>9. \A g \in Fetch \ {f} : call'[g] = call[g] /\ phase'[g] = phase[g] /\ total'[g] = total[g]
                             /\ result'[g] = result[g] /\ page'[g] = page[g]
  BY <1>1, <1>2 DEF TypeOK
<1>10. TypeOK'
  <2>1. call' \in [Fetch -> [Page -> {"none", "queued"} \cup Pending \cup Ended]]
    <3> DEFINE C == {"none", "queued"} \cup Pending \cup Ended
    <3>1. call \in [Fetch -> [Page -> C]] /\ {"ok", "queued", "none"} \subseteq C
      BY DEF TypeOK, Ended
    <3> HIDE DEF C
    <3>2. ASSUME call' = [call EXCEPT ![f][0] = "ok"]
          PROVE  call' \in [Fetch -> [Page -> C]]
      BY <1>7, <3>1, <3>2
    <3>3. ASSUME call' = [call EXCEPT ![f] = [p \in Page |->
                              IF p = 0 THEN "ok"
                              ELSE IF p <= FurtherPages(n) THEN "queued" ELSE "none"]]
          PROVE  call' \in [Fetch -> [Page -> C]]
      BY <3>1, <3>3
    <3>4. call' \in [Fetch -> [Page -> C]] BY <1>1, <3>2, <3>3
    <3> QED BY <3>4 DEF C
  <2>2. page' \in [Fetch -> [Page -> Rows \cup {None}]]
    <3> DEFINE R == Rows \cup {None}
    <3>1. page \in [Fetch -> [Page -> R]] /\ rows \in R BY <1>3 DEF TypeOK
    <3> HIDE DEF R
    <3>2. page' \in [Fetch -> [Page -> R]] BY <3>1, <1>2
    <3> QED BY <3>2 DEF R
  <2>3. phase' \in [Fetch -> {"idle", "first", "paging", "returned", "raised", "cancelled"}]
    BY <1>1 DEF TypeOK
  <2>4. page'[f][0] = rows BY <1>2, <1>7 DEF TypeOK
  <2>5. result' \in [Fetch -> Rows \cup {None}] BY <1>1, <1>3, <2>4 DEF TypeOK
  <2>6. counted' \in [success : Nat, failure : Nat] BY <1>2, CountsMove DEF TypeOK
  <2>7. total' \in [Fetch -> Nat \cup {None}] BY <1>1, <1>4 DEF TypeOK
  <2> QED BY <1>2, <2>1, <2>2, <2>3, <2>5, <2>6, <2>7 DEF TypeOK
<1>11. total'[f] = n /\ phase'[f] = IF FurtherPages(n) = 0 THEN "returned" ELSE "paging"
  BY <1>1, <1>6 DEF TypeOK
<1>12. PhaseFits'
  <2> SUFFICES ASSUME NEW g \in Fetch
               PROVE  /\ call'[g][0] # "queued"
                      /\ phase'[g] = "idle" => call'[g][0] = "none"
                      /\ phase'[g] = "first" <=> call'[g][0] \in Pending
                      /\ phase'[g] \in {"paging", "returned"} => call'[g][0] = "ok"
                      /\ phase'[g] = "paging" => FurtherPages(total'[g]) > 0
                      /\ phase'[g] = "paging" => \A p \in Further : call'[g][p] # "cancelled"
                      /\ IF call'[g][0] = "ok"
                         THEN \A p \in Further :
                                call'[g][p] = "none" <=> p > FurtherPages(total'[g])
                         ELSE \A p \in Further : call'[g][p] = "none"
    BY DEF PhaseFits, Further, FurtherPages
  <2>1. CASE g = f
    <3>1. call'[f][0] = "ok" /\ phase'[f] \in {"paging", "returned"} BY <1>7, <1>8, <1>11
    <3>2. phase'[f] = "paging" => FurtherPages(n) > 0 BY <1>6, <1>11
    <3>3. ASSUME NEW p \in Further
          PROVE  call'[f][p] # "cancelled" /\ (call'[f][p] = "none" <=> p > FurtherPages(n))
      BY <1>6, <1>7, <1>8 DEF Further
    <3> QED BY <1>11, <2>1, <3>1, <3>2, <3>3 DEF Pending
  <2>2. CASE g # f BY <1>9, <2>2 DEF PhaseFits
  <2> QED BY <2>1, <2>2
<1>13. TotalsAreCounts' BY <1>1, <1>2, <1>4 DEF TypeOK, TotalsAreCounts
<1>14. CallFits'
  <2> SUFFICES ASSUME NEW g \in Fetch, NEW p \in Page
               PROVE  /\ call'[g][p] = "ok" <=> page'[g][p] # None
                      /\ call'[g][p] = "failed" <=> reason'[g][p] # None
                      /\ call'[g][p] \in {"none", "queued"} => attempt'[g][p] = 0
                      /\ call'[g][p] = "calling" => attempt'[g][p] > 0
                      /\ call'[g][p] = "backoff" => attempt'[g][p] \in 1 .. Retries
                      /\ reason'[g][p] \in Transient => attempt'[g][p] = Retries + 1
    BY DEF CallFits
  <2>1. CASE g = f /\ p = 0
    BY <1>2, <1>3, <1>7, <1>8, <2>1, NoneIsNew DEF TypeOK, CallFits, Reason
  <2>2. CASE g = f /\ p # 0
    <3>1. call[f][p] = "none" BY <1>5, <2>2 DEF Further
    <3>2. page'[f][p] = page[f][p] BY <1>2, <2>2 DEF TypeOK
    <3> QED BY <1>2, <1>8, <2>2, <3>1, <3>2 DEF CallFits
  <2>3. CASE g # f BY <1>2, <1>9, <2>3 DEF CallFits
  <2> QED BY <2>1, <2>2, <2>3
<1>15. ResultFits'
  <2>1. page'[f][0] = rows BY <1>2, <1>7 DEF TypeOK
  <2> QED BY <1>1, <1>3, <1>5, <1>6, <2>1 DEF TypeOK, ResultFits
<1>16. ErrorAfterLastAttempt'
  <2> SUFFICES ASSUME NEW g \in Fetch, error'[g] # None
               PROVE  \E p \in Page :
                        /\ call'[g][p] = "failed" /\ reason'[g][p] = error'[g]
                        /\ error'[g] \in Transient => attempt'[g][p] = Retries + 1
    BY DEF ErrorAfterLastAttempt
  <2>1. PICK p \in Page :
          /\ call[g][p] = "failed" /\ reason[g][p] = error[g]
          /\ error[g] \in Transient => attempt[g][p] = Retries + 1
    BY <1>2 DEF ErrorAfterLastAttempt
  <2>2. g # f BY <1>2, <1>5, <2>1 DEF Further
  <2> QED BY <1>2, <1>9, <2>1, <2>2
<1> QED BY <1>10, <1>12, <1>13, <1>14, <1>15, <1>16

LEMMA NextPageIInv ==
    ASSUME IInv, NEW f \in Fetch, NEW p \in Page, NextPage(f, p)
    PROVE  IInv'
<1> USE DEF IInv
<1> DEFINE rows == Listed(FirstRow(p), LastRow(p, total[f]))
<1>1. /\ p \in Further
      /\ call[f][p] = "calling"
      /\ call' = [call EXCEPT ![f][p] = "ok"]
      /\ page' = [page EXCEPT ![f][p] = rows]
      /\ counted' = [counted EXCEPT !.success = @ + 1]
      /\ UNCHANGED <<source, phase, total, attempt, error, reason, result>>
  BY DEF NextPage, Replied, Further
<1>2. FurtherPages(total[f]) \in Nat /\ p <= FurtherPages(total[f]) /\ total[f] \in Nat
  <2>1. call[f][0] = "ok" /\ ~ p > FurtherPages(total[f])
    BY <1>1 DEF PhaseFits
  <2>2. total[f] # None BY <1>1, <2>1, NoneIsNew, PageNumbers DEF Further
  <2>3. total[f] \in Nat BY <2>2 DEF TypeOK
  <2> QED BY <1>1, <2>1, <2>3, PageCount, PageNumbers DEF Further
<1>3. rows \in Rows /\ rows # None
  <2>1. FirstRow(p) \in Nat \ {0}
    <3>1. p - 1 \in Nat BY <1>1, PageNumbers DEF Further
    <3>2. (p - 1) * PageSize \in Nat BY <3>1, PageNumbers
    <3> QED BY <3>2, PagingAssumption DEF FirstRow
  <2>2. LastRow(p, total[f]) \in Int BY <1>2, <2>1, PageNumbers DEF LastRow
  <2> QED BY <2>1, <2>2, ListedRows, NoneIsNew DEF TotalsAreCounts
<1> HIDE DEF rows
<1>4. TypeOK'
  <2>1. call' \in [Fetch -> [Page -> {"none", "queued"} \cup Pending \cup Ended]]
    BY <1>1 DEF TypeOK, Ended
  <2>2. page' \in [Fetch -> [Page -> Rows \cup {None}]]
    <3> DEFINE R == Rows \cup {None}
    <3>1. page \in [Fetch -> [Page -> R]] /\ rows \in R BY <1>3 DEF TypeOK
    <3> HIDE DEF R
    <3>2. page' \in [Fetch -> [Page -> R]] BY <3>1, <1>1
    <3> QED BY <3>2 DEF R
  <2>3. counted' \in [success : Nat, failure : Nat] BY <1>1, CountsMove DEF TypeOK
  <2> QED BY <1>1, <2>1, <2>2, <2>3 DEF TypeOK
<1>5. PhaseFits'
  BY <1>1 DEF TypeOK, PhaseFits, Pending, Further, FurtherPages
<1>6. TotalsAreCounts' BY <1>1 DEF TotalsAreCounts
<1>7. CallFits'
  BY <1>1, <1>3, NoneIsNew DEF TypeOK, CallFits
<1>8. ResultFits' BY <1>1 DEF ResultFits
<1>9. ErrorAfterLastAttempt' BY <1>1 DEF TypeOK, ErrorAfterLastAttempt
<1> QED BY <1>4, <1>5, <1>6, <1>7, <1>8, <1>9


\* The pages a total asks for are pages.
LEMMA PagesWithin ==
    ASSUME NEW n \in Nat, n <= MaxRows, FurtherPages(n) > 0
    PROVE  FurtherPages(n) \in Further
<1> DEFINE last == FurtherPages(n)
<1>1. last \in Nat /\ n > EndIndex /\ FirstRow(last) <= n
  BY PageCount, PagingAssumption
<1> HIDE DEF last
<1>2. last > 0 BY DEF last
<1>3. (last - 1) * 1 <= (last - 1) * PageSize BY <1>1, <1>2, PageNumbers
<1>4. (last - 1) * PageSize \in Int BY <1>1, PageNumbers
<1>5. last <= MaxRows /\ MaxRows > EndIndex
  BY <1>1, <1>2, <1>3, <1>4, PagingAssumption DEF FirstRow
<1>6. last \in Further BY <1>1, <1>2, <1>5, PagingAssumption DEF Further, Page
<1> QED BY <1>6 DEF last

\* A fetch that merges has all its pages.
LEMMA AllPagesCame ==
    ASSUME IInv, NEW f \in Fetch, Merge(f)
    PROVE  /\ total[f] \in Nat
           /\ FurtherPages(total[f]) \in Further
           /\ \A p \in 0 .. FurtherPages(total[f]) : p \in Page /\ page[f][p] \in Rows
<1> USE DEF IInv
<1> DEFINE n == FurtherPages(total[f])
<1>1. n > 0 /\ call[f][0] = "ok" BY DEF Merge, PhaseFits
<1>2. total[f] # None BY <1>1, NoneIsNew
<1>3. total[f] \in Nat BY <1>2 DEF TypeOK
<1>4. n \in Nat /\ total[f] <= MaxRows BY <1>2, <1>3, PageCount DEF TotalsAreCounts
<1>5. n \in Further BY <1>1, <1>3, <1>4, PagesWithin
<1>6. PICK N \in Nat : Page = 0 .. N /\ Further = 1 .. N BY PageNumbers
<1>7. ASSUME NEW p \in 0 .. n PROVE p \in Page /\ page[f][p] \in Rows
  <2>1. p \in Page BY <1>4, <1>5, <1>6
  <2>2. call[f][p] = "ok"
    <3>1. CASE p = 0 BY <1>1, <3>1
    <3>2. CASE p # 0
      <4>1. p \in Further /\ ~ p > n BY <1>4, <2>1, <3>2 DEF Further
      <4> QED BY <1>1, <4>1 DEF Merge, PhaseFits
    <3> QED BY <3>1, <3>2
  <2> QED BY <2>1, <2>2 DEF CallFits, TypeOK
<1> QED BY <1>3, <1>5, <1>7

LEMMA MergeIInv ==
    ASSUME IInv, NEW f \in Fetch, Merge(f)
    PROVE  IInv'
<1> USE DEF IInv
<1> DEFINE rows == Merged(f, FurtherPages(total[f]))
<1>1. /\ phase[f] = "paging"
      /\ \A p \in Further : call[f][p] \in {"none", "ok"}
      /\ phase' = [phase EXCEPT ![f] = "returned"]
      /\ result' = [result EXCEPT ![f] = rows]
      /\ UNCHANGED <<source, total, call, attempt, page, error, reason, counted>>
  BY DEF Merge
<1>2. rows \in Rows BY AllPagesCame, MergedRows DEF Further
<1> HIDE DEF rows
<1>3. TypeOK' BY <1>1, <1>2 DEF TypeOK
<1>4. PhaseFits' BY <1>1 DEF TypeOK, PhaseFits, Pending, Further, FurtherPages
<1>5. TotalsAreCounts' BY <1>1 DEF TotalsAreCounts
<1>6. CallFits' BY <1>1 DEF CallFits
<1>7. ResultFits' BY <1>1, <1>2, NoneIsNew DEF TypeOK, ResultFits
<1>8. ErrorAfterLastAttempt' BY <1>1 DEF ErrorAfterLastAttempt
<1> QED BY <1>3, <1>4, <1>5, <1>6, <1>7, <1>8

LEMMA RaiseIInv ==
    ASSUME IInv, NEW f \in Fetch, Raise(f)
    PROVE  IInv'
<1> USE DEF IInv
<1>1. PICK p \in Further :
        call[f][p] = "failed" /\ error' = [error EXCEPT ![f] = reason[f][p]]
  BY DEF Raise
<1>2. /\ phase[f] = "paging"
      /\ phase' = [phase EXCEPT ![f] = "raised"]
      /\ UNCHANGED <<source, total, call, attempt, page, reason, result, counted>>
  BY DEF Raise
<1>3. p \in Page BY DEF Further
<1>4. TypeOK' BY <1>1, <1>2, <1>3 DEF TypeOK
<1>5. PhaseFits' BY <1>2 DEF TypeOK, PhaseFits, Pending, Further, FurtherPages
<1>6. TotalsAreCounts' BY <1>2 DEF TotalsAreCounts
<1>7. CallFits' BY <1>2 DEF CallFits
<1>8. ResultFits' BY <1>2 DEF TypeOK, ResultFits
<1>9. ErrorAfterLastAttempt'
  <2>1. error'[f] = reason[f][p] /\ \A g \in Fetch \ {f} : error'[g] = error[g]
    BY <1>1 DEF TypeOK
  <2>2. reason[f][p] \in Transient => attempt[f][p] = Retries + 1
    BY <1>3 DEF CallFits
  <2> QED BY <1>1, <1>2, <1>3, <2>1, <2>2 DEF ErrorAfterLastAttempt
<1> QED BY <1>4, <1>5, <1>6, <1>7, <1>8, <1>9

LEMMA CancelIInv ==
    ASSUME IInv, NEW f \in Fetch, Cancel(f)
    PROVE  IInv'
<1> USE DEF IInv
<1> DEFINE Stops(p) == /\ \A q \in Page : call[f][q] # "failed"
                       /\ call[f][p] \in Pending \cup {"queued"}
<1>1. /\ phase[f] \in {"first", "paging"}
      /\ phase' = [phase EXCEPT ![f] = "cancelled"]
      /\ call' = [call EXCEPT ![f] =
                    [p \in Page |-> IF Stops(p) THEN "cancelled" ELSE call[f][p]]]
      /\ UNCHANGED <<source, total, attempt, page, error, reason, result, counted>>
  BY DEF Cancel
<1>2. \A p \in Page : call'[f][p] = IF Stops(p) THEN "cancelled" ELSE call[f][p]
  BY <1>1 DEF TypeOK
<1>3. \A g \in Fetch \ {f} : call'[g] = call[g] /\ phase'[g] = phase[g]
  BY <1>1 DEF TypeOK
<1>4. \A p \in Page :
        /\ call'[f][p] \in {call[f][p], "cancelled"}
        /\ call'[f][p] # call[f][p] => call[f][p] \in Pending \cup {"queued"}
  BY <1>2
<1>5. TypeOK'
  <2> DEFINE C == {"none", "queued"} \cup Pending \cup Ended
  <2>1. call \in [Fetch -> [Page -> C]] /\ "cancelled" \in C BY DEF TypeOK, Ended
  <2> HIDE DEF C
  <2>2. call' \in [Fetch -> [Page -> C]] BY <1>1, <2>1
  <2>3. phase' \in [Fetch -> {"idle", "first", "paging", "returned", "raised", "cancelled"}]
    BY <1>1 DEF TypeOK
  <2> QED BY <1>1, <2>2, <2>3 DEF TypeOK, C
<1>6. PhaseFits'
  <2>1. 0 \in Page /\ Further \subseteq Page BY PageNumbers DEF Further
  <2>2. call'[f][0] \notin Pending
    <3>1. CASE call[f][0] \in Pending
      <4>1. \A q \in Page : call[f][q] # "failed"
        BY <3>1 DEF PhaseFits, Pending, Further
      <4> QED BY <1>2, <2>1, <3>1, <4>1 DEF Pending
    <3>2. CASE call[f][0] \notin Pending BY <1>4, <2>1, <3>2 DEF Pending
    <3> QED BY <3>1, <3>2
  <2>3. phase'[f] = "cancelled" BY <1>1 DEF TypeOK
  <2>4. call'[f][0] = "ok" <=> call[f][0] = "ok" BY <1>4, <2>1 DEF Pending
  <2>5. \A p \in Further : call'[f][p] = "none" <=> call[f][p] = "none"
    BY <1>4, <2>1 DEF Pending
  <2>6. call'[f][0] # "queued" BY <1>4, <2>1 DEF PhaseFits
  <2> HIDE DEF Stops
  <2> SUFFICES ASSUME NEW g \in Fetch
               PROVE  /\ call'[g][0] # "queued"
                      /\ phase'[g] = "idle" => call'[g][0] = "none"
                      /\ phase'[g] = "first" <=> call'[g][0] \in Pending
                      /\ phase'[g] \in {"paging", "returned"} => call'[g][0] = "ok"
                      /\ phase'[g] = "paging" => FurtherPages(total[g]) > 0
                      /\ phase'[g] = "paging" => \A p \in Further : call'[g][p] # "cancelled"
                      /\ IF call'[g][0] = "ok"
                         THEN \A p \in Further :
                                call'[g][p] = "none" <=> p > FurtherPages(total[g])
                         ELSE \A p \in Further : call'[g][p] = "none"
    BY <1>1 DEF PhaseFits, Further, FurtherPages
  <2>7. CASE g = f BY <2>2, <2>3, <2>4, <2>5, <2>6, <2>7 DEF PhaseFits
  <2>8. CASE g # f BY <1>3, <2>8 DEF PhaseFits
  <2> QED BY <2>7, <2>8
<1>7. TotalsAreCounts' BY <1>1 DEF TotalsAreCounts
<1> HIDE DEF Stops
<1>8. CallFits'
  <2> SUFFICES ASSUME NEW g \in Fetch, NEW p \in Page
               PROVE  /\ call'[g][p] = "ok" <=> page[g][p] # None
                      /\ call'[g][p] = "failed" <=> reason[g][p] # None
                      /\ call'[g][p] \in {"none", "queued"} => attempt[g][p] = 0
                      /\ call'[g][p] = "calling" => attempt[g][p] > 0
                      /\ call'[g][p] = "backoff" => attempt[g][p] \in 1 .. Retries
                      /\ reason[g][p] \in Transient => attempt[g][p] = Retries + 1
    BY <1>1 DEF CallFits
  <2>1. CASE g = f BY <1>4, <2>1 DEF CallFits, Pending
  <2>2. CASE g # f BY <1>3, <2>2 DEF CallFits
  <2> QED BY <2>1, <2>2
<1>9. ResultFits' BY <1>1 DEF TypeOK, ResultFits
<1>10. ErrorAfterLastAttempt'
  <2> SUFFICES ASSUME NEW g \in Fetch, error[g] # None
               PROVE  \E p \in Page :
                        /\ call'[g][p] = "failed" /\ reason[g][p] = error[g]
                        /\ error[g] \in Transient => attempt[g][p] = Retries + 1
    BY <1>1 DEF ErrorAfterLastAttempt
  <2>1. PICK p \in Page :
          /\ call[g][p] = "failed" /\ reason[g][p] = error[g]
          /\ error[g] \in Transient => attempt[g][p] = Retries + 1
    BY DEF ErrorAfterLastAttempt
  <2>2. call'[g][p] = "failed" BY <1>3, <1>4, <2>1 DEF Pending
  <2> QED BY <2>1, <2>2
<1> QED BY <1>5, <1>6, <1>7, <1>8, <1>9, <1>10

LEMMA SourceIInv ==
    ASSUME IInv, RowAdded \/ RowDropped
    PROVE  IInv'
<1> USE DEF IInv
<1>1. UNCHANGED <<phase, total, call, attempt, page, error, reason, result, counted>>
  BY DEF RowAdded, RowDropped
<1>2. source' \in [first : 1 .. MaxRows + 1, last : 0 .. MaxRows] /\ TotalsAreCounts'
  <2>1. CASE RowAdded
    <3>1. source' = [first |-> source.first, last |-> source.last + 1]
      BY <2>1 DEF RowAdded, TypeOK
    <3> QED BY <1>1, <2>1, <3>1, PagingAssumption, SMTT(30) DEF RowAdded, TypeOK, TotalsAreCounts
  <2>2. CASE RowDropped
    <3>1. source' = [first |-> source.first + 1, last |-> source.last]
      BY <2>2 DEF RowDropped, TypeOK
    <3> QED BY <1>1, <2>2, <3>1, PagingAssumption
            DEF RowDropped, Count, TypeOK, TotalsAreCounts
  <2> QED BY <2>1, <2>2
<1>3. TypeOK' BY <1>1, <1>2 DEF TypeOK
<1> QED BY <1>1, <1>2, <1>3 DEF PhaseFits, CallFits, ResultFits, ErrorAfterLastAttempt

LEMMA NextIInv == IInv /\ [Next]_vars => IInv'
<1> SUFFICES ASSUME IInv, [Next]_vars PROVE IInv' OBVIOUS
<1>1. ASSUME NEW f \in Fetch, Start(f) PROVE IInv' BY <1>1, StartIInv
<1>2. ASSUME NEW f \in Fetch, NEW p \in Page, RequestEnds(f, p) PROVE IInv'
  BY <1>2, AttemptFailsIInv, FirstPageIInv, NextPageIInv DEF RequestEnds
<1>3. ASSUME NEW f \in Fetch, NEW p \in Page, Resend(f, p) \/ Begin(f, p) PROVE IInv'
  BY <1>3, SendIInv DEF Resend, Begin
<1>4. ASSUME NEW f \in Fetch, Merge(f) PROVE IInv' BY <1>4, MergeIInv
<1>5. ASSUME NEW f \in Fetch, Raise(f) PROVE IInv' BY <1>5, RaiseIInv
<1>6. ASSUME NEW f \in Fetch, Cancel(f) PROVE IInv' BY <1>6, CancelIInv
<1>7. ASSUME RowAdded \/ RowDropped PROVE IInv' BY <1>7, SourceIInv
<1>8. CASE UNCHANGED vars
  BY <1>8 DEF vars, IInv, TypeOK, PhaseFits, TotalsAreCounts, CallFits, ResultFits,
              ErrorAfterLastAttempt
<1> QED BY <1>1, <1>2, <1>3, <1>4, <1>5, <1>6, <1>7, <1>8 DEF Next, Done

LEMMA IInvHolds == Spec => []IInv
<1>1. Init => IInv BY InitIInv
<1>2. IInv /\ [Next]_vars => IInv' BY NextIInv
<1> QED BY <1>1, <1>2, PTL DEF Spec

\* Every variable of the fetch always has its type, however many rows, fetches
\* and retries there are.
THEOREM FetchTypeCorrect == Spec => []TypeOK
<1>1. IInv => TypeOK BY DEF IInv
<1> QED BY <1>1, IInvHolds, PTL

\* An error a fetch reports is one of its pages', and a transient one was
\* reported only after all the retries of the adapter.
THEOREM ErrorsAreFinal == Spec => []ErrorAfterLastAttempt
<1>1. IInv => ErrorAfterLastAttempt BY DEF IInv
<1> QED BY <1>1, IInvHolds, PTL


-----------------------------------------------------------------------------
(* The metrics. *)

CallsIn(e) == {c \in Fetch \X Page : call[c[1]][c[2]] = e}

\* The calls are finitely many, so that they can be counted.
LEMMA CallsFinite ==
    ASSUME NEW e
    PROVE  IsFiniteSet(CallsIn(e)) /\ Cardinality(CallsIn(e)) \in Nat
<1>1. IsFiniteSet(Page)
  <2>1. PICK N \in Nat : Page = 0 .. N BY PageNumbers
  <2> QED BY <2>1, FS_Interval
<1>2. IsFiniteSet(Fetch \X Page) BY <1>1, PagingAssumption, FS_Product
<1>3. CallsIn(e) \subseteq Fetch \X Page BY DEF CallsIn
<1> QED BY <1>2, <1>3, FS_Subset, FS_CardinalityType

\* Where no call comes to or leaves a state, the calls in it stay the same.
LEMMA SameCalls ==
    ASSUME NEW e, \A f \in Fetch, p \in Page : call'[f][p] = e <=> call[f][p] = e
    PROVE  CallsIn(e)' = CallsIn(e)
<1>1. \A c \in Fetch \X Page : c[1] \in Fetch /\ c[2] \in Page OBVIOUS
<1>2. CallsIn(e)' = {c \in Fetch \X Page : call'[c[1]][c[2]] = e} BY DEF CallsIn, Page
<1> QED BY <1>1, <1>2 DEF CallsIn

\* A call that ends makes one more of its kind.
LEMMA OneMoreCall ==
    ASSUME NEW e, NEW f \in Fetch, NEW p \in Page, call[f][p] # e, call'[f][p] = e,
           \A g \in Fetch, q \in Page :
               <<g, q>> # <<f, p>> => (call'[g][q] = e <=> call[g][q] = e)
    PROVE  Cardinality(CallsIn(e)') = Cardinality(CallsIn(e)) + 1
<1>1. \A c \in Fetch \X Page : c[1] \in Fetch /\ c[2] \in Page /\ c = <<c[1], c[2]>> OBVIOUS
<1>2. CallsIn(e)' = {c \in Fetch \X Page : call'[c[1]][c[2]] = e} BY DEF CallsIn, Page
<1>3. CallsIn(e)' = CallsIn(e) \cup {<<f, p>>} BY <1>1, <1>2 DEF CallsIn
<1>4. <<f, p>> \notin CallsIn(e) BY DEF CallsIn
<1> QED BY <1>3, <1>4, CallsFinite, FS_AddElement

CountFits ==
    /\ counted.success = Cardinality(CallsIn("ok"))
    /\ counted.failure = Cardinality(CallsIn("failed"))

LEMMA InitCountFits == Init => CountFits
<1> SUFFICES ASSUME Init PROVE CountFits OBVIOUS
<1>1. \A c \in Fetch \X Page : c[1] \in Fetch /\ c[2] \in Page OBVIOUS
<1>2. CallsIn("ok") = {} /\ CallsIn("failed") = {} BY <1>1 DEF Init, CallsIn
<1> QED BY <1>2, FS_EmptySet DEF Init, CountFits

\* A step that ends no call does not count.
LEMMA NothingCounted ==
    ASSUME CountFits, counted' = counted,
           \A f \in Fetch, p \in Page : \A e \in {"ok", "failed"} :
               call'[f][p] = e <=> call[f][p] = e
    PROVE  CountFits'
<1>1. CallsIn("ok")' = CallsIn("ok") /\ CallsIn("failed")' = CallsIn("failed")
  BY SameCalls
<1> QED BY <1>1 DEF CountFits, CallsIn

\* A call that ends is counted at the same step.
LEMMA OneCounted ==
    ASSUME IInv, CountFits, NEW f \in Fetch, NEW p \in Page, call[f][p] = "calling",
           \/ /\ call'[f][p] = "ok"
              /\ counted' = [counted EXCEPT !.success = @ + 1]
           \/ /\ call'[f][p] = "failed"
              /\ counted' = [counted EXCEPT !.failure = @ + 1],
           \A g \in Fetch, q \in Page : <<g, q>> # <<f, p>> =>
               \A e \in {"ok", "failed"} : call'[g][q] = e <=> call[g][q] = e
    PROVE  CountFits'
<1>1. counted \in [success : Nat, failure : Nat] BY DEF IInv, TypeOK
<1>2. CASE call'[f][p] = "ok"
  <2>1. Cardinality(CallsIn("ok")') = Cardinality(CallsIn("ok")) + 1
    BY <1>2, OneMoreCall
  <2>2. CallsIn("failed")' = CallsIn("failed") BY <1>2, SameCalls
  <2>3. counted' = [success |-> counted.success + 1, failure |-> counted.failure]
    BY <1>1, <1>2, CountsMove
  <2> QED BY <2>1, <2>2, <2>3 DEF CountFits, CallsIn
<1>3. CASE call'[f][p] = "failed"
  <2>1. Cardinality(CallsIn("failed")') = Cardinality(CallsIn("failed")) + 1
    BY <1>3, OneMoreCall
  <2>2. CallsIn("ok")' = CallsIn("ok") BY <1>3, SameCalls
  <2>3. counted' = [success |-> counted.success, failure |-> counted.failure + 1]
    BY <1>1, <1>3, CountsMove
  <2> QED BY <2>1, <2>2, <2>3 DEF CountFits, CallsIn
<1> QED BY <1>2, <1>3

LEMMA NextCountFits == IInv /\ CountFits /\ [Next]_vars => CountFits'
<1> SUFFICES ASSUME IInv, CountFits, [Next]_vars PROVE CountFits' OBVIOUS
<1> USE DEF IInv
<1>0. 0 \in Page BY PageNumbers
<1>1. ASSUME NEW f \in Fetch, NEW p \in Page, Send(f, p), counted' = counted,
             call[f][p] \in {"none", "queued", "backoff"}
      PROVE  CountFits'
  BY <1>1, NothingCounted DEF Send, TypeOK
<1>2. ASSUME NEW f \in Fetch, NEW p \in Page, AttemptFails(f, p) PROVE CountFits'
  <2>1. CASE call' = [call EXCEPT ![f][p] = "backoff"] /\ counted' = counted
    BY <1>2, <2>1, NothingCounted DEF AttemptFails, TypeOK
  <2>2. CASE /\ call' = [call EXCEPT ![f][p] = "failed"]
             /\ counted' = [counted EXCEPT !.failure = @ + 1]
    <3>1. call'[f][p] = "failed" BY <2>2 DEF TypeOK
    <3>2. \A g \in Fetch, q \in Page : <<g, q>> # <<f, p>> => call'[g][q] = call[g][q]
      BY <2>2 DEF TypeOK
    <3> QED BY <1>2, <2>2, <3>1, <3>2, OneCounted DEF AttemptFails
  <2> QED BY <1>2, <2>1, <2>2 DEF AttemptFails
<1>3. ASSUME NEW f \in Fetch, FirstPage(f) PROVE CountFits'
  <2>1. /\ call[f][0] = "calling" /\ counted' = [counted EXCEPT !.success = @ + 1]
        /\ \A p \in Further : call[f][p] = "none"
    BY <1>3 DEF FirstPage, Replied, PhaseFits
  <2>2. PICK n \in {None, Count} :
          \/ call' = [call EXCEPT ![f][0] = "ok"]
          \/ call' = [call EXCEPT ![f] =
                            [p \in Page |->
                               IF p = 0 THEN "ok"
                               ELSE IF p <= FurtherPages(n) THEN "queued"
                               ELSE "none"]]
    BY <1>3 DEF FirstPage
  <2>3. call'[f][0] = "ok" BY <1>0, <2>2 DEF TypeOK
  <2>4. \A g \in Fetch, q \in Page : <<g, q>> # <<f, 0>> =>
               \A e \in {"ok", "failed"} : call'[g][q] = e <=> call[g][q] = e
    <3> SUFFICES ASSUME NEW g \in Fetch, NEW q \in Page, <<g, q>> # <<f, 0>>,
                        NEW e \in {"ok", "failed"}
                 PROVE  call'[g][q] = e <=> call[g][q] = e
      OBVIOUS
    <3>1. CASE g # f BY <2>2, <3>1 DEF TypeOK
    <3>2. CASE g = f /\ q # 0
      <4>1. call[f][q] = "none" BY <2>1, <3>2 DEF Further
      <4>2. call'[f][q] \in {"queued", "none"} BY <2>2, <3>2, <4>1 DEF TypeOK
      <4> QED BY <3>2, <4>1, <4>2
    <3> QED BY <3>1, <3>2
  <2> QED BY <1>0, <2>1, <2>3, <2>4, OneCounted
<1>4. ASSUME NEW f \in Fetch, NEW p \in Page, NextPage(f, p) PROVE CountFits'
  <2>1. /\ call[f][p] = "calling" /\ counted' = [counted EXCEPT !.success = @ + 1]
        /\ call' = [call EXCEPT ![f][p] = "ok"]
    BY <1>4 DEF NextPage, Replied
  <2>2. call'[f][p] = "ok" BY <2>1 DEF TypeOK
  <2>3. \A g \in Fetch, q \in Page : <<g, q>> # <<f, p>> => call'[g][q] = call[g][q]
    BY <2>1 DEF TypeOK
  <2> QED BY <2>1, <2>2, <2>3, OneCounted
<1>5. ASSUME NEW f \in Fetch, Cancel(f) PROVE CountFits'
  <2>1. counted' = counted BY <1>5 DEF Cancel
  <2>2. \A g \in Fetch, p \in Page : \A e \in {"ok", "failed"} :
               call'[g][p] = e <=> call[g][p] = e
    BY <1>5 DEF Cancel, TypeOK, Pending
  <2> QED BY <2>1, <2>2, NothingCounted
<1>6. CASE UNCHANGED <<call, counted>> BY <1>6, NothingCounted
<1>7. ASSUME NEW f \in Fetch, Start(f) PROVE CountFits'
  BY <1>0, <1>1, <1>7 DEF Start, PhaseFits
<1>8. ASSUME NEW f \in Fetch, NEW p \in Page, Resend(f, p) \/ Begin(f, p) PROVE CountFits'
  BY <1>1, <1>8 DEF Resend, Begin
<1> QED
  BY <1>2, <1>3, <1>4, <1>5, <1>6, <1>7, <1>8
  DEF Next, RequestEnds, Merge, Raise, RowAdded, RowDropped, Done, vars

\* The metrics count every call of the source once when it ends, however often
\* it was tried again, and also when its fetch had ended before.
THEOREM EveryCallCountedOnce == Spec => []CallsCounted
<1>1. Init => CountFits BY InitCountFits
<1>2. IInv /\ CountFits /\ [Next]_vars => CountFits' BY NextCountFits
<1>3. CountFits => CallsCounted BY DEF CountFits, CallsCounted, CallsIn
<1> QED BY <1>1, <1>2, <1>3, IInvHolds, PTL DEF Spec


-----------------------------------------------------------------------------
(* The rows of a result. *)

\* The rows from a to b.
Run(a, b) == [i \in 1 .. b - a + 1 |-> a + i - 1]

\* As long as no row was dropped, every page has the rows of its range, as far
\* as the total reaches.
PagesFit ==
    source.first = 1 =>
        \A f \in Fetch :
            total[f] # None =>
                /\ page[f][0] # None => page[f][0] = Run(StartIndex, LastRow(0, total[f]))
                /\ \A p \in Further : page[f][p] # None =>
                        page[f][p] = Run(FirstRow(p), LastRow(p, total[f]))

\* The range of the first page is not inverted by more than being empty.  The
\* settings do not enforce this (core/config.py), and without it the further
\* pages begin with rows below the first one.
Window == StartIndex <= EndIndex + 1

\* Two runs of rows, the second after the first, are one.
LEMMA RunsJoin ==
    ASSUME NEW a \in Nat, NEW b \in Int, NEW c \in Int, a <= b + 1, b <= c
    PROVE  Run(a, b) \o Run(b + 1, c) = Run(a, c)
<1> DEFINE n == b - a + 1
           m == c - b
<1>1. n \in Nat /\ m \in Nat OBVIOUS
<1>2. Run(a, b) = [i \in 1 .. n |-> a + i - 1] BY DEF Run
<1>3. Run(b + 1, c) = [i \in 1 .. m |-> b + i]
  <2>1. c - (b + 1) + 1 = m OBVIOUS
  <2>2. \A i \in 1 .. m : (b + 1) + i - 1 = b + i OBVIOUS
  <2> QED BY <2>1, <2>2 DEF Run
<1>4. Run(a, c) = [i \in 1 .. n + m |-> a + i - 1]
  <2>1. c - a + 1 = n + m OBVIOUS
  <2> QED BY <2>1 DEF Run
<1>5. \A i \in n + 1 .. n + m : b + (i - n) = a + i - 1 OBVIOUS
<1> HIDE DEF n, m
<1> DEFINE s == [i \in 1 .. n |-> a + i - 1]
           t == [i \in 1 .. m |-> b + i]
           u == [i \in 1 .. n + m |-> a + i - 1]
<1>6. /\ s \in Seq(Int) /\ Len(s) = n
      /\ t \in Seq(Int) /\ Len(t) = m
      /\ u \in Seq(Int) /\ Len(u) = n + m
  BY <1>1
<1>7. /\ \A i \in 1 .. n : s[i] = a + i - 1
      /\ \A i \in 1 .. m : t[i] = b + i
      /\ \A i \in 1 .. n + m : u[i] = a + i - 1
  OBVIOUS
<1> HIDE DEF s, t, u
<1>8. /\ s \o t \in Seq(Int) /\ Len(s \o t) = n + m
      /\ \A i \in 1 .. n + m : (s \o t)[i] = IF i <= n THEN s[i] ELSE t[i - n]
  BY <1>6, ConcatProperties
<1>9. ASSUME NEW i \in 1 .. n + m PROVE (s \o t)[i] = u[i]
  <2>1. CASE i <= n
    <3>1. i \in 1 .. n BY <1>1, <2>1
    <3> QED BY <1>7, <1>8, <2>1, <3>1
  <2>2. CASE i > n
    <3>1. i - n \in 1 .. m /\ i \in n + 1 .. n + m /\ ~ i <= n BY <1>1, <2>2
    <3>2. (s \o t)[i] = t[i - n] BY <1>8, <3>1
    <3>3. t[i - n] = b + (i - n) BY <1>7, <3>1
    <3> QED BY <1>5, <1>7, <3>1, <3>2, <3>3
  <2>3. i <= n \/ i > n BY <1>1
  <2> QED BY Zenon, <2>1, <2>2, <2>3
<1>10. s \o t = u BY <1>6, <1>8, <1>9, SeqEqual
<1> QED BY <1>2, <1>3, <1>4, <1>10 DEF s, t, u

\* What the source lists while no row was dropped.
LEMMA ListedRun ==
    ASSUME IInv, source.first = 1, NEW a \in Nat \ {0}, NEW b \in Int
    PROVE  Listed(a, b) = Run(a, IF b < source.last THEN b ELSE source.last)
<1>1. source.last \in Nat /\ Count = source.last
  BY PagingAssumption DEF IInv, TypeOK, Count
<1> DEFINE c == IF b < Count THEN b ELSE Count
<1>2. c \in Int BY <1>1
<1>3. \A i \in 1 .. c - a + 1 : source.first + a + i - 2 = a + i - 1 BY <1>2
<1> QED BY <1>1, <1>3 DEF Listed, Run

\* The range of a page ends before the next one begins, or at the last row.
LEMMA PageRanges ==
    ASSUME NEW n \in Nat, NEW p \in Nat
    PROVE  /\ FirstRow(p) \in Int /\ LastRow(p, n) \in Int
           /\ LastRow(p, n) <= n
           /\ FirstRow(p + 1) = FirstRow(p) + PageSize
           /\ p > 0 => FirstRow(p) > EndIndex
           /\ LastRow(0, n) = IF EndIndex < n THEN EndIndex ELSE n
           /\ p < FurtherPages(n) => LastRow(p, n) = FirstRow(p + 1) - 1
           /\ p = FurtherPages(n) => LastRow(p, n) = n
<1> DEFINE first == EndIndex + 1 + (p - 1) * PageSize
<1>1. (p - 1) * PageSize \in Int /\ first \in Int BY PageNumbers, PagingAssumption
<1>2. FirstRow(p) = first BY DEF FirstRow
<1>3. FirstRow(p + 1) = first + PageSize
  <2>1. FirstRow(p + 1) = EndIndex + 1 + p * PageSize BY DEF FirstRow
  <2>2. (p - 1) * PageSize = p * PageSize - PageSize BY PageNumbers
  <2> QED BY <2>1, <2>2, PageNumbers, PagingAssumption
<1>4. p > 0 => first > EndIndex
  <2>1. p > 0 => (p - 1) * PageSize >= 0 BY PageNumbers
  <2> QED BY <1>1, <2>1, PagingAssumption
<1>5. FirstRow(0) = EndIndex + 1 - PageSize BY PageNumbers, PagingAssumption DEF FirstRow
<1>6. LastRow(0, n) = IF EndIndex < n THEN EndIndex ELSE n
  BY <1>5, PageNumbers, PagingAssumption DEF LastRow
<1>7. ASSUME p < FurtherPages(n) PROVE first + PageSize - 1 < n
  <2> DEFINE last == FurtherPages(n)
  <2>1. last \in Nat /\ n > EndIndex /\ FirstRow(last) <= n
    BY <1>7, PageCount, PagingAssumption
  <2> HIDE DEF last
  <2>2. p * PageSize <= (last - 1) * PageSize
    BY <1>7, <2>1, PageNumbers, TimesMonotonic DEF last
  <2>3. (p - 1) * PageSize = p * PageSize - PageSize BY PageNumbers
  <2>4. p * PageSize \in Int /\ (last - 1) * PageSize \in Int BY <2>1, PageNumbers
  <2> QED BY <2>1, <2>2, <2>3, <2>4, PageNumbers, PagingAssumption DEF FirstRow
<1>8. ASSUME p = FurtherPages(n) PROVE n <= first + PageSize - 1
  <2>1. CASE n <= EndIndex
    <3>1. p = 0 BY <1>8, <2>1, PageCount
    <3> QED BY <1>2, <1>5, <2>1, <3>1, PageNumbers, PagingAssumption
  <2>2. CASE n > EndIndex BY <1>2, <1>8, <2>2, PageCount
  <2> QED BY <2>1, <2>2, PagingAssumption
<1> HIDE DEF first
<1> QED
  BY <1>1, <1>2, <1>3, <1>4, <1>6, <1>7, <1>8, PageNumbers, PagingAssumption DEF LastRow

\* Merging the pages of a total gives all its rows.
LEMMA MergedRun ==
    ASSUME Window, NEW f \in Fetch, total[f] \in Nat,
           FurtherPages(total[f]) \in Further,
           page[f][0] = Run(StartIndex, LastRow(0, total[f])),
           \A p \in 1 .. FurtherPages(total[f]) :
               page[f][p] = Run(FirstRow(p), LastRow(p, total[f]))
    PROVE  Merged(f, FurtherPages(total[f])) = Run(StartIndex, total[f])
<1> DEFINE n == total[f]
           last == FurtherPages(n)
           T == {p \in Nat : Merged(f, p) = Run(StartIndex, LastRow(p, n))}
<1>1. last \in Nat /\ last > 0 /\ n > EndIndex
  BY PageCount, PageNumbers, PagingAssumption DEF Further
<1>2. 0 \in T BY Merging
<1>3. ASSUME NEW p \in 0 .. last - 1, p \in T PROVE p + 1 \in T
  <2>1. p \in Nat /\ p + 1 \in Further /\ p + 1 \in 1 .. last /\ (p + 1) - 1 = p
    BY <1>1, PageNumbers
  <2>2. Merged(f, p + 1) = Merged(f, p) \o page[f][p + 1] BY <2>1, Merging
  <2>3. Merged(f, p) = Run(StartIndex, LastRow(p, n)) BY <1>3
  <2>4. page[f][p + 1] = Run(FirstRow(p + 1), LastRow(p + 1, n)) BY <2>1
  <2>5. p < last BY <1>1
  <2>6. /\ LastRow(p, n) \in Int /\ LastRow(p + 1, n) \in Int
        /\ LastRow(p, n) = FirstRow(p + 1) - 1
        /\ LastRow(p, n) <= n /\ FirstRow(p + 1) \in Int
        /\ FirstRow(p + 1) > EndIndex
    BY <2>1, <2>5, PageRanges
  <2> HIDE DEF n, last
  <2>7. FirstRow(p + 1) = LastRow(p, n) + 1 /\ StartIndex <= LastRow(p, n) + 1
    BY <2>6, PagingAssumption DEF Window
  <2>8. LastRow(p, n) <= LastRow(p + 1, n)
    BY <2>6, PageNumbers DEF LastRow
  <2>9. Merged(f, p + 1) = Run(StartIndex, LastRow(p + 1, n))
    <3>1. Run(StartIndex, LastRow(p, n)) \o Run(LastRow(p, n) + 1, LastRow(p + 1, n))
            = Run(StartIndex, LastRow(p + 1, n))
      BY <2>6, <2>7, <2>8, RunsJoin, PagingAssumption
    <3> QED BY <2>2, <2>3, <2>4, <2>7, <3>1
  <2> QED BY <2>1, <2>9
<1>4. last \in T
  <2> HIDE DEF T, last
  <2> QED BY <1>1, <1>2, <1>3, UpTo
<1>5. LastRow(last, n) = n BY <1>1, PageRanges
<1> QED BY <1>4, <1>5


RowsInv == PagesFit /\ ResultIsComplete

\* All rows of a total, as the property writes them.
LEMMA RunAll ==
    ASSUME NEW n \in Nat
    PROVE  Run(StartIndex, n) =
               [i \in 1 .. (IF n < StartIndex THEN 0 ELSE n - StartIndex + 1)
                  |-> StartIndex + i - 1]
<1>1. CASE n < StartIndex
  <2>1. 1 .. n - StartIndex + 1 = 1 .. 0 BY <1>1, PagingAssumption
  <2> QED BY <1>1, <2>1 DEF Run
<1>2. CASE ~ n < StartIndex BY <1>2 DEF Run
<1> QED BY <1>1, <1>2

LEMMA InitRows == Init => RowsInv
BY DEF Init, RowsInv, PagesFit, ResultIsComplete

\* Nothing is lost by a step that leaves pages and results alone.
LEMMA RowsKept ==
    ASSUME RowsInv, UNCHANGED <<page, total, result>>,
           source'.first = 1 => source.first = 1
    PROVE  RowsInv'
BY DEF RowsInv, PagesFit, ResultIsComplete, Further, LastRow, FirstRow, Run

\* The first page, once it is in, has the rows of its range.
LEMMA FirstPageRows ==
    ASSUME Window, IInv, RowsInv, NEW f \in Fetch, FirstPage(f)
    PROVE  RowsInv'
<1> USE DEF IInv
<1> DEFINE rows == Listed(StartIndex, EndIndex)
<1>1. /\ call[f][0] = "calling"
      /\ page' = [page EXCEPT ![f][0] = rows]
      /\ source' = source
  BY DEF FirstPage, Replied
<1>2. PICK n \in {None, Count} :
        /\ total' = [total EXCEPT ![f] = n]
        /\ \/ FurtherPages(n) = 0 /\ result' = [result EXCEPT ![f] = page'[f][0]]
           \/ UNCHANGED result
  BY DEF FirstPage
<1>3. /\ phase[f] = "first" /\ result[f] = None
      /\ \A p \in Further : page[f][p] = None
  BY <1>1, NoneIsNew DEF PhaseFits, Pending, ResultFits, CallFits, Further
<1>4. 0 \in Page BY PageNumbers
<1>5. /\ page'[f][0] = rows
      /\ \A p \in Further : page'[f][p] = None
      /\ \A g \in Fetch \ {f} : page'[g] = page[g] /\ total'[g] = total[g] /\ result'[g] = result[g]
      /\ total'[f] = n
      /\ result'[f] = None \/ (FurtherPages(n) = 0 /\ result'[f] = rows)
  BY <1>1, <1>2, <1>3, <1>4 DEF TypeOK, Further
<1>6. ASSUME source.first = 1, n # None
      PROVE  n \in Nat /\ rows = Run(StartIndex, LastRow(0, n))
  <2>1. n \in Nat /\ n = source.last
    BY <1>2, <1>6, PagingAssumption DEF TypeOK, Count
  <2>2. LastRow(0, n) = IF EndIndex < n THEN EndIndex ELSE n BY <2>1, PageRanges
  <2> QED BY <1>6, <2>1, <2>2, ListedRun, PagingAssumption
<1>7. ASSUME source.first = 1, n # None, FurtherPages(n) = 0
      PROVE  rows = Run(StartIndex, n)
  <2>1. n \in Nat /\ rows = Run(StartIndex, LastRow(0, n)) BY <1>6, <1>7
  <2>2. LastRow(0, n) = n BY <1>7, <2>1, PageRanges
  <2> QED BY <2>1, <2>2
<1> HIDE DEF rows
<1>8. PagesFit'
  <2> SUFFICES ASSUME source.first = 1, NEW g \in Fetch, total'[g] # None
               PROVE  /\ page'[g][0] # None =>
                           page'[g][0] = Run(StartIndex, LastRow(0, total'[g]))
                      /\ \A p \in Further : page'[g][p] # None =>
                           page'[g][p] = Run(FirstRow(p), LastRow(p, total'[g]))
    BY <1>1 DEF PagesFit, Further, LastRow, FirstRow, Run
  <2>1. CASE g = f BY <1>5, <1>6, <2>1
  <2>2. CASE g # f BY <1>5, <2>2 DEF RowsInv, PagesFit
  <2> QED BY <2>1, <2>2
<1>9. ResultIsComplete'
  <2> SUFFICES ASSUME source.first = 1, NEW g \in Fetch, total'[g] # None, result'[g] # None
               PROVE  result'[g] =
                        [i \in 1 .. (IF total'[g] < StartIndex THEN 0
                                     ELSE total'[g] - StartIndex + 1)
                           |-> StartIndex + i - 1]
    BY <1>1 DEF ResultIsComplete
  <2>1. CASE g = f
    <3>1. result'[f] = rows /\ FurtherPages(n) = 0 /\ n # None BY <1>5, <2>1
    <3>2. n \in Nat /\ rows = Run(StartIndex, n) BY <1>6, <1>7, <3>1
    <3> QED BY <1>5, <2>1, <3>1, <3>2, RunAll
  <2>2. CASE g # f BY <1>5, <2>2 DEF RowsInv, ResultIsComplete
  <2> QED BY <2>1, <2>2
<1> QED BY <1>8, <1>9 DEF RowsInv

LEMMA NextPageRows ==
    ASSUME IInv, RowsInv, NEW f \in Fetch, NEW p \in Page, NextPage(f, p)
    PROVE  RowsInv'
<1> USE DEF IInv
<1> DEFINE rows == Listed(FirstRow(p), LastRow(p, total[f]))
<1>1. /\ p \in Further /\ p \in Nat /\ p > 0
      /\ page' = [page EXCEPT ![f][p] = rows]
      /\ UNCHANGED <<source, total, result>>
  BY PageNumbers DEF NextPage, Replied, Further
<1>2. ASSUME source.first = 1, total[f] # None
      PROVE  rows = Run(FirstRow(p), LastRow(p, total[f]))
  <2>1. total[f] \in Nat /\ total[f] <= source.last /\ source.last \in Nat
    BY <1>2 DEF TypeOK, TotalsAreCounts
  <2>2. /\ FirstRow(p) \in Nat \ {0}
        /\ LastRow(p, total[f]) \in Int /\ LastRow(p, total[f]) <= source.last
    BY <1>1, <2>1, PageRanges, PagingAssumption
  <2>3. (IF LastRow(p, total[f]) < source.last THEN LastRow(p, total[f]) ELSE source.last)
           = LastRow(p, total[f])
    BY <2>1, <2>2
  <2> QED BY <1>2, <2>2, <2>3, ListedRun
<1> HIDE DEF rows
<1>3. \A g \in Fetch, q \in Page :
        page'[g][q] = IF <<g, q>> = <<f, p>> THEN rows ELSE page[g][q]
  BY <1>1 DEF TypeOK
<1>4. PagesFit'
  <2> SUFFICES ASSUME source.first = 1, NEW g \in Fetch, total[g] # None
               PROVE  /\ page'[g][0] # None =>
                           page'[g][0] = Run(StartIndex, LastRow(0, total[g]))
                      /\ \A q \in Further : page'[g][q] # None =>
                           page'[g][q] = Run(FirstRow(q), LastRow(q, total[g]))
    BY <1>1 DEF PagesFit, Further, LastRow, FirstRow, Run
  <2>1. page'[g][0] = page[g][0] BY <1>1, <1>3, PageNumbers
  <2>2. ASSUME NEW q \in Further, page'[g][q] # None
        PROVE  page'[g][q] = Run(FirstRow(q), LastRow(q, total[g]))
    <3>1. q \in Page BY DEF Further
    <3>2. CASE g = f /\ q = p BY <1>2, <1>3, <3>1, <3>2
    <3>3. CASE ~ (g = f /\ q = p) BY <1>3, <2>2, <3>1, <3>3 DEF RowsInv, PagesFit
    <3> QED BY <3>2, <3>3
  <2> QED BY <2>1, <2>2 DEF RowsInv, PagesFit
<1>5. ResultIsComplete' BY <1>1 DEF RowsInv, ResultIsComplete
<1> QED BY <1>4, <1>5 DEF RowsInv

\* Merging the pages keeps the rows in order.
LEMMA MergeRows ==
    ASSUME Window, IInv, RowsInv, NEW f \in Fetch, Merge(f)
    PROVE  RowsInv'
<1> DEFINE n == total[f]
           last == FurtherPages(n)
<1>1. /\ result' = [result EXCEPT ![f] = Merged(f, last)]
      /\ UNCHANGED <<source, total, page>>
  BY DEF Merge
<1>2. /\ n \in Nat /\ last \in Further
      /\ \A p \in 0 .. last : p \in Page /\ page[f][p] \in Rows
  BY AllPagesCame
<1>3. ASSUME source.first = 1 PROVE Merged(f, last) = Run(StartIndex, n)
  <2>1. last \in Nat /\ n # None BY <1>2, PageNumbers, NoneIsNew DEF Further
  <2>2. page[f][0] # None BY <1>2, <2>1, NoneIsNew
  <2>3. \A p \in 1 .. last : p \in Further /\ page[f][p] # None
    BY <1>2, <2>1, NoneIsNew DEF Further
  <2>4. page[f][0] = Run(StartIndex, LastRow(0, n))
    BY <1>3, <2>1, <2>2 DEF RowsInv, PagesFit
  <2>5. \A p \in 1 .. last : page[f][p] = Run(FirstRow(p), LastRow(p, n))
    BY <1>3, <2>1, <2>3 DEF RowsInv, PagesFit
  <2> QED BY <1>2, <2>4, <2>5, MergedRun
<1> HIDE DEF last
<1>4. PagesFit' BY <1>1 DEF RowsInv, PagesFit, Further, LastRow, FirstRow, Run
<1>5. ResultIsComplete'
  <2> SUFFICES ASSUME source.first = 1, NEW g \in Fetch, total[g] # None, result'[g] # None
               PROVE  result'[g] =
                        [i \in 1 .. (IF total[g] < StartIndex THEN 0
                                     ELSE total[g] - StartIndex + 1)
                           |-> StartIndex + i - 1]
    BY <1>1 DEF ResultIsComplete
  <2>1. CASE g = f BY <1>1, <1>2, <1>3, <2>1, RunAll DEF IInv, TypeOK
  <2>2. CASE g # f BY <1>1, <2>2 DEF RowsInv, ResultIsComplete, IInv, TypeOK
  <2> QED BY <2>1, <2>2
<1> QED BY <1>4, <1>5 DEF RowsInv

LEMMA NextRows == Window /\ IInv /\ RowsInv /\ [Next]_vars => RowsInv'
<1> SUFFICES ASSUME Window, IInv, RowsInv, [Next]_vars PROVE RowsInv' OBVIOUS
<1>1. ASSUME NEW f \in Fetch, NEW p \in Page, RequestEnds(f, p) PROVE RowsInv'
  <2>1. CASE AttemptFails(f, p) BY <2>1, RowsKept DEF AttemptFails
  <2> QED BY <1>1, <2>1, FirstPageRows, NextPageRows DEF RequestEnds
<1>2. ASSUME NEW f \in Fetch, Merge(f) PROVE RowsInv' BY <1>2, MergeRows
<1>3. CASE RowDropped
  <2>1. source'.first = source.first + 1 /\ source.first \in Nat \ {0}
    BY <1>3 DEF RowDropped, IInv, TypeOK
  <2> QED BY <1>3, <2>1, RowsKept DEF RowDropped
<1>4. CASE RowAdded
  <2>1. source'.first = source.first BY <1>4 DEF RowAdded, IInv, TypeOK
  <2> QED BY <1>4, <2>1, RowsKept DEF RowAdded
<1>5. ASSUME NEW f \in Fetch,
             \/ Start(f) \/ Raise(f) \/ Cancel(f)
             \/ \E p \in Page : Resend(f, p) \/ Begin(f, p)
      PROVE  RowsInv'
  BY <1>5, RowsKept DEF Start, Raise, Cancel, Resend, Begin
<1>6. CASE UNCHANGED vars BY <1>6, RowsKept DEF vars
<1> QED BY <1>1, <1>2, <1>3, <1>4, <1>5, <1>6 DEF Next, Done

\* Whatever the order the pages come in, and however the source grows
\* meanwhile, a fetch that returns has all the rows of its total, once and in
\* order.  The configured range of the first page must not be inverted.
THEOREM NoRowIsLost == Window => (Spec => []ResultIsComplete)
<1> SUFFICES ASSUME Window PROVE Spec => []ResultIsComplete OBVIOUS
<1>1. Init => RowsInv BY InitRows
<1>2. IInv /\ RowsInv /\ [Next]_vars => RowsInv' BY NextRows
<1>3. RowsInv => ResultIsComplete BY DEF RowsInv
<1> QED BY <1>1, <1>2, <1>3, IInvHolds, PTL DEF Spec


-----------------------------------------------------------------------------
(* The page calls of a fetch are a call of gather_limited. *)

Tasks(f) == [p \in Further |-> IF call[f][p] \in Pending THEN "running" ELSE call[f][p]]

Outer(f) == IF \A p \in Further : call[f][p] = "none" THEN "idle"
            ELSE IF phase[f] = "paging" THEN "waiting" ELSE phase[f]

\* The jobs of a fetch are its further pages.
LEMMA JobsArePages ==
    Cardinality(Further) \in Nat /\ 1 .. Cardinality(Further) = Further
<1>1. PICK N \in Nat : Further = 1 .. N BY PageNumbers
<1> QED BY <1>1, FS_Interval

LEMMA GatheringInit ==
    ASSUME Init, NEW f \in Fetch
    PROVE  Gathering(f)!Init
BY JobsArePages DEF Init, Gathering!Init, Gathering!Job, Further, Pending

\* The gathering does not notice a step that leaves its tasks as they are.
LEMMA GatheringStays ==
    ASSUME NEW f \in Fetch, Tasks(f)' = Tasks(f), Outer(f)' = Outer(f)
    PROVE  UNCHANGED Gathering(f)!vars
BY DEF Gathering!vars, Tasks, Outer

\* FirstPage is a Gather.
LEMMA GatheringGathers ==
    ASSUME NEW f \in Fetch, NEW n \in 0 .. Cardinality(Further),
           Outer(f) = "idle", Outer(f)' = "waiting",
           Tasks(f)' = [p \in Further |-> IF p <= n THEN "queued" ELSE "none"]
    PROVE  Gathering(f)!Next
<1>1. Gathering(f)!Gather(n)
  BY JobsArePages DEF Gathering!Gather, Gathering!Job, Tasks, Outer
<1> QED BY <1>1 DEF Gathering!Next

\* A page that is sent begins.
LEMMA GatheringBegins ==
    ASSUME TypeOK, NEW f \in Fetch, NEW p \in Further,
           call[f][p] = "queued", Cardinality(Active(f)) < Slots,
           \A q \in 1 .. p - 1 : call[f][q] # "queued",
           Tasks(f)' = [Tasks(f) EXCEPT ![p] = "running"], Outer(f)' = Outer(f)
    PROVE  Gathering(f)!Next
<1>1. {q \in Further : Tasks(f)[q] = "running"} = Active(f)
  <2>1. ASSUME NEW q \in Further
        PROVE  Tasks(f)[q] = "running" <=> call[f][q] \in Pending
    <3>1. call[f][q] \in {"none", "queued"} \cup Pending \cup Ended BY DEF TypeOK, Further
    <3>2. call[f][q] # "running" BY <3>1 DEF Pending, Ended
    <3> QED BY <3>2 DEF Tasks
  <2> QED BY <2>1 DEF Active
<1>2. \A q \in 1 .. p - 1 : q \in Further BY PageNumbers
<1>3. Tasks(f)[p] = "queued" /\ \A q \in 1 .. p - 1 : Tasks(f)[q] # "queued"
  BY <1>2 DEF Tasks, Pending
<1>4. Gathering(f)!Running = Active(f)
  BY <1>1, JobsArePages DEF Gathering!Running, Gathering!Job, Tasks
<1>5. Gathering(f)!Slots = Slots BY DEF Gathering!Slots, Slots
<1>6. Gathering(f)!Cardinality(Active(f)) = Cardinality(Active(f))
  BY DEF Gathering!Cardinality, Cardinality, Gathering!IsFiniteSet, IsFiniteSet
<1>7. Gathering(f)!Begin(p)
  BY <1>3, <1>4, <1>5, <1>6 DEF Gathering!Begin, Tasks, Outer
<1> QED BY <1>7, JobsArePages DEF Gathering!Next, Gathering!Job

\* A page that comes in, or fails for good, ends.
LEMMA GatheringEnds ==
    ASSUME NEW f \in Fetch, NEW p \in Further, NEW e \in {"ok", "failed"},
           call[f][p] \in Pending,
           Tasks(f)' = [Tasks(f) EXCEPT ![p] = e], Outer(f)' = Outer(f)
    PROVE  Gathering(f)!Next
<1>1. Tasks(f)[p] = "running" BY DEF Tasks
<1>2. Gathering(f)!End(p)
  BY <1>1 DEF Gathering!End, Tasks, Outer
<1> QED BY <1>2, JobsArePages DEF Gathering!Next, Gathering!Job

\* Merge is a Return.
LEMMA GatheringReturns ==
    ASSUME NEW f \in Fetch, \A p \in Further : call[f][p] \in {"none", "ok"},
           Outer(f) = "waiting", Outer(f)' = "returned", Tasks(f)' = Tasks(f)
    PROVE  Gathering(f)!Next
<1>1. \A p \in Further : Tasks(f)[p] \in {"none", "ok"} BY DEF Tasks, Pending
<1>2. Gathering(f)!Return
  BY <1>1, JobsArePages
  DEF Gathering!Return, Gathering!AllOk, Gathering!Job, Tasks, Outer
<1> QED BY <1>2 DEF Gathering!Next

\* A failed page raises.
LEMMA GatheringRaises ==
    ASSUME NEW f \in Fetch, NEW p \in Further, call[f][p] = "failed",
           Outer(f) = "waiting", Outer(f)' = "raised", Tasks(f)' = Tasks(f)
    PROVE  Gathering(f)!Next
<1>1. Tasks(f)[p] = "failed" BY DEF Tasks, Pending
<1>2. Gathering(f)!Raise
  BY <1>1, JobsArePages
  DEF Gathering!Raise, Gathering!Failed, Gathering!Job, Tasks, Outer
<1> QED BY <1>2 DEF Gathering!Next

\* A cancelled fetch cancels.
LEMMA GatheringCancels ==
    ASSUME NEW f \in Fetch, Outer(f) = "waiting", Outer(f)' = "cancelled",
           Tasks(f)' = [p \in Further |->
                          IF /\ \A q \in Further : Tasks(f)[q] # "failed"
                             /\ Tasks(f)[p] \in {"queued", "running"}
                          THEN "cancelled" ELSE Tasks(f)[p]]
    PROVE  Gathering(f)!Next
<1>1. Gathering(f)!Failed = {q \in Further : Tasks(f)[q] = "failed"}
  BY JobsArePages DEF Gathering!Failed, Gathering!Job, Tasks
<1>2. Gathering(f)!Failed = {} <=> \A q \in Further : Tasks(f)[q] # "failed"
  BY <1>1
<1>3. Tasks(f)' = [p \in Gathering(f)!Job |->
                     IF Gathering(f)!Failed = {} /\ Tasks(f)[p] \in Gathering(f)!Unfinished
                     THEN "cancelled" ELSE Tasks(f)[p]]
  BY <1>2, JobsArePages DEF Gathering!Job, Gathering!Unfinished
<1>4. Gathering(f)!Cancel
  BY <1>3 DEF Gathering!Cancel, Tasks, Outer
<1> QED BY <1>4 DEF Gathering!Next


\* A step that moves no task of f, except between its attempts, and changes
\* the phase of f only before there are tasks.
LEMMA Quiet ==
    ASSUME NEW f \in Fetch,
           \A p \in Further : \/ call'[f][p] = call[f][p]
                              \/ {call[f][p], call'[f][p]} \subseteq Pending,
           phase'[f] = phase[f] \/ \A p \in Further : call[f][p] = "none"
    PROVE  Tasks(f)' = Tasks(f) /\ Outer(f)' = Outer(f)
<1>1. Tasks(f)' = [p \in Further |-> IF call'[f][p] \in Pending THEN "running" ELSE call'[f][p]]
  BY DEF Tasks, Further, Page, Pending
<1>2. (\A p \in Further : call'[f][p] = "none") <=> (\A p \in Further : call[f][p] = "none")
  BY DEF Pending
<1>3. Outer(f)' = IF \A p \in Further : call'[f][p] = "none" THEN "idle"
                  ELSE IF phase'[f] = "paging" THEN "waiting" ELSE phase'[f]
  BY DEF Outer, Further, Page
<1> QED BY <1>1, <1>2, <1>3 DEF Tasks, Outer

\* One task of f moves, while the fetch goes on or after it has ended.
LEMMA OneTask ==
    ASSUME TypeOK, NEW f \in Fetch, NEW p \in Further, NEW e,
           call' = [call EXCEPT ![f][p] = e],
           phase'[f] = phase[f], call[f][p] # "none", e # "none",
           NEW t, t = IF e \in Pending THEN "running" ELSE e
    PROVE  Tasks(f)' = [Tasks(f) EXCEPT ![p] = t] /\ Outer(f)' = Outer(f)
<1>1. \A q \in Further : call'[f][q] = IF q = p THEN e ELSE call[f][q]
  BY DEF TypeOK, Further
<1>2. Tasks(f)' = [q \in Further |-> IF call'[f][q] \in Pending THEN "running" ELSE call'[f][q]]
  BY DEF Tasks, Further, Page, Pending
<1>3. Outer(f)' = IF \A q \in Further : call'[f][q] = "none" THEN "idle"
                  ELSE IF phase'[f] = "paging" THEN "waiting" ELSE phase'[f]
  BY DEF Outer, Further, Page
<1>4. Tasks(f)' = [Tasks(f) EXCEPT ![p] = t] BY <1>1, <1>2 DEF Tasks
<1> QED BY <1>1, <1>3, <1>4 DEF Outer

\* Every step of the fetch is one of the gathering, or none.
LEMMA GatheringStep ==
    ASSUME IInv, [Next]_vars, NEW f \in Fetch
    PROVE  [Gathering(f)!Next]_(Gathering(f)!vars)
<1> USE DEF IInv
<1> DEFINE Goal == [Gathering(f)!Next]_(Gathering(f)!vars)
<1>0. \A p \in Further : p \in Page BY DEF Further
<1>1. ASSUME \A p \in Further : \/ call'[f][p] = call[f][p]
                                \/ {call[f][p], call'[f][p]} \subseteq Pending,
             phase'[f] = phase[f] \/ \A p \in Further : call[f][p] = "none"
      PROVE  Goal
  BY <1>1, Quiet, GatheringStays
<1> HIDE DEF Goal
<1>2. ASSUME NEW g \in Fetch, Start(g) PROVE Goal
  <2>1. /\ \A p \in Further : call'[f][p] = call[f][p]
        /\ phase'[f] = phase[f] \/ f = g
    BY <1>2, <1>0 DEF Start, Send, TypeOK, Further
  <2>2. f = g => \A p \in Further : call[f][p] = "none"
    BY <1>2 DEF Start, PhaseFits
  <2> QED BY <1>1, <2>1, <2>2
<1>3. ASSUME NEW g \in Fetch, NEW p \in Page, AttemptFails(g, p) PROVE Goal
  <2>1. call[g][p] = "calling" BY <1>3 DEF AttemptFails
  <2>2. CASE call' = [call EXCEPT ![g][p] = "backoff"] /\ phase' = phase
    <3>1. \A q \in Further : \/ call'[f][q] = call[f][q]
                             \/ {call[f][q], call'[f][q]} \subseteq Pending
      BY <1>0, <2>1, <2>2 DEF TypeOK, Pending
    <3> QED BY <1>1, <2>2, <3>1
  <2>3. CASE /\ call' = [call EXCEPT ![g][p] = "failed"]
             /\ phase' = [phase EXCEPT ![g] = IF p = 0 THEN "raised" ELSE @]
    <3>1. CASE g = f /\ p \in Further
      <4>1. phase'[f] = phase[f] BY <2>3, <3>1 DEF TypeOK, Further
      <4>2. Tasks(f)' = [Tasks(f) EXCEPT ![p] = "failed"] /\ Outer(f)' = Outer(f)
        <5>1. call' = [call EXCEPT ![f][p] = "failed"] /\ call[f][p] # "none"
          BY <2>1, <2>3, <3>1
        <5>2. "failed" = IF "failed" \in Pending THEN "running" ELSE "failed" BY DEF Pending
        <5> QED BY <3>1, <4>1, <5>1, <5>2, OneTask
      <4>3. Gathering(f)!Next BY <2>1, <3>1, <4>2, GatheringEnds DEF Pending
      <4> QED BY <4>3 DEF Goal
    <3>2. CASE g = f /\ p = 0
      <4>1. \A q \in Further : call'[f][q] = call[f][q] /\ call[f][q] = "none"
        BY <1>0, <2>1, <2>3, <3>2, ZenonT(60) DEF TypeOK, PhaseFits, Further
      <4> QED BY <1>1, <4>1
    <3>3. CASE g # f
      <4>1. call'[f] = call[f] /\ phase'[f] = phase[f] BY <2>3, <3>3 DEF TypeOK
      <4> QED BY <1>1, <4>1
    <3> QED BY <3>1, <3>2, <3>3 DEF Further
  <2> QED BY <1>3, <2>2, <2>3 DEF AttemptFails
<1>4. ASSUME NEW g \in Fetch, FirstPage(g) PROVE Goal
  <2>1. CASE g # f
    <3>1. call'[f] = call[f] /\ phase'[f] = phase[f]
      BY <1>4, <2>1 DEF FirstPage, TypeOK
    <3> QED BY <1>1, <3>1
  <2>2. CASE g = f
    <3>1. \A p \in Further : call[f][p] = "none"
      BY <1>4, <2>2 DEF FirstPage, Replied, PhaseFits
    <3>2. PICK n \in {None, Count} :
            \/ call' = [call EXCEPT ![f][0] = "ok"]
            \/ /\ FurtherPages(n) > 0
               /\ phase' = [phase EXCEPT ![f] = "paging"]
               /\ call' = [call EXCEPT ![f] =
                             [p \in Page |->
                                IF p = 0 THEN "ok"
                                ELSE IF p <= FurtherPages(n) THEN "queued"
                                ELSE "none"]]
      BY <1>4, <2>2 DEF FirstPage
    <3>3. CASE call' = [call EXCEPT ![f][0] = "ok"]
      <4>1. \A p \in Further : call'[f][p] = call[f][p] BY <1>0, <3>3 DEF TypeOK, Further
      <4> QED BY <1>1, <3>1, <4>1
    <3>4. CASE /\ FurtherPages(n) > 0
               /\ phase' = [phase EXCEPT ![f] = "paging"]
               /\ call' = [call EXCEPT ![f] =
                             [p \in Page |->
                                IF p = 0 THEN "ok"
                                ELSE IF p <= FurtherPages(n) THEN "queued"
                                ELSE "none"]]
      <4>1. n \in Nat /\ n <= MaxRows
        BY <3>4, NoneIsNew, PagingAssumption DEF TypeOK, TotalsAreCounts, Count
      <4>2. FurtherPages(n) \in Further BY <3>4, <4>1, PagesWithin
      <4>3. \A p \in Further :
              call'[f][p] = IF p <= FurtherPages(n) THEN "queued" ELSE "none"
        BY <1>0, <3>4 DEF TypeOK, Further
      <4>4. Outer(f) = "idle" BY <3>1 DEF Outer
      <4>5. Outer(f)' = "waiting"
        <5>1. call'[f][FurtherPages(n)] = "queued" BY <4>2, <4>3, PageNumbers DEF Further
        <5>2. ~ \A p \in Further : call'[f][p] = "none" BY <4>2, <5>1
        <5>3. phase'[f] = "paging" BY <3>4 DEF TypeOK
        <5> QED BY <5>2, <5>3 DEF Outer, Further, Page
      <4>6. Tasks(f)' = [p \in Further |-> IF p <= FurtherPages(n) THEN "queued" ELSE "none"]
        <5>1. Tasks(f)' = [p \in Further |->
                             IF call'[f][p] \in Pending THEN "running" ELSE call'[f][p]]
          BY DEF Tasks, Further, Page, Pending
        <5> QED BY <4>3, <5>1 DEF Pending
      <4>7. FurtherPages(n) \in 0 .. Cardinality(Further) BY <4>2, JobsArePages
      <4>8. Gathering(f)!Next BY <4>4, <4>5, <4>6, <4>7, GatheringGathers
      <4> QED BY <4>8 DEF Goal
    <3> QED BY <3>2, <3>3, <3>4
  <2> QED BY <2>1, <2>2
<1>5. ASSUME NEW g \in Fetch, NEW p \in Page, NextPage(g, p) PROVE Goal
  <2>1. /\ p \in Further /\ call[g][p] = "calling" /\ phase' = phase
        /\ call' = [call EXCEPT ![g][p] = "ok"]
    BY <1>5 DEF NextPage, Replied, Further
  <2>2. CASE g = f
    <3>1. Tasks(f)' = [Tasks(f) EXCEPT ![p] = "ok"] /\ Outer(f)' = Outer(f)
      BY <2>1, <2>2, OneTask DEF Pending
    <3>2. Gathering(f)!Next BY <2>1, <2>2, <3>1, GatheringEnds DEF Pending
    <3> QED BY <3>2 DEF Goal
  <2>3. CASE g # f
    <3>1. call'[f] = call[f] BY <2>1, <2>3 DEF TypeOK
    <3> QED BY <1>1, <2>1, <3>1
  <2> QED BY <2>2, <2>3
<1>6. ASSUME NEW g \in Fetch, NEW p \in Page, Resend(g, p) PROVE Goal
  <2>1. \A q \in Further : \/ call'[f][q] = call[f][q]
                           \/ {call[f][q], call'[f][q]} \subseteq Pending
    BY <1>0, <1>6 DEF Resend, Send, TypeOK, Pending
  <2> QED BY <1>1, <1>6, <2>1 DEF Resend
<1>7. ASSUME NEW g \in Fetch, NEW p \in Page, Begin(g, p) PROVE Goal
  <2>1. /\ call[g][p] = "queued" /\ call' = [call EXCEPT ![g][p] = "calling"] /\ phase' = phase
        /\ Cardinality(Active(g)) < Slots
        /\ \A q \in 1 .. p - 1 : call[g][q] # "queued"
    BY <1>7 DEF Begin, Send
  <2>2. p \in Further BY <2>1 DEF PhaseFits, Further
  <2>3. CASE g = f
    <3>1. Tasks(f)' = [Tasks(f) EXCEPT ![p] = "running"] /\ Outer(f)' = Outer(f)
      BY <2>1, <2>2, <2>3, OneTask, ZenonT(60) DEF Pending
    <3>2. Gathering(f)!Next BY <2>1, <2>2, <2>3, <3>1, GatheringBegins
    <3> QED BY <3>2 DEF Goal
  <2>4. CASE g # f
    <3>1. call'[f] = call[f] BY <2>1, <2>4 DEF TypeOK
    <3> QED BY <1>1, <2>1, <3>1
  <2> QED BY <2>3, <2>4
<1>8. ASSUME NEW g \in Fetch, Merge(g) PROVE Goal
  <2>1. CASE g = f
    <3>1. /\ phase[f] = "paging" /\ phase' = [phase EXCEPT ![f] = "returned"] /\ call' = call
          /\ \A p \in Further : call[f][p] \in {"none", "ok"}
      BY <1>8, <2>1 DEF Merge
    <3>2. \E p \in Further : call[f][p] # "none"
      <4>1. FurtherPages(total[f]) \in Further BY <1>8, <2>1, AllPagesCame
      <4>2. ~ FurtherPages(total[f]) > FurtherPages(total[f])
        BY <4>1, PageNumbers DEF Further
      <4> QED BY <3>1, <4>1, <4>2 DEF PhaseFits
    <3>3. Outer(f) = "waiting" /\ Outer(f)' = "returned" /\ Tasks(f)' = Tasks(f)
      BY <3>1, <3>2 DEF Outer, Tasks, TypeOK, Further, Page
    <3>4. Gathering(f)!Next BY <3>1, <3>3, GatheringReturns
    <3> QED BY <3>4 DEF Goal
  <2>2. CASE g # f
    <3>1. call'[f] = call[f] /\ phase'[f] = phase[f] BY <1>8, <2>2 DEF Merge, TypeOK
    <3> QED BY <1>1, <3>1
  <2> QED BY <2>1, <2>2
<1>9. ASSUME NEW g \in Fetch, Raise(g) PROVE Goal
  <2>1. CASE g = f
    <3>1. /\ phase[f] = "paging" /\ phase' = [phase EXCEPT ![f] = "raised"] /\ call' = call
      BY <1>9, <2>1 DEF Raise
    <3>2. PICK p \in Further : call[f][p] = "failed" BY <1>9, <2>1 DEF Raise
    <3>3. Outer(f) = "waiting" /\ Outer(f)' = "raised" /\ Tasks(f)' = Tasks(f)
      BY <3>1, <3>2 DEF Outer, Tasks, TypeOK, Further, Page
    <3>4. Gathering(f)!Next BY <3>2, <3>3, GatheringRaises
    <3> QED BY <3>4 DEF Goal
  <2>2. CASE g # f
    <3>1. call'[f] = call[f] /\ phase'[f] = phase[f] BY <1>9, <2>2 DEF Raise, TypeOK
    <3> QED BY <1>1, <3>1
  <2> QED BY <2>1, <2>2
<1>10. ASSUME NEW g \in Fetch, Cancel(g) PROVE Goal
  <2>1. CASE g # f
    <3>1. call'[f] = call[f] /\ phase'[f] = phase[f] BY <1>10, <2>1 DEF Cancel, TypeOK
    <3> QED BY <1>1, <3>1
  <2>2. CASE g = f /\ phase[f] = "first"
    <3>1. \A p \in Further : call[f][p] = "none" BY <2>2 DEF PhaseFits, Pending
    <3>2. \A p \in Further : call'[f][p] = call[f][p]
      BY <1>0, <1>10, <2>2, <3>1 DEF Cancel, TypeOK, Pending
    <3> QED BY <1>1, <3>1, <3>2
  <2>3. CASE g = f /\ phase[f] = "paging"
    <3>1. /\ \A p \in Page :
               call'[f][p] = IF /\ \A q \in Page : call[f][q] # "failed"
                                /\ call[f][p] \in Pending \cup {"queued"}
                             THEN "cancelled" ELSE call[f][p]
          /\ phase'[f] = "cancelled"
      BY <1>10, <2>3 DEF Cancel, TypeOK
    <3>2. (\A q \in Page : call[f][q] # "failed") <=> (\A q \in Further : call[f][q] # "failed")
      BY <2>3 DEF PhaseFits, Further
    <3>3. \E p \in Further : call[f][p] # "none"
      <4>1. total[f] \in Nat /\ total[f] <= MaxRows /\ FurtherPages(total[f]) > 0
        BY <2>3, NoneIsNew DEF PhaseFits, TypeOK, TotalsAreCounts
      <4>2. FurtherPages(total[f]) \in Further BY <4>1, PagesWithin
      <4>3. ~ FurtherPages(total[f]) > FurtherPages(total[f])
        BY <4>2, PageNumbers DEF Further
      <4> QED BY <2>3, <4>2, <4>3 DEF PhaseFits
    <3>4. \E p \in Further : call'[f][p] # "none" BY <1>0, <3>1, <3>3
    <3>5. Outer(f) = "waiting" BY <2>3, <3>3 DEF Outer
    <3>6. Outer(f)' = "cancelled" BY <3>1, <3>4 DEF Outer, Further, Page
    <3>7. ASSUME NEW p \in Further PROVE call[f][p] # "running"
      <4>1. call[f][p] \in {"none", "queued"} \cup Pending \cup Ended BY <1>0 DEF TypeOK
      <4> QED BY <4>1 DEF Pending, Ended
    <3>8. ASSUME NEW p \in Further
          PROVE  /\ Tasks(f)[p] = "failed" <=> call[f][p] = "failed"
                 /\ Tasks(f)[p] \in {"queued", "running"} <=> call[f][p] \in Pending \cup {"queued"}
      BY <3>7 DEF Tasks, Pending
    <3>9. Tasks(f)' = [p \in Further |->
                        IF call'[f][p] \in Pending THEN "running" ELSE call'[f][p]]
      BY DEF Tasks, Further, Page, Pending
    <3>10. ASSUME NEW p \in Further
           PROVE  (IF call'[f][p] \in Pending THEN "running" ELSE call'[f][p]) =
                     IF /\ \A q \in Further : Tasks(f)[q] # "failed"
                        /\ Tasks(f)[p] \in {"queued", "running"}
                     THEN "cancelled" ELSE Tasks(f)[p]
      <4>1. CASE /\ \A q \in Further : call[f][q] # "failed"
                 /\ call[f][p] \in Pending \cup {"queued"}
        <5>1. call'[f][p] = "cancelled" BY <1>0, <3>1, <3>2, <4>1
        <5> QED BY <3>8, <4>1, <5>1 DEF Pending
      <4>2. CASE ~ (/\ \A q \in Further : call[f][q] # "failed"
                    /\ call[f][p] \in Pending \cup {"queued"})
        <5>1. call'[f][p] = call[f][p] BY <1>0, <3>1, <3>2, <4>2
        <5>2. Tasks(f)[p] = IF call[f][p] \in Pending THEN "running" ELSE call[f][p]
          BY DEF Tasks
        <5> QED BY <3>8, <4>2, <5>1, <5>2
      <4> QED BY <4>1, <4>2
    <3>11. Gathering(f)!Next BY <3>5, <3>6, <3>9, <3>10, GatheringCancels
    <3> QED BY <3>11 DEF Goal
  <2> QED BY <1>10, <2>1, <2>2, <2>3 DEF Cancel
<1>11. ASSUME UNCHANGED <<call, phase>> PROVE Goal BY <1>1, <1>11
<1>12. Goal
  BY <1>2, <1>3, <1>4, <1>5, <1>6, <1>7, <1>8, <1>9, <1>10, <1>11
  DEF Next, RequestEnds, RowAdded, RowDropped, Done, vars
<1> QED BY <1>12 DEF Goal

\* What a fetch does to its page calls, with retries, failing first pages,
\* merging and cancelling around it, is what gather_limited may do to its
\* operations, for any number of pages: what is proved of gather_limited holds
\* of the pages.
THEOREM PagesGathered == Spec => PagesAreGathered
<1>1. Init => \A f \in Fetch : Gathering(f)!Init BY GatheringInit
<1>2. IInv /\ [Next]_vars =>
        [\A f \in Fetch : [Gathering(f)!Next]_(Gathering(f)!vars)]_vars
  BY GatheringStep
<1> QED BY <1>1, <1>2, IInvHolds, PTL DEF Spec, PagesAreGathered


=============================================================================
