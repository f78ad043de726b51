------------------------- MODULE HttpSecurityProofs -------------------------
(***************************************************************************)
(* The rate limit and the body limit for every window, limit, set of keys  *)
(* and requests.                                                           *)
(***************************************************************************)
EXTENDS HttpSecurity, FiniteSetTheorems, TLAPS

\* Times are logged in order, and what was popped is past for good.
LogInv ==
    \A k \in Key :
        /\ \A i \in 1 .. Len(log[k]) : log[k][i] <= now
        /\ \A i, j \in 1 .. Len(log[k]) : i <= j => log[k][i] <= log[k][j]
        /\ \A i \in 1 .. head[k] - 1 : log[k][i] < now - Window

\* When r was refused, PerWindow entries in a row were in its window.
Full(r, h) ==
    LET k == KeyOf[r] IN
    /\ h + PerWindow - 1 <= Len(log[k])
    /\ \A i \in h .. h + PerWindow - 1 :
         at[r] - Window <= log[k][i] /\ log[k][i] <= at[r]

RefusedInv ==
    \A r \in Request : pc[r] = "refused429" => \E h \in Nat \ {0} : Full(r, h)

BodyInv ==
    \A r \in Request :
        /\ got[r] <= Size[r]
        /\ pc[r] = "new" => got[r] = 0
        /\ BodyLimit /\ pc[r] \in {"reading", "passed"} => got[r] <= MaxBody
        /\ BodyLimit /\ pc[r] = "passed" /\ ~gone[r] => got[r] = Size[r]
        /\ BodyLimit /\ pc[r] = "refused413" => Size[r] > MaxBody

Inv == TypeOK /\ LogInv /\ SlidingWindow /\ RefusedInv /\ BodyInv

LEMMA InitInv == Init => Inv
<1> SUFFICES ASSUME Init PROVE Inv OBVIOUS
<1> USE SettingsAssumption, RequestAssumption
<1>1. TypeOK BY DEF Init, TypeOK
<1>2. LogInv BY DEF Init, LogInv
<1>3. SlidingWindow BY DEF Init, SlidingWindow
<1>4. RefusedInv /\ BodyInv BY DEF Init, RefusedInv, BodyInv
<1> QED BY <1>1, <1>2, <1>3, <1>4 DEF Inv

\* What popping does to a deque.
LEMMA TrimEffect ==
    ASSUME TypeOK, LogInv, NEW k \in Key, NEW h \in 1 .. Len(log[k]) + 1, Trim(k, h)
    PROVE  /\ head' = [head EXCEPT ![k] = h]
           /\ \A i \in 1 .. h - 1 : log[k][i] < now - Window
           /\ \A i \in h .. Len(log[k]) : log[k][i] >= now - Window
<1> USE SettingsAssumption
<1> DEFINE L == log[k]
<1>1. L \in Seq(Nat) /\ Len(L) \in Nat /\ head[k] \in Nat \ {0} /\ now \in Nat
      /\ \A i \in 1 .. Len(L) : L[i] \in Nat
  BY DEF TypeOK
<1>2. ASSUME NEW i \in 1 .. h - 1 PROVE L[i] < now - Window
  <2>1. CASE i < head[k] BY <2>1, <1>1 DEF LogInv
  <2>2. CASE i >= head[k] BY <2>2, <1>1 DEF Trim, Expired
  <2> QED BY <2>1, <2>2, <1>1
<1>3. ASSUME NEW i \in h .. Len(L) PROVE L[i] >= now - Window
  <2>1. h \in 1 .. Len(L) /\ i \in 1 .. Len(L) /\ h <= i BY <1>1
  <2>2. L[h] <= L[i] BY <2>1 DEF LogInv
  <2>3. ~(L[h] < now - Window) BY <2>1, <1>1 DEF Trim, Expired
  <2> QED BY <2>1, <2>2, <2>3, <1>1
<1> QED BY <1>2, <1>3 DEF Trim

\* Requests that are refused stay in a full window: the log only grows.
LEMMA FullStays ==
    ASSUME TypeOK, RefusedInv, NEW k \in Key, NEW x \in Nat,
           log' = [log EXCEPT ![k] = Append(@, x)] \/ log' = log,
           NEW r \in Request, pc[r] = "refused429", at'[r] = at[r]
    PROVE  \E h \in Nat \ {0} : Full(r, h)'
<1>1. PICK h \in Nat \ {0} : Full(r, h) BY DEF RefusedInv
<1>2. KeyOf[r] \in Key /\ PerWindow \in Nat \ {0}
  BY RequestAssumption, SettingsAssumption
<1>3. /\ Len(log'[KeyOf[r]]) >= Len(log[KeyOf[r]])
      /\ Len(log[KeyOf[r]]) \in Nat /\ Len(log'[KeyOf[r]]) \in Nat
      /\ \A i \in 1 .. Len(log[KeyOf[r]]) : log'[KeyOf[r]][i] = log[KeyOf[r]][i]
  <2>1. log[KeyOf[r]] \in Seq(Nat) /\ Len(log[KeyOf[r]]) \in Nat
    BY <1>2 DEF TypeOK
  <2>2. CASE log'[KeyOf[r]] = log[KeyOf[r]] BY <2>1, <2>2
  <2>3. CASE log'[KeyOf[r]] = Append(log[KeyOf[r]], x) BY <2>1, <2>3
  <2> QED BY <1>2, <2>2, <2>3 DEF TypeOK
<1>4. Full(r, h)'
  BY <1>1, <1>2, <1>3, SMTT(30) DEF Full
<1> QED BY <1>4

\* A request that may go on has read nothing of its body.
LEMMA AfterNew ==
    ASSUME Inv, NEW r \in Request, pc[r] = "new",
           pc' = [pc EXCEPT ![r] = AfterLimit], UNCHANGED <<got, gone>>
    PROVE  BodyInv'
<1> USE SettingsAssumption, RequestAssumption
<1> SUFFICES ASSUME NEW q \in Request
             PROVE  /\ got[q] <= Size[q]
                    /\ pc'[q] = "new" => got[q] = 0
                    /\ BodyLimit /\ pc'[q] \in {"reading", "passed"} => got[q] <= MaxBody
                    /\ BodyLimit /\ pc'[q] = "passed" /\ ~gone[q] => got[q] = Size[q]
                    /\ BodyLimit /\ pc'[q] = "refused413" => Size[q] > MaxBody
  BY DEF BodyInv
<1>1. CASE q # r
  <2>1. pc'[q] = pc[q] BY <1>1 DEF Inv, TypeOK
  <2> QED BY <2>1 DEF Inv, BodyInv
<1>2. CASE q = r
  <2>1. got[r] = 0 /\ got[r] <= Size[r] BY DEF Inv, BodyInv
  <2>2. pc'[r] = AfterLimit BY DEF Inv, TypeOK
  <2>3. CASE BodyLimit BY <1>2, <2>1, <2>2, <2>3 DEF AfterLimit
  <2>4. CASE ~BodyLimit BY <1>2, <2>1, <2>2, <2>4 DEF AfterLimit
  <2> QED BY <2>3, <2>4
<1> QED BY <1>1, <1>2

\* Allowing a request keeps the invariant.
LEMMA AllowInv ==
    ASSUME Inv, NEW r \in Request, Allow(r) PROVE Inv'
<1> USE SettingsAssumption, RequestAssumption DEF Inv
<1> DEFINE k == KeyOf[r]
           L == log[k]
<1>0. k \in Key /\ k \in Limited BY DEF Allow
<1>1. PICK h \in 1 .. Len(L) + 1 : Trim(k, h) /\ Count(k, h) < PerWindow
  BY DEF Allow
<1>2. /\ head' = [head EXCEPT ![k] = h]
      /\ \A i \in 1 .. h - 1 : L[i] < now - Window
  BY <1>0, <1>1, TrimEffect
<1>3. /\ log' = [log EXCEPT ![k] = Append(L, now)]
      /\ pc' = [pc EXCEPT ![r] = AfterLimit]
      /\ UNCHANGED <<now, at, got, gone>>
  BY DEF Allow
<1>4. L \in Seq(Nat) /\ Len(L) \in Nat /\ now \in Nat BY <1>0 DEF TypeOK
<1>5. /\ Len(log'[k]) = Len(L) + 1
      /\ log'[k][Len(L) + 1] = now
      /\ \A i \in 1 .. Len(L) : log'[k][i] = L[i]
      /\ \A q \in Key \ {k} : log'[q] = log[q]
      /\ log' \in [Key -> Seq(Nat)]
  BY <1>0, <1>3, <1>4 DEF TypeOK
<1>6. TypeOK'
  <2>1. head' \in [Key -> Nat \ {0}] BY <1>0, <1>2, <1>4 DEF TypeOK
  <2>2. \A q \in Key : head'[q] <= Len(log'[q]) + 1
    BY <1>0, <1>2, <1>4, <1>5, SMTT(30) DEF TypeOK
  <2> QED BY <1>3, <1>5, <2>1, <2>2 DEF TypeOK, AfterLimit
<1>7. LogInv'
  <2> SUFFICES ASSUME NEW q \in Key
               PROVE  /\ \A i \in 1 .. Len(log'[q]) : log'[q][i] <= now
                      /\ \A i, j \in 1 .. Len(log'[q]) :
                            i <= j => log'[q][i] <= log'[q][j]
                      /\ \A i \in 1 .. head'[q] - 1 : log'[q][i] < now - Window
    BY <1>3 DEF LogInv
  <2>1. CASE q # k BY <2>1, <1>2, <1>5 DEF LogInv, TypeOK
  <2>2. CASE q = k
    <3>1. \A i \in 1 .. Len(L) : log'[k][i] <= now BY <1>0, <1>5 DEF LogInv
    <3>2. \A i \in 1 .. Len(L) + 1 : log'[k][i] <= now BY <3>1, <1>4, <1>5
    <3>3. \A i, j \in 1 .. Len(L) + 1 : i <= j => log'[k][i] <= log'[k][j]
      <4> SUFFICES ASSUME NEW i \in 1 .. Len(L) + 1, NEW j \in 1 .. Len(L) + 1, i <= j
                   PROVE  log'[k][i] <= log'[k][j]
        OBVIOUS
      <4>1. CASE j = Len(L) + 1 BY <4>1, <3>2, <1>5
      <4>2. CASE j # Len(L) + 1
        <5>1. i \in 1 .. Len(L) /\ j \in 1 .. Len(L) BY <4>2, <1>4
        <5> QED BY <5>1, <1>0, <1>5 DEF LogInv
      <4> QED BY <4>1, <4>2
    <3>4. \A i \in 1 .. h - 1 : log'[k][i] < now - Window
      <4> SUFFICES ASSUME NEW i \in 1 .. h - 1 PROVE log'[k][i] < now - Window
        OBVIOUS
      <4>1. i \in 1 .. Len(L) BY <1>4
      <4> QED BY <4>1, <1>2, <1>5
    <3> QED BY <2>2, <3>2, <3>3, <3>4, <1>0, <1>2, <1>5 DEF TypeOK
  <2> QED BY <2>1, <2>2
<1>8. SlidingWindow'
  <2> SUFFICES ASSUME NEW q \in Limited, NEW i \in 1 .. Len(log'[q]) - PerWindow
               PROVE  log'[q][i + PerWindow] - log'[q][i] > Window
    BY DEF SlidingWindow
  <2>1. CASE q # k BY <2>1, <1>5 DEF SlidingWindow
  <2>2. CASE q = k /\ i + PerWindow # Len(L) + 1
    <3>0. i \in 1 .. Len(L) + 1 - PerWindow /\ PerWindow \in Nat \ {0}
      BY <2>2, <1>5, SMTT(30)
    <3>1. i \in 1 .. Len(L) - PerWindow /\ i + PerWindow \in 1 .. Len(L) /\ i \in 1 .. Len(L)
      <4> DEFINE n == Len(L)
      <4>1. n \in Nat /\ i \in 1 .. n + 1 - PerWindow /\ i + PerWindow # n + 1
        BY <3>0, <2>2, <1>4
      <4> HIDE DEF n
      <4>2. i \in 1 .. n - PerWindow /\ i + PerWindow \in 1 .. n /\ i \in 1 .. n
        BY <4>1, <3>0
      <4> QED BY <4>2 DEF n
    <3>2. log'[q][i + PerWindow] = L[i + PerWindow] /\ log'[q][i] = L[i]
      BY <2>2, <3>1, <1>5
    <3>3. L[i + PerWindow] - L[i] > Window
      BY <2>2, <3>1, <1>0 DEF SlidingWindow
    <3> QED BY <3>2, <3>3
  <2>3. CASE q = k /\ i + PerWindow = Len(L) + 1
    <3>1. i < h BY <2>3, <1>1, <1>4 DEF Count
    <3>2. i \in 1 .. h - 1 /\ i \in 1 .. Len(L) BY <3>1, <2>3, <1>4, SMTT(30)
    <3>3. L[i] < now - Window /\ L[i] \in Nat BY <3>2, <1>2, <1>4
    <3>4. log'[q][i + PerWindow] = now /\ log'[q][i] = L[i]
      BY <2>3, <3>2, <1>5
    <3>5. now - L[i] > Window BY <3>3, <1>4
    <3> QED BY <3>4, <3>5
  <2> QED BY <2>1, <2>2, <2>3
<1>9. RefusedInv'
  <2> SUFFICES ASSUME NEW q \in Request, pc'[q] = "refused429"
               PROVE  \E g \in Nat \ {0} : Full(q, g)'
    BY DEF RefusedInv
  <2>1. pc[q] = "refused429" BY <1>3 DEF TypeOK, AfterLimit
  <2> QED BY <2>1, <1>0, <1>3, <1>4, FullStays
<1>10. BodyInv'
  BY <1>3, AfterNew DEF Allow
<1> QED BY <1>6, <1>7, <1>8, <1>9, <1>10

\* Refusing a request keeps the invariant.
LEMMA RefuseInv ==
    ASSUME Inv, NEW r \in Request, Refuse(r) PROVE Inv'
<1> USE SettingsAssumption, RequestAssumption DEF Inv
<1> DEFINE k == KeyOf[r]
           L == log[k]
<1>0. k \in Key OBVIOUS
<1>1. PICK h \in 1 .. Len(L) + 1 : Trim(k, h) /\ Count(k, h) >= PerWindow
  BY DEF Refuse
<1>2. /\ head' = [head EXCEPT ![k] = h]
      /\ \A i \in 1 .. h - 1 : L[i] < now - Window
      /\ \A i \in h .. Len(L) : L[i] >= now - Window
  BY <1>0, <1>1, TrimEffect
<1>3. /\ pc' = [pc EXCEPT ![r] = "refused429"]
      /\ at' = [at EXCEPT ![r] = now]
      /\ UNCHANGED <<now, log, got, gone>>
  BY DEF Refuse
<1>4. L \in Seq(Nat) /\ Len(L) \in Nat /\ now \in Nat BY <1>0 DEF TypeOK
<1>5. TypeOK'
  <2>1. head' \in [Key -> Nat \ {0}] BY <1>0, <1>2, <1>4 DEF TypeOK
  <2>2. \A q \in Key : head'[q] <= Len(log'[q]) + 1
    BY <1>0, <1>2, <1>3, <1>4 DEF TypeOK
  <2> QED BY <1>3, <2>1, <2>2 DEF TypeOK
<1>6. LogInv'
  <2>1. \A q \in Key : \A i \in 1 .. head'[q] - 1 : log[q][i] < now - Window
    BY <1>2 DEF LogInv, TypeOK
  <2> QED BY <2>1, <1>3 DEF LogInv
<1>7. SlidingWindow' BY <1>3 DEF SlidingWindow
<1>8. RefusedInv'
  <2> SUFFICES ASSUME NEW q \in Request, pc'[q] = "refused429"
               PROVE  \E g \in Nat \ {0} : Full(q, g)'
    BY DEF RefusedInv
  <2>1. CASE q = r
    <3>1. h \in Nat \ {0} /\ h + PerWindow - 1 <= Len(L)
      BY <1>1, <1>4 DEF Count
    <3>2. \A i \in h .. h + PerWindow - 1 : now - Window <= L[i] /\ L[i] <= now
      BY <3>1, <1>0, <1>2, <1>4 DEF LogInv
    <3>3. Full(r, h)' BY <3>1, <3>2, <1>3 DEF Full, TypeOK
    <3> QED BY <2>1, <3>1, <3>3
  <2>2. CASE q # r
    <3>1. pc[q] = "refused429" /\ at'[q] = at[q] BY <2>2, <1>3 DEF TypeOK
    <3> QED BY <3>1, <1>0, <1>3, <1>4, FullStays
  <2> QED BY <2>1, <2>2
<1>9. BodyInv' BY <1>3 DEF BodyInv, TypeOK
<1> QED BY <1>5, <1>6, <1>7, <1>8, <1>9

\* Steps that leave the log and the refusals alone.
LEMMA QuietInv ==
    ASSUME Inv, UNCHANGED <<log, head, at>>, now' \in Nat, now' >= now,
           pc' \in [Request -> {"new", "reading", "passed", "refused429", "refused413"}],
           \A r \in Request : pc'[r] = "refused429" => pc[r] = "refused429"
    PROVE  LogInv' /\ SlidingWindow' /\ RefusedInv'
<1> USE SettingsAssumption, RequestAssumption DEF Inv
<1>1. LogInv'
  <2>1. \A k \in Key : \A i \in 1 .. Len(log[k]) : log[k][i] \in Nat
    BY DEF TypeOK
  <2>2. \A k \in Key : \A i \in 1 .. head[k] - 1 : i \in 1 .. Len(log[k])
    BY DEF TypeOK
  <2> QED BY <2>1, <2>2, SMTT(30) DEF LogInv, TypeOK
<1>2. SlidingWindow' BY DEF SlidingWindow
<1>3. RefusedInv' BY DEF RefusedInv, Full
<1> QED BY <1>1, <1>2, <1>3

\* Reading a piece of a body keeps the invariant.
LEMMA ChunkInv ==
    ASSUME Inv, NEW r \in Request, Chunk(r) PROVE Inv'
<1> USE SettingsAssumption, RequestAssumption
<1>1. pc[r] = "reading" /\ ~gone[r] /\ UNCHANGED <<now, log, head, at, gone>>
  BY DEF Chunk
<1>2. PICK n \in 0 .. Size[r] - got[r] :
        \/ /\ n > 0 /\ got[r] + n > MaxBody
           /\ pc' = [pc EXCEPT ![r] = "refused413"]
           /\ UNCHANGED got
        \/ /\ got[r] + n <= MaxBody
           /\ got' = [got EXCEPT ![r] = @ + n]
           /\ \/ UNCHANGED pc
              \/ /\ got[r] + n = Size[r]
                 /\ pc' = [pc EXCEPT ![r] = "passed"]
  BY DEF Chunk
<1>3. /\ n \in Nat /\ got[r] \in Nat /\ Size[r] \in Nat /\ got[r] + n <= Size[r]
      /\ got[r] + n \in Nat
  BY DEF Inv, TypeOK
<1>4. /\ pc' \in [Request -> {"new", "reading", "passed", "refused429", "refused413"}]
      /\ \A q \in Request : pc'[q] = "refused429" => pc[q] = "refused429"
      /\ \A q \in Request \ {r} : pc'[q] = pc[q] /\ got'[q] = got[q]
      /\ got' \in [Request -> Nat]
  BY <1>2, <1>3 DEF Inv, TypeOK
<1>5. TypeOK' BY <1>1, <1>4 DEF Inv, TypeOK
<1>6. now' \in Nat /\ now' >= now BY <1>1 DEF Inv, TypeOK
<1>7. LogInv' /\ SlidingWindow' /\ RefusedInv'
  BY <1>1, <1>4, <1>6, QuietInv
<1>8. BodyInv'
  <2> SUFFICES ASSUME NEW q \in Request
               PROVE  /\ got'[q] <= Size[q]
                      /\ pc'[q] = "new" => got'[q] = 0
                      /\ BodyLimit /\ pc'[q] \in {"reading", "passed"} => got'[q] <= MaxBody
                      /\ BodyLimit /\ pc'[q] = "passed" /\ ~gone[q] => got'[q] = Size[q]
                      /\ BodyLimit /\ pc'[q] = "refused413" => Size[q] > MaxBody
    BY <1>1 DEF BodyInv
  <2>1. CASE q # r BY <2>1, <1>4 DEF Inv, BodyInv
  <2>2. CASE q = r BY <2>2, <1>1, <1>2, <1>3 DEF Inv, BodyInv, TypeOK
  <2> QED BY <2>1, <2>2
<1> QED BY <1>5, <1>7, <1>8 DEF Inv

LEMMA NextInv == Inv /\ [Next]_vars => Inv'
<1> SUFFICES ASSUME Inv, [Next]_vars PROVE Inv' OBVIOUS
<1> USE SettingsAssumption, RequestAssumption
<1>1. ASSUME NEW r \in Request, Exempt(r) PROVE Inv'
  <2>1. TypeOK' BY <1>1 DEF Inv, Exempt, TypeOK, AfterLimit
  <2>2. LogInv' /\ SlidingWindow' /\ RefusedInv'
    BY <1>1, <2>1, QuietInv DEF Inv, Exempt, TypeOK, AfterLimit
  <2>3. BodyInv' BY <1>1, AfterNew DEF Exempt
  <2> QED BY <2>1, <2>2, <2>3 DEF Inv
<1>2. ASSUME NEW r \in Request, Chunk(r) PROVE Inv'
  BY <1>2, ChunkInv
<1>3. ASSUME NEW r \in Request, ReadDisconnect(r) \/ Disconnects(r) PROVE Inv'
  <2>1. TypeOK' BY <1>3 DEF Inv, ReadDisconnect, Disconnects, TypeOK
  <2>2. LogInv' /\ SlidingWindow' /\ RefusedInv'
    BY <1>3, <2>1, QuietInv, SMTT(30) DEF Inv, ReadDisconnect, Disconnects, TypeOK
  <2>3. BodyInv' BY <1>3 DEF Inv, ReadDisconnect, Disconnects, BodyInv, TypeOK
  <2> QED BY <2>1, <2>2, <2>3 DEF Inv
<1>4. CASE Tick
  <2>1. TypeOK' BY <1>4 DEF Inv, Tick, TypeOK
  <2>2. LogInv' /\ SlidingWindow' /\ RefusedInv'
    BY <1>4, <2>1, QuietInv DEF Inv, Tick, TypeOK
  <2>3. BodyInv' BY <1>4 DEF Inv, Tick, BodyInv
  <2> QED BY <2>1, <2>2, <2>3 DEF Inv
<1>5. CASE UNCHANGED vars
  <2>1. TypeOK' BY <1>5 DEF Inv, vars, TypeOK
  <2>2. LogInv' /\ SlidingWindow' /\ RefusedInv'
    BY <1>5, <2>1, QuietInv DEF Inv, vars, TypeOK
  <2>3. BodyInv' BY <1>5 DEF Inv, vars, BodyInv
  <2> QED BY <2>1, <2>2, <2>3 DEF Inv
<1> QED
  BY <1>1, <1>2, <1>3, <1>4, <1>5, AllowInv, RefuseInv DEF Next, Quiescent

\* The invariant holds throughout.
LEMMA InvHolds == Spec => []Inv
<1>1. Init => Inv BY InitInv
<1>2. Inv /\ [Next]_vars => Inv' BY NextInv
<1> QED BY <1>1, <1>2, PTL DEF Spec

\* The deques, positions and body counters of the middleware keep their types.
THEOREM SecurityTypeCorrect == Spec => []TypeOK
<1>1. Inv => TypeOK BY DEF Inv
<1> QED BY <1>1, InvHolds, PTL

\* No window of any length and position lets more requests of a key through
\* than the limit.
THEOREM RateIsLimited == Spec => []SlidingWindow
<1>1. Inv => SlidingWindow BY DEF Inv
<1> QED BY <1>1, InvHolds, PTL

\* Nobody is refused whose own requests have not filled the window.
THEOREM RefusalIsDue == Spec => []RefusedOnlyIfFull
<1>1. Inv => RefusedOnlyIfFull
  <2> SUFFICES ASSUME Inv, NEW r \in Request, pc[r] = "refused429"
               PROVE  Cardinality({i \in 1 .. Len(log[KeyOf[r]]) :
                          /\ at[r] - Window <= log[KeyOf[r]][i]
                          /\ log[KeyOf[r]][i] <= at[r]}) >= PerWindow
    BY DEF RefusedOnlyIfFull
  <2> DEFINE k == KeyOf[r]
             I == {i \in 1 .. Len(log[k]) :
                      at[r] - Window <= log[k][i] /\ log[k][i] <= at[r]}
  <2>1. PICK h \in Nat \ {0} : Full(r, h) BY DEF Inv, RefusedInv
  <2>2. k \in Key /\ Len(log[k]) \in Nat /\ PerWindow \in Nat \ {0}
    BY RequestAssumption, SettingsAssumption DEF Inv, TypeOK
  <2>3. h .. h + PerWindow - 1 \subseteq I BY <2>1, <2>2 DEF Full
  <2>4. IsFiniteSet(I)
    <3>1. IsFiniteSet(1 .. Len(log[k])) BY <2>2, FS_Interval
    <3> QED BY <3>1, FS_Subset
  <2>5. Cardinality(h .. h + PerWindow - 1) = PerWindow
    BY <2>2, FS_Interval
  <2>6. Cardinality(h .. h + PerWindow - 1) <= Cardinality(I)
    BY <2>3, <2>4, FS_Subset
  <2>7. Cardinality(I) \in Nat BY <2>4, FS_CardinalityType
  <2> QED BY <2>2, <2>5, <2>6, <2>7
<1> QED BY <1>1, InvHolds, PTL

\* The application never gets a body over the limit, nor does a body that fits
\* bounce, in whatever chunks it comes.
THEOREM BodyIsLimited == Spec => []BodyFits
<1>1. Inv => BodyFits BY DEF Inv, BodyInv, BodyFits
<1> QED BY <1>1, InvHolds, PTL

\* A client that stays gets its whole body through.
THEOREM BodyArrives == Spec => []BodyIsWhole
<1>1. Inv => BodyIsWhole BY DEF Inv, BodyInv, BodyIsWhole
<1> QED BY <1>1, InvHolds, PTL
=============================================================================
