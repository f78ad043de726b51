---------------------------- MODULE GatherProofs ----------------------------
(***************************************************************************)
(* What gather_limited guarantees for any number of operations and any     *)
(* limit: the bound on what runs, and that no operation is left behind     *)
(* where the caller relies on it.                                          *)
(***************************************************************************)
EXTENDS GatherLimited, FiniteSetTheorems, TLAPS

Inv == TypeOK /\ WithinLimit /\ NothingLeftBehind

\* The running jobs are finitely many, so that they can be counted.
LEMMA RunningFinite ==
    /\ IsFiniteSet(Running)
    /\ Cardinality(Running) \in Nat
<1>1. IsFiniteSet(Job) BY FS_Interval, GatherAssumption DEF Job
<1>2. Running \subseteq Job BY DEF Running
<1>3. IsFiniteSet(Running) BY <1>1, <1>2, FS_Subset
<1> QED BY <1>3, FS_CardinalityType

\* There is at least one permit, whatever limit the caller gives.
LEMMA SlotsNat == Slots \in Nat \ {0}
BY GatherAssumption DEF Slots

\* Fewer tasks run after a step that starts none.
LEMMA FewerRunning ==
    ASSUME Running' \subseteq Running
    PROVE  WithinLimit => WithinLimit'
<1>1. Cardinality(Running') <= Cardinality(Running) /\ Cardinality(Running') \in Nat
  BY RunningFinite, FS_Subset, FS_CardinalityType
<1> QED BY <1>1, RunningFinite, SlotsNat DEF WithinLimit, Slots

LEMMA InitInv == Init => Inv
<1> SUFFICES ASSUME Init PROVE Inv OBVIOUS
<1>1. Running = {} BY DEF Init, Running
<1>2. WithinLimit BY <1>1, FS_EmptySet, SlotsNat DEF WithinLimit
<1> QED BY <1>2 DEF Inv, Init, TypeOK, NothingLeftBehind

LEMMA NextInv == Inv /\ [Next]_vars => Inv'
<1> SUFFICES ASSUME Inv, [Next]_vars PROVE Inv' OBVIOUS
<1> USE DEF Inv
<1>1. ASSUME NEW n \in 0 .. MaxJobs, Gather(n) PROVE Inv'
  <2>1. TypeOK' BY <1>1 DEF Gather, TypeOK
  <2>2. Running' = {} BY <1>1 DEF Gather, Running
  <2>3. WithinLimit' BY <2>2, FewerRunning
  <2>4. NothingLeftBehind' BY <1>1 DEF Gather, NothingLeftBehind
  <2> QED BY <2>1, <2>3, <2>4
<1>2. ASSUME NEW j \in Job, Begin(j) PROVE Inv'
  <2>1. TypeOK' BY <1>2 DEF Begin, TypeOK
  <2>2. WithinLimit'
    <3>1. Running' = Running \cup {j} /\ j \notin Running
      BY <1>2 DEF Begin, Running, TypeOK
    <3>2. Cardinality(Running') = Cardinality(Running) + 1
      BY <3>1, RunningFinite, FS_AddElement
    <3> QED BY <3>2, <1>2, RunningFinite, SlotsNat DEF Begin, WithinLimit, Slots
  <2>3. NothingLeftBehind'
    BY <1>2 DEF Begin, NothingLeftBehind, TypeOK, AllOk, Failed, Unfinished
  <2> QED BY <2>1, <2>2, <2>3
<1>3. ASSUME NEW j \in Job, End(j) PROVE Inv'
  <2>1. TypeOK' BY <1>3 DEF End, TypeOK
  <2>2. Running' \subseteq Running BY <1>3 DEF End, Running, TypeOK
  <2>3. WithinLimit' BY <2>2, FewerRunning
  <2>4. NothingLeftBehind'
    BY <1>3 DEF End, NothingLeftBehind, TypeOK, AllOk, Failed, Unfinished
  <2> QED BY <2>1, <2>3, <2>4
<1>4. ASSUME Cancel PROVE Inv'
  <2>1. TypeOK' BY <1>4 DEF Cancel, TypeOK
  <2>2. Running' \subseteq Running BY <1>4 DEF Cancel, Running, TypeOK
  <2>3. WithinLimit' BY <2>2, FewerRunning
  <2>4. NothingLeftBehind'
    BY <1>4 DEF Cancel, NothingLeftBehind, TypeOK, Failed, Unfinished
  <2> QED BY <2>1, <2>3, <2>4
<1>5. ASSUME UNCHANGED task, outer' = outer \/ Return \/ Raise PROVE Inv'
  <2>1. Running' = Running BY <1>5 DEF Running
  <2>2. WithinLimit' BY <2>1, FewerRunning
  <2> QED
    BY <1>5, <2>2 DEF Return, Raise, TypeOK, NothingLeftBehind,
                      AllOk, Failed
<1> QED
  BY <1>1, <1>2, <1>3, <1>4, <1>5 DEF Next, Return, Raise, Done, vars

LEMMA InvHolds == Spec => []Inv
<1>1. Init => Inv BY InitInv
<1>2. Inv /\ [Next]_vars => Inv' BY NextInv
<1> QED BY <1>1, <1>2, PTL DEF Spec

\* The state of a call and of its tasks is always one of the listed ones.
THEOREM GatherTypeCorrect == Spec => []TypeOK
<1>1. Inv => TypeOK BY DEF Inv
<1> QED BY <1>1, InvHolds, PTL

\* The bound of gather_limited's docstring, for every limit and every number
\* of operations: there are never more running than the limit, whatever has
\* failed or been cancelled.
THEOREM BoundHolds == Spec => []WithinLimit
<1>1. Inv => WithinLimit BY DEF Inv
<1> QED BY <1>1, InvHolds, PTL

\* A list that was returned lacks no result, and a cancelled caller leaves no
\* operation behind unless one had failed before.
THEOREM NoneLeftBehind == Spec => []NothingLeftBehind
<1>1. Inv => NothingLeftBehind BY DEF Inv
<1> QED BY <1>1, InvHolds, PTL
=============================================================================
