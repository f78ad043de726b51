--------------------------- MODULE FacilityQuestion ---------------------------
(***************************************************************************)
(* What is answered to a question about the elevators and the accessible   *)
(* restrooms of one station, from the results of the lookups: the state of *)
(* each kind of facility, the status of the response, the title, the       *)
(* table, the times, the parts that were not verified, and, if another     *)
(* facility was asked for, the facilities that are offered.  The texts are *)
(* left out; a title or a row is the claim it makes.                       *)
(*                                                                         *)
(* A facility record is [type, source, status, line, place, name], where   *)
(* place is the text of its location and name what it is called, if they   *)
(* are known.  reads maps each kind of facility that was asked for to the  *)
(* [value, sources, failed] of its query.                                  *)
(***************************************************************************)
EXTENDS Lookups, SequencesExt

CONSTANTS
    NoText,
    MaxRows,          \* MAX_MESSAGE_FACILITIES, 20 in the code
    MaxAlternatives   \* MAX_ALTERNATIVE_ITEMS, 5 in the code

ASSUME RowAssumption == {MaxRows, MaxAlternatives} \subseteq Nat \ {0}

Elevator == "ELEVATOR"
AccessibleRestroom == "ACCESSIBLE_RESTROOM"
FacilityTypes == <<Elevator, AccessibleRestroom>>
KindOf == [t \in Range(FacilityTypes) |-> IF t = Elevator THEN "elevators" ELSE "restrooms"]

Blocked == {"MAINTENANCE", "UNAVAILABLE"}
FirstOf(seq, n) == SubSeq(seq, 1, IF n < Len(seq) THEN n ELSE Len(seq))

-----------------------------------------------------------------------------
(* One lookup. *)

Failing(sources) == {m \in sources : ~m.success /\ ~m.unsupported}
Succeeded(sources) == {m \in sources : m.success}
AllOutside(sources) == sources # {} /\ \A m \in sources : m.unsupported

\* classify_lookup_result, for the tools that return one lookup as it is.
LookupClass(read) ==
    LET failed == read.failed # {} \/ Failing(read.sources) # {}
        usable == read.value # {} \/ Succeeded(read.sources) # {}
    IN  IF AllOutside(read.sources) THEN <<"PARTIAL", "UNSUPPORTED">>
        ELSE IF \E m \in read.sources : m.stale THEN <<"PARTIAL", "STALE">>
        ELSE IF failed THEN IF usable THEN <<"PARTIAL", "PARTIAL">> ELSE <<"FAILED", "FAILED">>
        ELSE IF \E m \in read.sources : m.unsupported THEN <<"PARTIAL", "PARTIAL">>
        ELSE <<"SUCCESS", IF read.value # {} THEN "DATA" ELSE "EMPTY">>

-----------------------------------------------------------------------------
(* The state of a kind of facility, and the status of the response. *)

\* Mutant: whatever is not restricted runs.
FacilityStateOptimistic(type, read) ==
    LET seen == {f.status : f \in read.value}
    IN  CASE AllOutside(read.sources) -> "UNSUPPORTED"
          [] ~AllOutside(read.sources) /\ read.value = {} -> "NOT_FOUND"
          [] OTHER -> IF seen \cap Blocked # {} THEN "MIXED" ELSE "AVAILABLE"

FacilityState(type, read) ==
    LET seen == {f.status : f \in read.value}
    IN  CASE AllOutside(read.sources) -> "UNSUPPORTED"
          [] ~AllOutside(read.sources) /\ read.value = {} ->
                IF Succeeded(read.sources) # {} THEN "NOT_FOUND" ELSE "UNKNOWN"
          [] OTHER -> IF type = Elevator THEN AnswerState(read.value)
                      ELSE IF Cardinality(seen) = 1 THEN CHOOSE status \in seen : TRUE ELSE "MIXED"

\* Mutant: one source that answered is enough.
ResponseStatusAny(items, sources, failed) ==
    IF Succeeded(sources) # {} THEN "SUCCESS" ELSE IF failed # {} THEN "FAILED" ELSE "PARTIAL"

ResponseStatus(items, sources, failed) ==
    LET having(state) == \E t \in DOMAIN items : items[t].state = state
        sourceFailed == failed # {} \/ Failing(sources) # {}
    IN  IF having("UNSUPPORTED") /\ ~sourceFailed THEN "PARTIAL"
        ELSE IF Succeeded(sources) = {} /\ (sourceFailed \/ sources = {}) THEN "FAILED"
        ELSE IF sourceFailed \/ having("UNKNOWN") THEN "PARTIAL" ELSE "SUCCESS"

FacilityResult(reads) ==
    LET items == [t \in DOMAIN reads |-> [state |-> FacilityState(t, reads[t]), facilities |-> reads[t].value]]
        sources == UNION {reads[t].sources : t \in DOMAIN reads}
        failed == UNION {reads[t].failed : t \in DOMAIN reads}
    IN  [items |-> items, sources |-> sources, failed |-> failed,
         status |-> ResponseStatus(items, sources, failed)]

\* A failure that no source stands for has evidence of its own.
EvidenceSources(r) ==
    r.sources \cup {Meta(name, FALSE, FALSE, FALSE) : name \in r.failed \ {m.name : m \in r.sources \ Succeeded(r.sources)}}

UnverifiedParts(r) ==
    {<<"failed", name>> : name \in r.failed}
        \cup {<<IF m.unsupported THEN "outside coverage" ELSE "stale", m.name>> :
                m \in {m \in r.sources : m.unsupported \/ m.stale}}
        \cup {<<r.items[t].state, t>> :
                t \in {t \in DOMAIN r.items : r.items[t].state \in {"NOT_FOUND", "UNSUPPORTED", "UNKNOWN"}}}

-----------------------------------------------------------------------------
(* The table. *)

\* What makes two records the same row of the table.
DisplayIdentity(f) == IF f.place # NoText THEN <<f.line, "place", f.place>> ELSE <<f.line, "name", f.name>>
Identified(f) == {f.place, f.name} # {NoText}

\* An elevator that only the installation data knows may run or not.
DisplayStatus(f) ==
    IF f.type = Elevator /\ f.source # "elevator_status" THEN "UNREPORTED" ELSE f.status

Row(f) == [type |-> f.type, key |-> DisplayIdentity(f), status |-> DisplayStatus(f)]

\* The reported elevators come first; a plan of one of them is not listed again.
DisplayRows(type, facilities) ==
    LET first == IF type = Elevator THEN Operational(facilities) ELSE facilities
        reported == {DisplayIdentity(f) : f \in {f \in first : Identified(f)}}
        plans == {f \in facilities \ first : ~(Identified(f) /\ DisplayIdentity(f) \in reported)}
    IN  SetToSeq({Row(f) : f \in first}) \o SetToSeq({Row(f) : f \in plans})

EmptyRow(type, state) ==
    [type |-> type, key |-> <<>>,
     status |-> CASE state = "NOT_FOUND" -> "not found" [] state = "UNKNOWN" -> "lookup failed"
                  [] state = "UNSUPPORTED" -> "outside coverage" [] OTHER -> state]

\* A kind of facility whose rows are all cut off is not mentioned again.
FacilityTable(r) ==
    LET rowsOf(t) == IF t \in DOMAIN r.items THEN DisplayRows(t, r.items[t].facilities) ELSE <<>>
        listed == rowsOf(Elevator) \o rowsOf(AccessibleRestroom)
    IN  [rows |-> Range(FirstOf(listed, MaxRows))
                    \cup {EmptyRow(t, r.items[t].state) : t \in {t \in DOMAIN r.items : r.items[t].facilities = {}}},
         omitted |-> Len(listed) - Len(FirstOf(listed, MaxRows))]

-----------------------------------------------------------------------------
(* The title: <<claim, the kinds of facility it is about>>. *)

\* The worst state that one of them is in; the table shows the others.
FirstClaim(claims) ==
    claims[CHOOSE i \in DOMAIN claims : claims[i][2] # {} /\ \A j \in 1 .. i - 1 : claims[j][2] = {}]

\* Mutant: what could not be looked up comes before what is known to be broken.
TitleUnknownFirst(r) ==
    LET having(state) == {t \in DOMAIN r.items : r.items[t].state = state}
        claims == <<<<"not confirmed", having("UNKNOWN")>>, <<"outside coverage", having("UNSUPPORTED")>>,
                    <<"some restricted", having("MIXED")>>, <<"under repair", having("MAINTENANCE")>>,
                    <<"out of use", having("UNAVAILABLE")>>, <<"not found", having("NOT_FOUND")>>,
                    <<"can be used", DOMAIN r.items>>>>
    IN  FirstClaim(claims)

Title(r) ==
    LET having(state) == {t \in DOMAIN r.items : r.items[t].state = state}
        unknown(empty) == {t \in having("UNKNOWN") : (r.items[t].facilities = {}) = empty}
        onlyElevators == DOMAIN r.items = {Elevator}
        unreported == onlyElevators /\ \E row \in Range(DisplayRows(Elevator, r.items[Elevator].facilities)) :
                                          row.status = "UNREPORTED"
        claims == <<<<"some restricted", having("MIXED")>>, <<"under repair", having("MAINTENANCE")>>,
                    <<"out of use", having("UNAVAILABLE")>>, <<"not confirmed", unknown(TRUE)>>,
                    <<"outside coverage", having("UNSUPPORTED")>>, <<"not found", having("NOT_FOUND")>>,
                    <<"state not confirmed", unknown(FALSE)>>,
                    <<CASE unreported -> "the known ones run" [] onlyElevators /\ ~unreported -> "all run"
                        [] OTHER -> "can be used", DOMAIN r.items>>>>
    IN  IF r.status = "FAILED" \/ r.items = <<>> THEN <<"not confirmed", {}>>
        ELSE FirstClaim(claims)

-----------------------------------------------------------------------------
(* The times.  aged are the sources whose answer was read from an entry of   *)
(* the cache that is more than five minutes old.                             *)

CheckedAt(r, name) ==
    LET sources == {m \in EvidenceSources(r) : m.name = name}
    IN  IF AllOutside(sources) THEN "outside coverage"
        ELSE IF Succeeded(sources) # {} THEN "checked" ELSE "failed"

\* One line if every source answered, at about the same time.  The plans of
\* the elevators may be older.
\* Mutant: a source that failed is passed over.
OneTimeIfAny(r, aged) ==
    LET timed == {m.name : m \in Succeeded(EvidenceSources(r))} \ {"elevator_info"}
    IN  timed # {} /\ (timed \cap aged = {} \/ timed \subseteq aged)

OneTime(r, aged) ==
    LET names == {m.name : m \in EvidenceSources(r)}
        timed == {name \in names : CheckedAt(r, name) = "checked"} \ {"elevator_info"}
    IN  /\ \A name \in names : CheckedAt(r, name) = "checked"
        /\ timed \cap aged = {} \/ timed \subseteq aged

CheckedAtLines(r, aged) ==
    IF OneTime(r, aged) THEN {} ELSE {<<m.name, CheckedAt(r, m.name)>> : m \in EvidenceSources(r)}

FacilityNotices(r) ==
    {IF Elevator \in DOMAIN r.items THEN "status may change" ELSE "public data", "public data"}
        \cup {n \in {"some data not confirmed"} : r.failed # {} \/ r.status = "FAILED"}
        \cup {m.name : m \in r.sources \ Succeeded(r.sources)}

FacilityMessage(r, aged) ==
    [title |-> Title(r), table |-> FacilityTable(r), times |-> CheckedAtLines(r, aged),
     notices |-> FacilityNotices(r)]

-----------------------------------------------------------------------------
(* The answer to who asks for another facility at the station. *)

AllFacilities(r) == UNION {r.items[t].facilities : t \in DOMAIN r.items}

Offered(r) == {f \in AllFacilities(r) : f.status = "AVAILABLE" /\ f.place # NoText}

\* Mutant: only what is out of use is blocked.
BlockedAtUnavailable(r) == {f \in AllFacilities(r) : f.status = "UNAVAILABLE"}

BlockedAt(r) == {f \in AllFacilities(r) : f.status \in Blocked}

AlternativeVerdict(r) ==
    CASE r.status = "FAILED" -> "cannot tell"
      [] r.status # "FAILED" /\ Offered(r) # {} ->
            IF BlockedAt(r) # {} THEN "others can be used" ELSE "nothing is broken"
      [] OTHER -> "no alternative"

\* The state of every kind is told by the statuses of its records.
StationStatusLines(r) ==
    UNION {{t} \X {f.status : f \in r.items[t].facilities} : t \in DOMAIN r.items}

AlternativeMessage(r) ==
    [verdict |-> AlternativeVerdict(r), status |-> StationStatusLines(r),
     offered |-> Range(FirstOf(SetToSeq(Offered(r)), MaxAlternatives)),
     times |-> {<<m.name, IF m.success THEN "checked" ELSE "failed">> : m \in EvidenceSources(r)}]
=============================================================================
