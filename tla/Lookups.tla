------------------------------- MODULE Lookups -------------------------------
(***************************************************************************)
(* The stations and the lookups that the answers to trips and to questions *)
(* about facilities share: a name and a line are resolved, the coverage of *)
(* the sources is looked at, and each source is read as far as it covers   *)
(* the station.  A lookup ends with an answer ("ok"), with what an expired *)
(* entry of the cache still holds ("stale"), or without ("failed").        *)
(***************************************************************************)
EXTENDS TripJudgement

CONSTANTS
    Station,
    Line,
    RegistryLines,   \* RegistryLines[s]: the lines station_aliases.yaml lists s under
    Uncovered        \* the <<source, station, line>> outside source_coverage.yaml

FacilitySources == {"facility_info", "elevator_status", "elevator_info", "restroom"}

ASSUME RegistryAssumption ==
    /\ NoLine \notin Line
    /\ RegistryLines \in [Station -> SUBSET Line]
    /\ Uncovered \subseteq FacilitySources \X Station \X Line

\* resolve_station for a registered name, with a line or without.
Resolve(s, line) ==
    LET matched == IF line # NoLine THEN line \in RegistryLines[s]
                                    ELSE Cardinality(RegistryLines[s]) = 1
    IN  [matched |-> matched,
         line |-> IF line = NoLine /\ matched THEN CHOOSE l \in RegistryLines[s] : TRUE ELSE line]

-----------------------------------------------------------------------------
(* What a lookup contributes. *)

Meta(name, success, stale, unsupported) ==
    [name |-> name, success |-> success, stale |-> stale, unsupported |-> unsupported]

Nothing == [value |-> {}, sources |-> {}, failed |-> {}]

\* A stale value always comes with the failure that led to it.
\* Mutant: a stale value is reported as if the source had answered.
ReadQuietly(name, outcome, fresh, old) ==
    [value |-> CASE outcome = "ok" -> fresh [] outcome = "stale" -> old [] OTHER -> {},
     sources |-> {Meta(name, outcome # "failed", FALSE, FALSE)},
     failed |-> IF outcome = "failed" THEN {name} ELSE {}]

Read(name, outcome, fresh, old) ==
    [value |-> CASE outcome = "ok" -> fresh [] outcome = "stale" -> old [] OTHER -> {},
     sources |-> {Meta(name, outcome = "ok", outcome = "stale", FALSE)},
     failed |-> IF outcome = "ok" THEN {} ELSE {name}]

\* The records of source name that match the station and its line.
Rows(name, records, line) ==
    {f \in records : f.source = name /\ (NoLine \in {line, f.line} \/ f.line = line)}

\* held and old are what the source and the cache hold for station s.
Lookup(name, s, line, outcome, held, old) ==
    LET station == Resolve(s, line)
    IN  IF station.matched /\ <<name, s, station.line>> \in Uncovered
        THEN [Nothing EXCEPT !.sources = {Meta(name, FALSE, FALSE, TRUE)}]
        ELSE Read(name, outcome, Rows(name, held, station.line), Rows(name, old, station.line))

Unresolved(s, line) == line # NoLine /\ ~Resolve(s, line).matched

Both(x, y) == [value |-> x.value \cup y.value, sources |-> x.sources \cup y.sources,
               failed |-> x.failed \cup y.failed]

SourcesOf(kind) ==
    CASE kind = "facilities" -> {"facility_info"}
      [] kind = "elevators" -> {"elevator_status", "elevator_info"}
      [] OTHER -> {"restroom"}

\* One query of the facility service; outcome gives the end of each lookup in it.
Query(s, line, kind, outcome, held, old) ==
    LET result(name) == Lookup(name, s, line, outcome[name], held, old)
    IN  CASE Unresolved(s, line) -> [Nothing EXCEPT !.failed = {"station_resolution"}]
          [] kind = "elevators" /\ ~Unresolved(s, line) -> Both(result("elevator_status"), result("elevator_info"))
          [] OTHER -> result(CHOOSE name \in SourcesOf(kind) : TRUE)

\* The ends of the lookups of one query, each source ending on its own.
Endings(kind, outcomes) ==
    {o \in [SourcesOf(kind) -> {"ok", "stale", "failed"}] : \A name \in DOMAIN o : o[name] \in outcomes[name]}
=============================================================================
