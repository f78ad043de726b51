------------------------------- MODULE MCTrip -------------------------------
(* Instances of Trip for TLC: the way from a to b, also by way of t. *)
EXTENDS TripMessage

Segment(from, to, line, transfer) == [from |-> from, to |-> to, line |-> line, transfer |-> transfer]
Route(id, stations, segments, transfers, minutes) ==
    [id |-> id, origin |-> "a", destination |-> "b", stations |-> stations,
     segments |-> segments, transfers |-> transfers, minutes |-> minutes]

\* On line 1 all the way, past t; on line 2; with a change at t; and a row
\* without segments, for which the normalizer makes segments with no line.
Direct == Route(1, <<"a", "t", "b">>, <<Segment("a", "b", "1", FALSE)>>, 0, 20)
Other == Route(2, <<"a", "b">>, <<Segment("a", "b", "2", FALSE)>>, 0, 0)
Change == Route(3, <<"a", "t", "b">>, <<Segment("a", "t", "1", FALSE), Segment("t", "b", "2", FALSE)>>, 1, 15)
Bare == Route(4, <<"a", "t", "b">>, <<Segment("a", "t", NoLine, FALSE), Segment("t", "b", NoLine, TRUE)>>, 0, 18)
Broken == Route(5, <<"a", "b">>, <<>>, 0, 5)

AllLists == {{Direct, Change}, {Direct}, {Bare}, {Broken}, {Other}}
RestroomLists == {{Direct, Change}, {Change, Broken}}

\* The registry does not have b on line 1.
Registry == [s \in Station |-> IF s = "b" THEN {"2"} ELSE {"1", "2"}]
RowOrder == [s \in Station |-> "2"]

\* Line 2 is another operator's at a, where it has no code yet (test_station_support.py).
OtherOperator == FacilitySources \X {"a"} \X {"2"}
Codeless == {<<"a", "2">>}

Walker == [wheelchair |-> FALSE, stroller |-> FALSE, cane_or_walker |-> FALSE, can_use_stairs |-> TRUE,
           can_use_escalator |-> TRUE, need_elevator_only |-> FALSE, need_accessible_restroom |-> FALSE,
           need_wheelchair_charger |-> FALSE, restroom |-> "ALL_KEY_STATIONS", avoid_many_transfers |-> TRUE, max_transfer_count |-> -1]
Wheelchair == [Walker EXCEPT !.wheelchair = TRUE, !.can_use_stairs = FALSE, !.can_use_escalator = FALSE,
                             !.need_elevator_only = TRUE]
Charging == [Wheelchair EXCEPT !.need_wheelchair_charger = TRUE]
Stroller == [Walker EXCEPT !.stroller = TRUE]
Unchanging == [Walker EXCEPT !.max_transfer_count = 0]
Restroom(need) == [Walker EXCEPT !.need_accessible_restroom = TRUE, !.restroom = need]

Ask(fromLine, toLine, misspelt, profile) ==
    [from |-> "a", to |-> "b", fromLine |-> fromLine, toLine |-> toLine, misspelt |-> misspelt,
     profile |-> profile]

AskedForElevators == {Ask("1", NoLine, {"b"}, Wheelchair), Ask(NoLine, NoLine, {"a", "b"}, Charging),
                      Ask("1", NoLine, {}, Charging),
                      Ask("1", "1", {}, Stroller), Ask("1", NoLine, {}, Stroller),
                      Ask("1", NoLine, {}, Unchanging)}
AskedForRestroomOf(need) == Ask("1", NoLine, {"b"}, Restroom(need))
AskedForRestroom == {AskedForRestroomOf(n) :
                        n \in {"ALL_KEY_STATIONS", "ANY_ROUTE_STATION", "ORIGIN_OR_DESTINATION", "TRANSFER"}}
Asked == AskedForElevators \cup AskedForRestroom
AskedAtDestination == {Ask("1", NoLine, {"b"}, Restroom("DESTINATION"))}
AskedAnywhere == {Ask("1", NoLine, {"b"}, Restroom("ANY_ROUTE_STATION"))}

Record(type, source, status, line, paths) ==
    [type |-> type, source |-> source, status |-> status, line |-> line, paths |-> paths, id |-> NoId]
AllPaths == {"platform", "transfer", "exit"}
Lift(status, paths) == {Record("ELEVATOR", "elevator_status", status, l, paths) : l \in Line}
\* The status of an installation record is what it was at some time.
PlanOf(status, paths) == {Record("ELEVATOR", "elevator_info", status, NoLine, paths)}
Plan(paths) == PlanOf("AVAILABLE", paths)
Moving == {Record("ESCALATOR", "facility_info", "AVAILABLE", l, {}) : l \in Line}
Toilet(status) == {Record("ACCESSIBLE_RESTROOM", "restroom", status, NoLine, {})}

\* A numbered elevator without texts, and the plan that has them.
Numbered(status, paths) ==
    {[e EXCEPT !.id = "e1"] : e \in Lift(status, {}) \cup Plan(paths)}

\* One elevator more than the table shows.
Crowded == Lift("AVAILABLE", AllPaths) \cup Lift("AVAILABLE", {"platform"}) \cup Lift("AVAILABLE", {"exit"})
              \cup Lift("UNKNOWN", {"platform"}) \cup Lift("UNAVAILABLE", {"platform", "transfer"})

\* More restricted elevators than the summary names.
Closed == Lift("MAINTENANCE", {"platform"}) \cup Lift("MAINTENANCE", {"exit"}) \cup Lift("UNAVAILABLE", AllPaths)

\* One runs, and nobody knows of the others, more than the table shows.
Doubtful == Lift("AVAILABLE", AllPaths) \cup Lift("UNKNOWN", {"platform"}) \cup Lift("UNKNOWN", {"exit"})
              \cup Lift("UNKNOWN", {"door"}) \cup Lift("UNKNOWN", {"platform", "exit"})

Good == Lift("AVAILABLE", AllPaths)
World(a, t, b) == [s \in Station |-> CASE s = "a" -> a [] s = "t" -> t [] OTHER -> b]

PartlyKnown == World(Good, Good, Good \cup Lift("UNKNOWN", {"door"}))

\* All elevators run; one is being repaired at the change, and no record names the
\* exit of the first station; some of them do not run; only the
\* installation is known; a leg is named by the installation data only, or by
\* nobody, with the other end closed; no elevator, but an escalator, and at the change
\* one runs of many; one runs and nobody knows of another; all are closed at the first
\* station, and at the last one.
States == {World(Good, Good, Good),
           World(Lift("AVAILABLE", {"platform"}), Lift("MAINTENANCE", AllPaths), Good),
           World(Crowded, Good, Good),
           World(Good, Good, Plan(AllPaths)),
           World(Good, PlanOf("MAINTENANCE", {}), Numbered("AVAILABLE", {"platform", "exit"})),
           World(Lift("AVAILABLE", {"platform"}), Good, Lift("MAINTENANCE", AllPaths)),
           World(Good, Doubtful, Moving),
           PartlyKnown,
           World(Closed, Good, Lift("MAINTENANCE", AllPaths))}
\* Restrooms everywhere, nowhere, at one end, or closed.
RestroomStates == {World(Good \cup x, Good \cup y, Good \cup z) : x, y, z \in {{}, Toilet("AVAILABLE")}}
                      \cup {World(Good, Good, Good \cup Toilet("UNKNOWN"))}

\* What the cache still holds was good, with a restroom.
Cached == [s \in Station |-> Good \cup Toilet("AVAILABLE")]

Ends(route, facility, status, info, restroom) ==
    [n \in FacilitySources \cup {"shortest_route"} |->
        CASE n = "shortest_route" -> route [] n = "facility_info" -> facility
          [] n = "elevator_status" -> status [] n = "elevator_info" -> info [] OTHER -> restroom]
ElevatorEnds(route, facility, status) == Ends(route, facility, status, {"ok"}, {"ok"})
AllEnds == ElevatorEnds({"ok", "stale", "failed"}, {"ok", "failed"}, {"ok", "stale", "failed"})
RestroomEnds(restroom) == Ends({"ok"}, {"ok"}, {"ok"}, {"ok"}, restroom)

\* A traveller who needs a restroom is given the states of the restrooms, any
\* other one those of the elevators.
Of(restrooms, elevators) ==
    [q \in Requests |-> IF q.profile.need_accessible_restroom THEN restrooms ELSE elevators]
Known == [Of(RestroomStates, States) EXCEPT
             ![Ask("1", NoLine, {}, Unchanging)] = {World(Good, Good, Good), PartlyKnown}]

\* All mixes of endings for one traveller of either kind, and parts of them for the
\* others; a requirement on ends or changes only has a route that tells it apart.
Lists == [Of(RestroomLists, AllLists) EXCEPT
             ![Ask(NoLine, NoLine, {"a", "b"}, Charging)] = AllLists \ {{Direct}},
             ![AskedForRestroomOf("ORIGIN_OR_DESTINATION")] = {{Direct, Change}},
             ![AskedForRestroomOf("TRANSFER")] = {{Change, Broken}}]
Ending == [Of(RestroomEnds({"ok", "failed"}), AllEnds) EXCEPT
              ![Ask("1", NoLine, {"b"}, Wheelchair)] = ElevatorEnds({"ok"}, {"ok", "failed"}, {"ok", "failed"}),
              ![Ask("1", NoLine, {}, Stroller)] = ElevatorEnds({"ok"}, {"ok", "failed"}, {"ok", "stale"}),
              ![Ask("1", NoLine, {}, Charging)] = ElevatorEnds({"ok"}, {"ok"}, {"ok", "stale", "failed"}),
              ![AskedForRestroomOf("ORIGIN_OR_DESTINATION")] = RestroomEnds({"ok", "stale"}),
              ![AskedForRestroomOf("ANY_ROUTE_STATION")] = RestroomEnds({"ok", "stale", "failed"})]
AllOk == [n \in FacilitySources \cup {"shortest_route"} |-> {"ok"}]
Undisturbed == Of(AllOk, AllOk)
BareOnly == Of({{Bare}}, {{Bare}})
=============================================================================
