------------------------------- MODULE MCRaptor -------------------------------
(***************************************************************************)
(* Instances of Raptor for TLC: a search from station 1 to station 4, over *)
(* the timetables that a reload computes from small databases.             *)
(***************************************************************************)
EXTENDS Raptor, TLC

Four == 1..4

(* A row of a trip: its route, id and date, and its stops with arrival and *)
(* departure.                                                              *)
Trip(route, id, date, stops, arr, dep) ==
    [route |-> route, trip |-> id, date |-> date, stops |-> stops, arr |-> arr, dep |-> dep]

(* Route 1, past station 2: locals and expresses, which may overtake while *)
(* riding (a4) or standing (a3), and two, a2 and a6, that leave station 2  *)
(* at one time without overtaking.                                         *)
a1 == Trip(1, 5, 0, <<1, 2, 4>>, <<1, 4, 11>>, <<1, 4, 11>>)
a2 == Trip(1, 4, 0, <<1, 2, 4>>, <<2, 4, 12>>, <<2, 5, 12>>)
a3 == Trip(1, 3, 0, <<1, 2, 4>>, <<2, 3, 12>>, <<2, 6, 12>>)
a4 == Trip(1, 2, 0, <<1, 2, 4>>, <<3, 4, 8>>, <<3, 4, 8>>)
a5 == Trip(1, 1, 0, <<1, 2, 4>>, <<0, 5, 10>>, <<0, 5, 10>>)
a6 == Trip(1, 6, 0, <<1, 2, 4>>, <<0, 3, 9>>, <<0, 5, 9>>)

(* Route 2 connects there; b3 is b1 a day later, b4 a day earlier, b5 two   *)
(* days later.                                                             *)
b1 == Trip(2, 15, 0, <<2, 3, 4>>, <<4, 5, 7>>, <<4, 6, 7>>)
b2 == Trip(2, 14, 0, <<2, 3, 4>>, <<5, 6, 9>>, <<5, 7, 9>>)
b3 == Trip(2, 15, 1, <<2, 3, 4>>, <<6, 7, 10>>, <<6, 8, 10>>)
b4 == Trip(2, 12, -1, <<2, 3, 4>>, <<5, 8, 9>>, <<5, 8, 9>>)
b5 == Trip(2, 11, 2, <<2, 3, 4>>, <<4, 5, 6>>, <<4, 5, 6>>)

(* Route 3 starts at station 3; c3 does not stop where the others do. *)
c1 == Trip(3, 23, 0, <<3, 4>>, <<6, 8>>, <<6, 8>>)
c2 == Trip(3, 24, 0, <<3, 4>>, <<7, 9>>, <<8, 9>>)
c3 == Trip(3, 25, 0, <<2, 4>>, <<4, 5>>, <<4, 5>>)

(* Route 4 goes past station 2. *)
d1 == Trip(4, 33, 0, <<1, 3>>, <<1, 7>>, <<1, 7>>)

Walk(from, to, secs) == [from |-> from, to |-> to, secs |-> secs]

FootpathTables ==
    { {},
      {Walk(1, 2, 2)},
      {Walk(2, 3, 1), Walk(3, 2, 1)},
      {Walk(2, 3, 1), Walk(3, 4, 2), Walk(1, 2, 4)},
      {Walk(2, 3, 3), Walk(3, 4, 3)},
      {Walk(1, 2, 1), Walk(1, 3, 4), Walk(2, 3, 2), Walk(3, 2, 2), Walk(2, 4, 3),
       Walk(2, 2, 1)} }

Pairs(S) == {T \in SUBSET S : Cardinality(T) = 2}

Databases ==
    {[rows |-> a \cup b \cup c, footpaths |-> f] :
        a \in Pairs({a1, a2, a3, a4, a5, a6}),
        b \in {{b1, b2}, {b1, b3}, {b2, b4}, {b3, b5}, {b2, b5}},
        c \in {{d1}, {c1, c2, c3}},
        f \in FootpathTables}

Loaded == {ReloadRouteArrays(db) : db \in Databases}
          \cup {ReloadRouteArrays([rows |-> {}, footpaths |-> {}])}

(* What is published while the search runs: a schedule cut down to one trip.*)
OneTrip == {ReloadRouteArrays([rows |-> {a1}, footpaths |-> {}])}

FromOneToFour == {[origin |-> 1, dest |-> 4, dep |-> d, day |-> 0] : d \in {0, 1}}

(* No signals yet, or signals of some trips. *)
Signals == {<<>>, (<<5, 0>> :> "short") @@ (<<14, 0>> :> "short")
                  @@ (<<15, 0>> :> "enough") @@ (<<4, 0>> :> "stale")}
==============================================================================
