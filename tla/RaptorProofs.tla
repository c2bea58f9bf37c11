----------------------------- MODULE RaptorProofs -----------------------------
(***************************************************************************)
(* A search, for any timetables, signals, queries and numbers of rounds:   *)
(* every label is earned, the timetables are what the scan takes them to   *)
(* be, and every journey returned can be travelled.                        *)
(*                                                                         *)
(* The inductive invariant of the labels adds what the loops carry: the    *)
(* ride that will be alighted from was boarded in time with a label of the *)
(* round before, and the walks still to be made leave no earlier than the  *)
(* labels of this round.  For the journeys it adds where each entry of the *)
(* journal comes from.                                                     *)
(***************************************************************************)
EXTENDS Raptor, TimetableProofs

Boarded(r) ==
    /\ r.trip \in DOMAIN Route.trips
    /\ r.from \in Stations /\ r.dep \in Int
    /\ tau[k-1][r.from] # Never
    /\ r.dep >= ReadyAt(k-1, r.from)

Ride == [pos: Nat, trip: Nat, from: Stations \cup {Never}, dep: Int \cup {Never}]

RideOK(r) ==
    /\ r \in Ride
    /\ ~Route.fifo => r.trip \in DOMAIN Route.trips
    /\ r.from # Never => Boarded(r)

QueueOK(q) == \A e \in q : e.route \in DOMAIN net.routes
                           /\ e.pos \in DOMAIN net.routes[e.route].stops

ScanInv ==
    phase = "scan" =>
        /\ k >= 1
        /\ QueueOK(queue)
        /\ queue # {} => RideOK(ride) /\ ride.pos \in DOMAIN Route.stops

WalkOK(w) ==
    /\ w.from \in Stations /\ w.to \in Stations /\ w.depart \in Int /\ w.secs \in Nat
    /\ tau[k][w.from] # Never
    /\ w.depart >= tau[k][w.from]
    /\ \E x \in net.walks[w.from] : x.to = w.to /\ x.secs = w.secs

WalkInv == phase = "walk" => \A w \in walks : WalkOK(w)

CurrentInv ==
    /\ phase = "idle" => k = 0
    /\ Searching => best = tau[k] /\ \A s \in improved : tau[k][s] # Never

SearchInv == TypeOK /\ LabelsJustified /\ CurrentInv /\ ScanInv /\ WalkInv

(* The scan goes on with a route of the queue. *)
LEMMA FirstInQueue ==
    ASSUME NEW q, q # {}, \A e \in q : e.route \in Nat
    PROVE  First(q) \in q
<1> DEFINE indexes == {e.route : e \in q}
<1>1. indexes \in SUBSET Nat /\ indexes # {}
    OBVIOUS
<1>2. Min(indexes) \in indexes /\ \A y \in indexes : Min(indexes) <= y
    BY <1>1, MinIsLeast
<1>3. PICK e \in q : e.route = Min(indexes)
    BY <1>2
<1>4. \A f \in q : e.route <= f.route
    BY <1>2, <1>3
<1> QED BY <1>4 DEF First

(* The queue of a round holds routes of the timetable, with a position     *)
(* each.                                                                   *)
LEMMA RouteQueueOK ==
    ASSUME WellFormed(net), NEW marked
    PROVE  QueueOK(RouteQueue(marked))
<1> DEFINE stopsAt(r) == {p \in DOMAIN net.routes[r].stops : net.routes[r].stops[p] \in marked}
<1>1. ASSUME NEW r \in DOMAIN net.routes, stopsAt(r) # {}
      PROVE  Min(stopsAt(r)) \in DOMAIN net.routes[r].stops
  <2>1. net.routes[r].stops \in Seq(Stations)
      BY <1>1 DEF WellFormed, WellFormedRoute
  <2>2. stopsAt(r) \in SUBSET Nat
      BY <2>1
  <2> HIDE DEF stopsAt
  <2>3. Min(stopsAt(r)) \in stopsAt(r)
      BY <1>1, <2>2, MinIsLeast
  <2> QED BY <2>3 DEF stopsAt
<1>2. ASSUME NEW e \in RouteQueue(marked)
      PROVE  e.route \in DOMAIN net.routes /\ e.pos \in DOMAIN net.routes[e.route].stops
  <2>1. PICK r \in DOMAIN net.routes : stopsAt(r) # {} /\ e = [route |-> r, pos |-> Min(stopsAt(r))]
      BY <1>2 DEF RouteQueue
  <2> QED BY <1>1, <2>1
<1> QED BY <1>2 DEF QueueOK

(***************************************************************************)
(* Improving a label                                                       *)
(***************************************************************************)

(* The part of LabelsJustified about one label. *)
Justified(r, s) ==
    LET e == journal[r][s]
    IN  /\ e = NoEntry => tau[r][s] = IF s = query.origin THEN query.dep ELSE Never
        /\ e # NoEntry => tau[r][s] = e.arr /\ tau[e.fromRound][e.from] # Never
        /\ e.kind = "transit" => e.fromRound < r /\ e.dep >= ReadyAt(e.fromRound, e.from)
        /\ e.kind = "walk" =>
             /\ e.fromRound <= r /\ e.dep >= tau[e.fromRound][e.from]
             /\ \E w \in net.walks[e.from] : w.to = s /\ e.arr = e.dep + w.secs

(* What entry e needs to be the last leg of a label of s in this round. *)
Earned(e, s) ==
    /\ e \in Entry
    /\ e.kind = "transit" =>
         /\ e.fromRound = k - 1 /\ tau[k-1][e.from] # Never
         /\ e.dep >= ReadyAt(k-1, e.from)
    /\ e.kind = "walk" =>
         /\ e.fromRound = k /\ tau[k][e.from] # Never /\ e.dep >= tau[k][e.from]
         /\ \E w \in net.walks[e.from] : w.to = s /\ e.arr = e.dep + w.secs

(* Labels of this round only improve and those of other rounds stay. *)
LabelsImprove ==
    /\ \A s \in Stations : tau[k][s] # Never => tau'[k][s] # Never /\ tau'[k][s] <= tau[k][s]
    /\ \A r \in 0..k-1 : tau'[r] = tau[r] /\ journal'[r] = journal[r]

(* What a scan or a pass over footpaths leaves as it is. *)
Frame == UNCHANGED <<query, net, signals, k, liveRoutes, liveSignals, swaps, preWalk>>

LEMMA Types ==
    ASSUME TypeOK, Searching
    PROVE  /\ k \in Nat /\ k <= MaxRounds
           /\ query.origin \in Stations /\ query.dest \in Stations /\ query.dep \in Int
           /\ tau \in [0..k -> Times]
           /\ journal \in [0..k -> [Stations -> Entry \cup {NoEntry}]]
           /\ \A r \in 0..k : \A s \in Stations :
                /\ tau[r][s] \in Int \cup {Never}
                /\ journal[r][s] = NoEntry \/ journal[r][s] \in Entry
           /\ Never \notin Int
BY RaptorAssumption, TimetableAssumption DEF TypeOK, RaptorAssumption, TimetableAssumption, Times

LEMMA ReadyIsInt ==
    ASSUME TypeOK, Searching, NEW r \in 0..k, NEW s \in Stations, tau[r][s] # Never
    PROVE  ReadyAt(r, s) \in Int
BY Types, RaptorAssumption DEF RaptorAssumption, ReadyAt

LEMMA EntryIsNotNone ==
    ASSUME NEW e \in Entry
    PROVE  e # NoEntry /\ e.kind \in {"transit", "walk"}
BY DEF Entry, NoEntry

(* A label set to an entry that is earned is justified, and no label is    *)
(* made worse.                                                             *)
LEMMA SetLabelKeeps ==
    ASSUME TypeOK, LabelsJustified, CurrentInv, Searching, Searching',
           NEW s \in Stations, NEW e, Earned(e, s), Improves(e.arr, s),
           SetLabel(s, e), Frame, phase' \in {"walk", "scan"}
    PROVE  TypeOK' /\ LabelsJustified' /\ CurrentInv' /\ LabelsImprove
<1> USE DEF Frame
<1>0. /\ k \in Nat /\ k \in 0..k /\ k' = k
      /\ e \in Entry /\ e # NoEntry /\ e.kind \in {"transit", "walk"}
      /\ e.arr \in Int /\ e.dep \in Int /\ e.from \in Stations
    BY Types, EntryIsNotNone DEF Earned, Entry
<1>1. best = tau[k] /\ best \in Times
    BY DEF CurrentInv, TypeOK
<1>2. /\ tau' = [tau EXCEPT ![k] = [tau[k] EXCEPT ![s] = e.arr]]
      /\ best' = [best EXCEPT ![s] = e.arr]
      /\ journal' = [journal EXCEPT ![k] = [journal[k] EXCEPT ![s] = e]]
      /\ improved' = improved \cup {s}
    BY DEF SetLabel
<1>3. /\ tau' \in [0..k -> Times] /\ best' \in Times
      /\ journal' \in [0..k -> [Stations -> Entry \cup {NoEntry}]]
  <2>1. [tau[k] EXCEPT ![s] = e.arr] \in Times
      BY <1>0, <1>1 DEF Times
  <2>2. [journal[k] EXCEPT ![s] = e] \in [Stations -> Entry \cup {NoEntry}]
      BY <1>0, Types
  <2> QED BY <1>0, <1>1, <1>2, <2>1, <2>2, Types
<1>4. TypeOK'
    BY <1>0, <1>2, <1>3 DEF TypeOK, Searching
<1>5. /\ tau'[k] = [tau[k] EXCEPT ![s] = e.arr] /\ journal'[k] = [journal[k] EXCEPT ![s] = e]
      /\ \A r \in 0..k-1 : tau'[r] = tau[r] /\ journal'[r] = journal[r]
    BY <1>0, <1>2, Types
<1>6. /\ tau'[k][s] = e.arr /\ journal'[k][s] = e
      /\ \A u \in Stations \ {s} : tau'[k][u] = tau[k][u] /\ journal'[k][u] = journal[k][u]
    BY <1>0, <1>5, Types DEF Times
<1>7. tau[k][s] # Never => e.arr < tau[k][s]
    BY <1>1 DEF Improves
<1>8. LabelsImprove
    BY <1>0, <1>5, <1>6, <1>7, Types DEF LabelsImprove
<1>9. CurrentInv'
    BY <1>0, <1>1, <1>2, <1>5, <1>6, Types DEF CurrentInv, Searching
<1>10. \A q \in 0..k : \A v \in Stations :
        tau[q][v] # Never => tau'[q][v] # Never /\ tau'[q][v] <= tau[q][v]
  <2> TAKE q \in 0..k
  <2>1. CASE q = k
      BY <2>1, <1>8 DEF LabelsImprove
  <2>2. CASE q # k
    <3>1. tau'[q] = tau[q]
        BY <2>2, <1>0, <1>5
    <3> QED BY <3>1, Types
  <2> QED BY <2>1, <2>2
<1>11. ASSUME NEW r \in 0..k, NEW u \in Stations, r # k \/ u # s
       PROVE  Justified(r, u)'
  <2>1. journal'[r][u] = journal[r][u] /\ tau'[r][u] = tau[r][u]
    <3>1. CASE r = k
        BY <3>1, <1>6, <1>11
    <3>2. CASE r # k
        BY <3>2, <1>0, <1>5
    <3> QED BY <3>1, <3>2
  <2>2. Justified(r, u)
      BY DEF LabelsJustified, Justified
  <2>3. journal[r][u] = NoEntry \/ journal[r][u] \in Entry
      BY Types
  <2>4. CASE journal[r][u] = NoEntry
      BY <2>1, <2>2, <2>4 DEF Justified, NoEntry
  <2>5. CASE journal[r][u] \in Entry
    <3> DEFINE f == journal[r][u]
    <3>1. f # NoEntry /\ f.kind \in {"transit", "walk"} /\ f.from \in Stations
          /\ f.fromRound \in Nat /\ f.dep \in Int
        BY <2>5, EntryIsNotNone DEF Entry
    <3>2. f.fromRound \in 0..k
        BY <3>1, <2>2, <1>0 DEF Justified
    <3>3. tau'[f.fromRound][f.from] # Never
        BY <3>1, <3>2, <2>2, <1>10 DEF Justified
    <3>4. CASE f.kind = "transit"
      <4>1. f.fromRound \in 0..k-1
          BY <3>1, <3>4, <2>2, <1>0 DEF Justified
      <4>2. ReadyAt(f.fromRound, f.from)' = ReadyAt(f.fromRound, f.from)
          BY <4>1, <1>5, <2>1 DEF ReadyAt
      <4> QED BY <3>1, <3>3, <3>4, <4>2, <2>1, <2>2 DEF Justified
    <3>5. CASE f.kind = "walk"
      <4>1. tau'[f.fromRound][f.from] <= tau[f.fromRound][f.from]
          BY <3>1, <3>2, <2>2, <1>10 DEF Justified
      <4>2. tau[f.fromRound][f.from] \in Int /\ tau'[f.fromRound][f.from] \in Int
          BY <3>1, <3>2, <3>3, <2>2, <1>0, <1>3, Types DEF Justified, Times
      <4>3. f.dep >= tau'[f.fromRound][f.from]
          BY <3>1, <3>5, <4>1, <4>2, <2>2 DEF Justified
      <4> QED BY <3>1, <3>3, <3>5, <4>3, <2>1, <2>2 DEF Justified
    <3> QED BY <3>1, <3>4, <3>5
  <2> QED BY <2>3, <2>4, <2>5
<1>12. Justified(k, s)'
  <2>1. CASE e.kind = "transit"
    <3>1. k - 1 \in 0..k-1 /\ e.fromRound = k - 1
          /\ tau[k-1][e.from] # Never /\ e.dep >= ReadyAt(k-1, e.from)
        BY <2>1, <1>0 DEF Earned, Entry
    <3>2. ReadyAt(k-1, e.from)' = ReadyAt(k-1, e.from) /\ tau'[k-1] = tau[k-1]
        BY <3>1, <1>5, <1>0 DEF ReadyAt
    <3> QED BY <2>1, <3>1, <3>2, <1>0, <1>6 DEF Justified
  <2>2. CASE e.kind = "walk"
    <3>1. /\ e.fromRound = k /\ tau[k][e.from] # Never /\ e.dep >= tau[k][e.from]
          /\ \E w \in net.walks[e.from] : w.to = s /\ e.arr = e.dep + w.secs
        BY <2>2 DEF Earned
    <3>2. e.arr >= e.dep
        BY <3>1, <1>0 DEF TypeOK, WellFormed
    <3>3. e.from # s
        BY <3>1, <3>2, <1>0, <1>7, Types
    <3> QED BY <2>2, <3>1, <3>3, <1>0, <1>6 DEF Justified
  <2> QED BY <1>0, <2>1, <2>2
<1>13. LabelsJustified'
    BY <1>0, <1>11, <1>12 DEF LabelsJustified, Justified
<1> QED BY <1>4, <1>8, <1>9, <1>13

(***************************************************************************)
(* Scanning                                                                *)
(***************************************************************************)

(* The route being scanned, its station and its trips. *)
LEMMA Scanned ==
    ASSUME TypeOK, ScanInv, phase = "scan", queue # {}
    PROVE  /\ First(queue) \in queue /\ First(queue).route \in DOMAIN net.routes
           /\ First(queue).pos \in DOMAIN Route.stops
           /\ WellFormedRoute(Route) /\ Station \in Stations
           /\ ride.pos \in DOMAIN Route.stops /\ ride.pos \in Nat
           /\ Len(Route.trips) \in Nat \ {0} /\ DOMAIN Route.trips = 1..Len(Route.trips)
           /\ \A i \in DOMAIN Route.trips : \A p \in DOMAIN Route.stops :
                /\ Route.trips[i].key \in Int \X Int
                /\ Route.trips[i].arr[p] \in Int /\ Route.trips[i].dep[p] \in Int
<1>1. QueueOK(queue) /\ ride.pos \in DOMAIN Route.stops /\ WellFormed(net)
    BY DEF ScanInv, TypeOK
<1>2. First(queue) \in queue
  <2>1. \A e \in queue : e.route \in Nat
      BY <1>1 DEF QueueOK, WellFormed
  <2> QED BY <2>1, FirstInQueue
<1>3. /\ First(queue).route \in DOMAIN net.routes
      /\ First(queue).pos \in DOMAIN Route.stops
    BY <1>1, <1>2 DEF QueueOK, Route
<1>4. WellFormedRoute(Route)
    BY <1>1, <1>3 DEF WellFormed, Route
<1>5. Station \in Stations /\ ride.pos \in Nat
    BY <1>1, <1>4 DEF WellFormedRoute, Station
<1> DEFINE Trip == [key: Int \X Int, arr: [DOMAIN Route.stops -> Int],
                                  dep: [DOMAIN Route.stops -> Int]]
<1>6. Route.trips \in Seq(Trip) /\ Route.trips # <<>>
    BY <1>4 DEF WellFormedRoute
<1>7. ASSUME NEW T, NEW s \in Seq(T), s # <<>>
      PROVE  Len(s) \in Nat \ {0} /\ DOMAIN s = 1..Len(s) /\ \A i \in DOMAIN s : s[i] \in T
    BY <1>7
<1>8. ASSUME NEW i \in DOMAIN Route.trips, NEW p \in DOMAIN Route.stops
      PROVE  /\ Route.trips[i].key \in Int \X Int
             /\ Route.trips[i].arr[p] \in Int /\ Route.trips[i].dep[p] \in Int
  <2>1. Route.trips[i] \in Trip
    <3> HIDE DEF Trip
    <3> QED BY <1>6, <1>7
  <2> QED BY <2>1
<1>9. Len(Route.trips) \in Nat \ {0} /\ DOMAIN Route.trips = 1..Len(Route.trips)
    <2> HIDE DEF Trip
    <2> QED BY <1>6, <1>7
<1> QED BY <1>1, <1>2, <1>3, <1>4, <1>5, <1>8, <1>9

(* Getting off leaves every label justified, and the labels the passengers *)
(* board with are those of the round before.                               *)
LEMMA AlightKeeps ==
    ASSUME SearchInv, phase = "scan", queue # {}, Alight, Frame, phase' = phase
    PROVE  /\ TypeOK' /\ LabelsJustified' /\ CurrentInv'
           /\ tau'[k-1] = tau[k-1] /\ journal'[k-1] = journal[k-1]
<1> DEFINE e == [kind |-> "transit", fromRound |-> BoardRound, from |-> ride.from,
                 key |-> Riding.key, dep |-> ride.dep, arr |-> Riding.arr[ride.pos]]
<1>1. Searching /\ Searching' /\ k \in Nat /\ k >= 1 /\ RideOK(ride)
    BY DEF SearchInv, Searching, ScanInv, TypeOK
<1>2. CASE ride.from # Never /\ Improves(e.arr, Station)
  <2>1. SetLabel(Station, e)
      BY <1>2 DEF Alight
  <2>2. Earned(e, Station)
    <3>1. Boarded(ride)
        BY <1>1, <1>2 DEF RideOK
    <3>2. e \in Entry
      <4>1. Riding.key \in Int \X Int /\ Riding.arr[ride.pos] \in Int
          BY <1>1, <3>1, Scanned DEF SearchInv, Boarded, Riding
      <4> QED BY <1>1, <3>1, <4>1 DEF Boarded, Entry, BoardRound
    <3> QED BY <1>1, <3>1, <3>2 DEF Earned, Boarded, BoardRound
  <2>3. Station \in Stations
      BY Scanned DEF SearchInv
  <2> HIDE DEF e
  <2>4. TypeOK' /\ LabelsJustified' /\ CurrentInv' /\ LabelsImprove
      BY <1>1, <1>2, <2>1, <2>2, <2>3, SetLabelKeeps DEF SearchInv, Searching
  <2> QED BY <1>1, <2>4 DEF LabelsImprove
<1>3. CASE ~(ride.from # Never /\ Improves(e.arr, Station))
  <2>1. UNCHANGED <<labelVars, improved>>
      BY <1>3 DEF Alight
  <2> QED BY <2>1 DEF SearchInv, Frame, labelVars, TypeOK, LabelsJustified, CurrentInv,
                      Searching, ReadyAt
<1> QED BY <1>2, <1>3

(* A scan that sets out rides no trip yet. *)
LEMMA RideOnOK ==
    ASSUME WellFormed(net), NEW q, QueueOK(q), q # {}
    PROVE  LET r == RideOn(q) 
               route == net.routes[First(q).route]
           IN  /\ r \in Ride /\ r.pos \in DOMAIN route.stops
               /\ ~route.fifo => r.trip \in DOMAIN route.trips
               /\ r.from = Never
<1>1. First(q) \in q
  <2>1. \A e \in q : e.route \in Nat
      BY DEF QueueOK, WellFormed
  <2> QED BY <2>1, FirstInQueue
<1>2. /\ First(q).route \in DOMAIN net.routes
      /\ First(q).pos \in DOMAIN net.routes[First(q).route].stops
    BY <1>1 DEF QueueOK
<1>3. WellFormedRoute(net.routes[First(q).route])
    BY <1>2 DEF WellFormed
<1>4. First(q).pos \in Nat /\ 1 \in DOMAIN net.routes[First(q).route].trips
    BY <1>2, <1>3 DEF WellFormedRoute
<1> QED BY <1>2, <1>4 DEF RideOn, NoRide, Ride

(* The scan moves on to a position of the route, to the next trip or to    *)
(* the next route.                                                         *)
LEMMA MoveToKeeps ==
    ASSUME SearchInv, phase = "scan", queue # {}, NEW r, RideOK(r), r.pos >= 1, MoveTo(r),
           tau'[k-1] = tau[k-1], journal'[k-1] = journal[k-1],
           UNCHANGED <<net, k, phase>>
    PROVE  ScanInv'
<1>0. k >= 1 /\ QueueOK(queue) /\ WellFormed(net) /\ TypeOK /\ ScanInv
    BY DEF SearchInv, ScanInv, TypeOK
<1>4. Len(Route.stops) \in Nat /\ r.pos \in Nat
    BY <1>0, Scanned DEF WellFormedRoute, RideOK, Ride
<1>1. CASE r.pos <= Len(Route.stops)
  <2>1. ride' = r /\ queue' = queue
      BY <1>1 DEF MoveTo
  <2>2. Route' = Route /\ QueueOK(queue)'
      BY <1>0, <2>1 DEF Route, QueueOK
  <2>3. RideOK(ride)'
      BY <2>1, <2>2 DEF RideOK, Boarded, ReadyAt
  <2>4. r.pos \in 1..Len(Route.stops) /\ DOMAIN Route.stops = 1..Len(Route.stops)
      BY <1>0, <1>1, <1>4, Scanned DEF WellFormedRoute
  <2> QED BY <1>0, <2>1, <2>2, <2>3, <2>4 DEF ScanInv
<1>2. CASE r.pos > Len(Route.stops) /\ ~Route.fifo /\ r.trip < Len(Route.trips)
  <2>1. ride' = [NoRide EXCEPT !.pos = First(queue).pos, !.trip = r.trip + 1] /\ queue' = queue
      BY <1>2, <1>4 DEF MoveTo
  <2>2. Route' = Route /\ QueueOK(queue)'
      BY <1>0, <2>1 DEF Route, QueueOK
  <2>3. /\ ride'.pos = First(queue).pos /\ ride'.trip = r.trip + 1
        /\ ride'.from = Never /\ ride'.dep = Never
        /\ ride' = [NoRide EXCEPT !.pos = ride'.pos, !.trip = ride'.trip]
      BY <2>1 DEF NoRide
  <2>4. r.trip + 1 \in DOMAIN Route.trips
      BY <1>0, <1>2, Scanned DEF RideOK, Ride
  <2>5. First(queue).pos \in DOMAIN Route.stops /\ First(queue).pos \in Nat
      BY <1>0, Scanned DEF WellFormedRoute
  <2> QED BY <1>0, <1>2, <2>2, <2>3, <2>4, <2>5 DEF ScanInv, RideOK, Ride, NoRide
<1>3. CASE r.pos > Len(Route.stops) /\ ~(~Route.fifo /\ r.trip < Len(Route.trips))
  <2>1. queue' = queue \ {First(queue)} /\ ride' = RideOn(queue')
      BY <1>3, <1>4 DEF MoveTo
  <2>2. QueueOK(queue)' /\ QueueOK(queue')
      BY <1>0, <2>1 DEF QueueOK
  <2> QED BY <1>0, <2>1, <2>2, RideOnOK DEF ScanInv, RideOK, Route
<1> QED BY <1>1, <1>2, <1>3, <1>4

(* Boarding an earlier trip: it leaves no earlier than a passenger with a  *)
(* label of the round before is ready.                                     *)
LEMMA BoardEarlierOK ==
    ASSUME TypeOK, ScanInv, phase = "scan", queue # {}, Route.fifo
    PROVE  RideOK([BoardEarlier EXCEPT !.pos = ride.pos + 1])
<1> DEFINE beat == IF ride.trip = 0 THEN Never ELSE Riding.dep[ride.pos]
           catches == IF tau[BoardRound][Station] = Never THEN {}
                      ELSE EarliestTrip(ride.pos, ReadyAt(BoardRound, Station), beat)
<1>1. RideOK(ride) /\ ride \in Ride /\ ride.pos + 1 \in Nat
    BY Scanned DEF ScanInv, RideOK, Ride
<1>2. CASE catches = {}
  <2>1. BoardEarlier = ride
      BY <1>2 DEF BoardEarlier
  <2> QED BY <1>1, <2>1 DEF RideOK, Ride, Boarded
<1>3. CASE catches # {}
  <2> DEFINE i == Min(catches)
  <2>1. /\ tau[k-1][Station] # Never
        /\ \A j \in catches : j \in DOMAIN Route.trips
                             /\ Route.trips[j].dep[ride.pos] >= ReadyAt(k-1, Station)
      BY <1>3 DEF EarliestTrip, BoardRound
  <2>2. catches \in SUBSET Nat
      BY <2>1, Scanned
  <2>3. i \in catches
      BY <1>3, <2>2, MinIsLeast
  <2>4. /\ i \in DOMAIN Route.trips /\ i \in Nat
        /\ Route.trips[i].dep[ride.pos] >= ReadyAt(k-1, Station)
        /\ Route.trips[i].dep[ride.pos] \in Int
      BY <2>1, <2>2, <2>3, Scanned
  <2>5. BoardEarlier = [ride EXCEPT !.trip = i, !.from = Station,
                                    !.dep = Route.trips[i].dep[ride.pos]]
      BY <1>3 DEF BoardEarlier
  <2> HIDE DEF i
  <2> QED BY <1>1, <2>1, <2>4, <2>5, Scanned DEF RideOK, Ride, Boarded
<1> QED BY <1>2, <1>3

(* Boarding the trip that is scanned, on a route where trips overtake.     *)
LEMMA BoardThisOK ==
    ASSUME TypeOK, ScanInv, phase = "scan", queue # {}, ~Route.fifo
    PROVE  RideOK([BoardThis EXCEPT !.pos = ride.pos + 1])
<1>1. RideOK(ride) /\ ride \in Ride /\ ride.pos + 1 \in Nat /\ ride.trip \in DOMAIN Route.trips
    BY Scanned DEF ScanInv, RideOK, Ride
<1>2. CASE BoardThis = ride
    BY <1>1, <1>2 DEF RideOK, Ride, Boarded
<1>3. CASE BoardThis # ride
  <2>1. /\ tau[k-1][Station] # Never
        /\ Riding.dep[ride.pos] >= ReadyAt(k-1, Station)
        /\ BoardThis = [ride EXCEPT !.from = Station, !.dep = Riding.dep[ride.pos]]
      BY <1>3 DEF BoardThis, BoardRound
  <2>2. Riding.dep[ride.pos] \in Int
      BY <1>1, Scanned DEF Riding
  <2> QED BY <1>1, <2>1, <2>2, Scanned DEF RideOK, Ride, Boarded
<1> QED BY <1>2, <1>3

LEMMA ScanStopKeeps ==
    ASSUME SearchInv, ScanStop
    PROVE  SearchInv'
<1>1. /\ phase = "scan" /\ queue # {} /\ Route.fifo /\ Alight
      /\ MoveTo([BoardEarlier EXCEPT !.pos = ride.pos + 1]) /\ phase' = phase /\ Frame
    BY DEF ScanStop, Frame, liveVars, inputVars
<1>2. TypeOK' /\ LabelsJustified' /\ CurrentInv'
      /\ tau'[k-1] = tau[k-1] /\ journal'[k-1] = journal[k-1]
    BY <1>1, AlightKeeps
<1>3. RideOK([BoardEarlier EXCEPT !.pos = ride.pos + 1])
      /\ [BoardEarlier EXCEPT !.pos = ride.pos + 1].pos >= 1
  <2>1. RideOK([BoardEarlier EXCEPT !.pos = ride.pos + 1]) /\ ride \in Ride /\ ride.pos + 1 >= 1
      BY <1>1, BoardEarlierOK, Scanned DEF SearchInv, ScanInv, RideOK
  <2>2. "pos" \in DOMAIN BoardEarlier
      BY <2>1 DEF BoardEarlier, Ride
  <2> QED BY <2>1, <2>2
<1>4. ScanInv'
    BY <1>1, <1>2, <1>3, MoveToKeeps DEF Frame
<1> QED BY <1>1, <1>2, <1>4 DEF SearchInv, WalkInv

LEMMA ScanTripStopKeeps ==
    ASSUME SearchInv, ScanTripStop
    PROVE  SearchInv'
<1>1. /\ phase = "scan" /\ queue # {} /\ ~Route.fifo /\ phase' = phase /\ Frame
      /\ TypeOK /\ ScanInv /\ ride \in Ride /\ RideOK(ride)
    BY DEF ScanTripStop, Frame, liveVars, inputVars, SearchInv, ScanInv, RideOK
<1>2. CASE TripUsable(Riding)
  <2>1. Alight /\ MoveTo([BoardThis EXCEPT !.pos = ride.pos + 1])
      BY <1>2 DEF ScanTripStop
  <2>2. TypeOK' /\ LabelsJustified' /\ CurrentInv'
        /\ tau'[k-1] = tau[k-1] /\ journal'[k-1] = journal[k-1]
      BY <1>1, <2>1, AlightKeeps
  <2>3. RideOK([BoardThis EXCEPT !.pos = ride.pos + 1]) /\ ride.pos + 1 >= 1
        /\ [BoardThis EXCEPT !.pos = ride.pos + 1].pos = ride.pos + 1
      BY <1>1, BoardThisOK, Scanned DEF BoardThis, Ride
  <2>4. ScanInv'
      BY <1>1, <2>1, <2>2, <2>3, MoveToKeeps DEF Frame
  <2> QED BY <1>1, <2>2, <2>4 DEF SearchInv, WalkInv
<1>3. CASE ~TripUsable(Riding)
  <2> DEFINE last == [ride EXCEPT !.pos = Len(Route.stops) + 1]
  <2>1. MoveTo(last) /\ UNCHANGED <<labelVars, improved>>
      BY <1>3 DEF ScanTripStop
  <2>2. TypeOK' /\ LabelsJustified' /\ CurrentInv' /\ tau' = tau /\ journal' = journal
      BY <1>1, <2>1 DEF SearchInv, Frame, labelVars, TypeOK, LabelsJustified, CurrentInv,
                        Searching, ReadyAt
  <2>3. Len(Route.stops) \in Nat
      BY <1>1, Scanned DEF WellFormedRoute
  <2>4. RideOK(last) /\ last.pos >= 1
      BY <1>1, <2>3 DEF RideOK, Ride, Boarded
  <2> HIDE DEF last
  <2>5. ScanInv'
      BY <1>1, <2>1, <2>2, <2>4, MoveToKeeps DEF Frame
  <2> QED BY <1>1, <2>2, <2>5 DEF SearchInv, WalkInv
<1> QED BY <1>2, <1>3

(***************************************************************************)
(* Footpaths                                                               *)
(***************************************************************************)

(* Walks from a set of stations leave at the times of those stations. *)
LEMMA FootpathsFromOK ==
    ASSUME NEW n, WellFormed(n), NEW times \in Times,
           NEW sources, sources \subseteq Stations, \A s \in sources : times[s] # Never,
           NEW w \in FootpathsFrom(n, sources, times)
    PROVE  /\ w.from \in Stations /\ w.to \in Stations /\ w.secs \in Nat /\ w.depart \in Int
           /\ times[w.from] # Never /\ w.depart = times[w.from]
           /\ \E x \in n.walks[w.from] : x.to = w.to /\ x.secs = w.secs
<1>1. PICK s \in sources : w \in {[from |-> s, depart |-> times[s], to |-> x.to, secs |-> x.secs] :
                                   x \in n.walks[s]}
    BY DEF FootpathsFrom
<1>2. PICK x \in n.walks[s] :
        w = [from |-> s, depart |-> times[s], to |-> x.to, secs |-> x.secs]
    BY <1>1
<1>3. times[s] \in Int
    BY DEF Times
<1>4. x.to \in Stations /\ x.secs \in Nat
    BY DEF WellFormed
<1> QED BY <1>2, <1>3, <1>4

LEMMA WalkFootpathKeeps ==
    ASSUME SearchInv, WalkFootpath
    PROVE  SearchInv'
<1>1. /\ phase = "walk" /\ phase' = phase /\ Frame /\ Searching /\ Searching'
      /\ TypeOK /\ LabelsJustified /\ CurrentInv
    BY DEF WalkFootpath, Frame, liveVars, inputVars, SearchInv, Searching
<1>2. PICK w \in walks :
        /\ walks' = walks \ {w}
        /\ LET arr == w.depart + w.secs
           IN  IF Improves(arr, w.to)
               THEN SetLabel(w.to, [kind |-> "walk", fromRound |-> k, from |-> w.from,
                                    key |-> Never, dep |-> w.depart, arr |-> arr])
               ELSE UNCHANGED <<labelVars, improved>>
    BY DEF WalkFootpath
<1> DEFINE e == [kind |-> "walk", fromRound |-> k, from |-> w.from,
                 key |-> Never, dep |-> w.depart, arr |-> w.depart + w.secs]
<1>3. \A v \in walks : WalkOK(v)
    BY <1>1 DEF SearchInv, WalkInv
<1>4. CASE Improves(w.depart + w.secs, w.to)
  <2>1. SetLabel(w.to, e) /\ Improves(e.arr, w.to) /\ w.to \in Stations
      BY <1>2, <1>3, <1>4 DEF WalkOK
  <2>2. Earned(e, w.to)
      BY <1>1, <1>3, Types DEF WalkOK, Earned, Entry
  <2> HIDE DEF e
  <2>3. TypeOK' /\ LabelsJustified' /\ CurrentInv' /\ LabelsImprove
      BY <1>1, <2>1, <2>2, SetLabelKeeps
  <2>4. ASSUME NEW v \in walks'
        PROVE  WalkOK(v)'
    <3>1. WalkOK(v)
        BY <1>2, <1>3
    <3>2. tau'[k][v.from] # Never /\ tau'[k][v.from] <= tau[k][v.from]
        BY <3>1, <2>3 DEF WalkOK, LabelsImprove
    <3>3. tau[k][v.from] \in Int /\ tau'[k][v.from] \in Int
        BY <3>1, <3>2, <1>1, <2>3 DEF WalkOK, TypeOK, Times, Searching, Frame
    <3> QED BY <1>1, <3>1, <3>2, <3>3 DEF WalkOK, Frame
  <2> QED BY <1>1, <2>3, <2>4 DEF SearchInv, WalkInv, ScanInv
<1>5. CASE ~Improves(w.depart + w.secs, w.to)
  <2>1. UNCHANGED <<labelVars, improved>> /\ walks' \subseteq walks
      BY <1>2, <1>5
  <2>2. TypeOK' /\ LabelsJustified' /\ CurrentInv'
      BY <1>1, <2>1 DEF Frame, labelVars, TypeOK, LabelsJustified, CurrentInv,
                        Searching, ReadyAt
  <2> QED BY <1>1, <1>3, <2>1, <2>2 DEF SearchInv, WalkInv, ScanInv, WalkOK, labelVars, Frame
<1> QED BY <1>4, <1>5

(***************************************************************************)
(* Rounds                                                                  *)
(***************************************************************************)

LEMMA InitSearchInv ==
    ASSUME Init
    PROVE  SearchInv
BY RaptorAssumption DEF RaptorAssumption, Init, SearchInv, TypeOK, LabelsJustified, CurrentInv,
    ScanInv, WalkInv, Searching, NoLabels, Times

LEMMA SearchKeeps ==
    ASSUME SearchInv, Search
    PROVE  SearchInv'
<1>1. /\ phase = "idle" /\ k = 0 /\ k' = 0 /\ net' = liveRoutes /\ signals' = liveSignals
      /\ WellFormed(net') /\ query' = query /\ query \in Queries
      /\ UNCHANGED liveVars
    BY DEF Search, SearchInv, TypeOK, CurrentInv
<1>2. CASE NothingToSearch
  <2>1. phase' = "done" /\ UNCHANGED <<labelVars, improved>>
      BY <1>2 DEF Search
  <2> QED BY <1>1, <2>1 DEF SearchInv, TypeOK, LabelsJustified, CurrentInv, ScanInv, WalkInv,
                           Searching, liveVars, labelVars
<1>3. CASE ~NothingToSearch
  <2>1. /\ phase' = "walk" /\ best' = [NoLabels EXCEPT ![query.origin] = query.dep]
        /\ tau' = [r \in {0} |-> best'] /\ journal' = [r \in {0} |-> NoEntries]
        /\ preWalk' = [r \in {0} |-> NoEntries] /\ improved' = {query.origin}
        /\ walks' = FootpathsFrom(net', {query.origin}, best')
      BY <1>1, <1>3 DEF Search
  <2>2. query.origin \in Stations /\ query.dep \in Int /\ query.dep # Never
      BY <1>1, RaptorAssumption, TimetableAssumption DEF RaptorAssumption, TimetableAssumption
  <2>3. /\ best' \in Times /\ best'[query.origin] = query.dep
        /\ \A s \in Stations \ {query.origin} : best'[s] = Never
      BY <2>1, <2>2 DEF NoLabels, Times
  <2>4. 0..k' = {0} /\ tau'[0] = best' /\ journal'[0] = NoEntries
      BY <1>1, <2>1
  <2>5. TypeOK'
      BY <1>1, <2>1, <2>2, <2>3, <2>4 DEF SearchInv, TypeOK, liveVars, NoEntries
  <2>6. LabelsJustified'
      BY <1>1, <2>3, <2>4 DEF LabelsJustified, NoEntries, NoEntry
  <2>7. CurrentInv'
      BY <1>1, <2>1, <2>2, <2>3, <2>4 DEF CurrentInv
  <2>8. \A w \in walks' : WalkOK(w)'
    <3>1. TAKE w \in walks'
    <3> DEFINE start == {query.origin}
    <3>a. /\ start \subseteq Stations /\ \A s \in start : best'[s] # Never
          /\ w \in FootpathsFrom(net', start, best') /\ WellFormed(net') /\ best' \in Times
        BY <1>1, <2>1, <2>2, <2>3
    <3> HIDE DEF start
    <3>2. /\ w.from \in Stations /\ w.to \in Stations /\ w.secs \in Nat /\ w.depart \in Int
          /\ best'[w.from] # Never /\ w.depart = best'[w.from]
          /\ \E x \in net'.walks[w.from] : x.to = w.to /\ x.secs = w.secs
        BY <3>a, FootpathsFromOK
    <3> QED BY <1>1, <2>4, <3>2 DEF WalkOK
  <2> QED BY <2>1, <2>5, <2>6, <2>7, <2>8 DEF SearchInv, ScanInv, WalkInv
<1> QED BY <1>2, <1>3

LEMMA NextRoundKeeps ==
    ASSUME SearchInv, NextRound
    PROVE  SearchInv'
<1>1. /\ phase = "walk" /\ phase' = "scan" /\ improved # {} /\ k < MaxRounds /\ k' = k + 1
      /\ Searching /\ Searching' /\ TypeOK /\ best' = best
      /\ tau' = [r \in 0..k+1 |-> IF r <= k THEN tau[r] ELSE tau[k]]
      /\ journal' = [r \in 0..k+1 |-> IF r <= k THEN journal[r] ELSE journal[k]]
      /\ preWalk' = [r \in 0..k+1 |-> IF r <= k THEN preWalk[r] ELSE NoEntries]
      /\ queue' = RouteQueue(improved) /\ ride' = RideOn(queue') /\ improved' = {}
      /\ UNCHANGED <<query, net, signals, liveRoutes, liveSignals, swaps>>
    BY DEF NextRound, RoundOver, MoreRounds, Searching, SearchInv, liveVars, inputVars
<1>2. k \in Nat /\ MaxRounds \in Nat /\ k + 1 \in 0..MaxRounds
    BY <1>1, Types, RaptorAssumption DEF RaptorAssumption
<1>3. /\ \A r \in 0..k : tau'[r] = tau[r] /\ journal'[r] = journal[r]
      /\ tau'[k+1] = tau[k] /\ journal'[k+1] = journal[k]
    BY <1>1, <1>2
<1>4. TypeOK'
  <2>1. /\ tau \in [0..k -> Times] /\ journal \in [0..k -> [Stations -> Entry \cup {NoEntry}]]
        /\ preWalk \in [0..k -> [Stations -> Entry \cup {NoEntry}]]
        /\ NoEntries \in [Stations -> Entry \cup {NoEntry}]
      BY <1>1 DEF TypeOK, NoEntries
  <2>2. /\ tau' \in [0..k' -> Times] /\ journal' \in [0..k' -> [Stations -> Entry \cup {NoEntry}]]
        /\ preWalk' \in [0..k' -> [Stations -> Entry \cup {NoEntry}]]
      BY <1>1, <1>2, <2>1
  <2> QED BY <1>1, <1>2, <2>2 DEF TypeOK
<1>5. LabelsJustified'
  <2>1. \A r \in 0..k, s \in Stations : Justified(r, s)
      BY <1>1 DEF SearchInv, LabelsJustified, Justified
  <2>2. ASSUME NEW r \in 0..k, NEW q \in {r, r + 1}, NEW s \in Stations,
               tau'[q][s] = tau[r][s], journal'[q][s] = journal[r][s]
        PROVE  Justified(q, s)'
    <3>1. CASE journal[r][s] = NoEntry
        BY <3>1, <2>1, <2>2, <1>1 DEF Justified, NoEntry
    <3>2. CASE journal[r][s] # NoEntry
      <4>0. PICK f : f = journal[r][s]
          OBVIOUS
      <4>1. f \in Entry /\ f.kind \in {"transit", "walk"} /\ f.fromRound \in Nat
          BY <4>0, <3>2, <1>1, Types DEF Entry
      <4>2. f.fromRound \in 0..k
          BY <4>0, <4>1, <2>1, <1>2, <3>2 DEF Justified
      <4>3. tau'[f.fromRound] = tau[f.fromRound] /\ journal'[f.fromRound] = journal[f.fromRound]
          BY <4>2, <1>3
      <4>4. ReadyAt(f.fromRound, f.from)' = ReadyAt(f.fromRound, f.from)
          BY <4>3 DEF ReadyAt
      <4>5. Justified(r, s) /\ q >= r /\ q \in Nat
          BY <2>1, <1>2
      <4>6. /\ journal'[q][s] = f /\ f # NoEntry /\ tau'[q][s] = f.arr
            /\ tau'[f.fromRound][f.from] # Never
          BY <4>0, <2>2, <3>2, <4>3, <4>5 DEF Justified
      <4>7. f.kind = "transit" => f.fromRound < q /\ f.dep >= ReadyAt(f.fromRound, f.from)
          BY <4>0, <4>1, <4>5 DEF Justified
      <4>8. f.kind = "walk" => /\ f.fromRound <= q /\ f.dep >= tau'[f.fromRound][f.from]
                               /\ \E w \in net'.walks[f.from] : w.to = s /\ f.arr = f.dep + w.secs
          BY <1>1, <4>0, <4>1, <4>3, <4>5 DEF Justified
      <4> QED BY <4>4, <4>6, <4>7, <4>8 DEF Justified
    <3> QED BY <3>1, <3>2
  <2>3. ASSUME NEW q \in 0..k+1, NEW s \in Stations
        PROVE  Justified(q, s)'
    <3>1. CASE q = k + 1
      <4>1. k \in 0..k
          BY <1>2
      <4> QED BY <3>1, <4>1, <1>3, <2>2
    <3>2. CASE q # k + 1
      <4>1. q \in 0..k
          BY <3>2, <1>2
      <4> QED BY <4>1, <1>3, <2>2
    <3> QED BY <3>1, <3>2
  <2> QED BY <1>1, <2>3 DEF LabelsJustified, Justified
<1>6. CurrentInv'
    BY <1>1, <1>2, <1>3 DEF SearchInv, CurrentInv, Searching
<1>7. ScanInv'
  <2>1. QueueOK(queue') /\ QueueOK(queue)' /\ WellFormed(net)
      BY <1>1, RouteQueueOK DEF TypeOK, QueueOK
  <2>2. CASE queue' = {}
      BY <1>1, <1>2, <2>1, <2>2 DEF ScanInv
  <2>3. CASE queue' # {}
      BY <1>1, <1>2, <2>1, <2>3, RideOnOK DEF ScanInv, RideOK, Route
  <2> QED BY <2>2, <2>3
<1> QED BY <1>1, <1>4, <1>5, <1>6, <1>7 DEF SearchInv, WalkInv

LEMMA EndScanKeeps ==
    ASSUME SearchInv, EndScan
    PROVE  SearchInv'
<1>1. /\ phase = "scan" /\ phase' = "walk" /\ Searching /\ Searching' /\ TypeOK
      /\ walks' = FootpathsFrom(net, improved, tau[k])
      /\ preWalk' = [preWalk EXCEPT ![k] = KeptEntries]
      /\ UNCHANGED <<query, net, signals, liveRoutes, liveSignals, swaps, k, tau, journal,
                     best, improved>>
    BY DEF EndScan, Searching, SearchInv, liveVars, inputVars, labelVars
<1>2. k \in Nat /\ tau \in [0..k -> Times] /\ improved \subseteq Stations
      /\ \A s \in improved : tau[k][s] # Never
    BY <1>1, Types DEF SearchInv, CurrentInv, TypeOK
<1>3. KeptEntries \in [Stations -> Entry \cup {NoEntry}]
    BY <1>1, <1>2, Types DEF KeptEntries
<1>4. TypeOK'
    BY <1>1, <1>2, <1>3 DEF TypeOK, Searching
<1>5. LabelsJustified' /\ CurrentInv'
    BY <1>1 DEF SearchInv, LabelsJustified, CurrentInv, Searching, ReadyAt
<1>6. WalkInv'
  <2>1. ASSUME NEW w \in walks'
        PROVE  WalkOK(w)
    <3>1. tau[k] \in Times /\ WellFormed(net) /\ w \in FootpathsFrom(net, improved, tau[k])
        BY <1>1, <1>2 DEF TypeOK
    <3> QED BY <3>1, <1>2, FootpathsFromOK DEF WalkOK
  <2> QED BY <1>1, <2>1 DEF WalkInv, WalkOK
<1> QED BY <1>1, <1>4, <1>5, <1>6 DEF SearchInv, ScanInv

(* The end of a search, and what the background goroutines publish. *)
LEMMA OthersKeep ==
    ASSUME SearchInv, Cancel \/ Finish \/ SwapRoutes \/ SwapSignals \/ UNCHANGED vars
    PROVE  SearchInv'
<1>1. CASE Cancel \/ Finish
  <2>1. /\ phase' \in {"done", "cancelled"}
        /\ UNCHANGED <<query, net, signals, liveRoutes, liveSignals, swaps, k, best, improved>>
      BY <1>1 DEF Cancel, Finish, liveVars, inputVars, labelVars
  <2> QED BY <2>1 DEF SearchInv, TypeOK, LabelsJustified, CurrentInv, ScanInv, WalkInv, Searching
<1>2. ASSUME NEW routes, NEW sigs, Publish(routes, sigs), WellFormed(routes), sigs \in SignalMaps
      PROVE  SearchInv'
  <2>1. /\ liveRoutes' = routes /\ liveSignals' = sigs /\ swaps' = swaps + 1 /\ swaps < MaxSwaps
        /\ UNCHANGED <<query, net, signals, phase, k, tau, journal, best, preWalk, improved, queue,
                       ride, walks>>
      BY <1>2 DEF Publish, inputVars, labelVars, loopVars
  <2>2. swaps' \in 0..MaxSwaps
      BY <2>1, RaptorAssumption DEF RaptorAssumption, SearchInv, TypeOK
  <2>3. TypeOK'
      BY <1>2, <2>1, <2>2 DEF SearchInv, TypeOK, Searching
  <2>4. LabelsJustified' /\ CurrentInv'
      BY <2>1 DEF SearchInv, LabelsJustified, CurrentInv, Searching, ReadyAt
  <2>5. ScanInv' /\ WalkInv'
      BY <2>1 DEF SearchInv, ScanInv, WalkInv, WalkOK, QueueOK, RideOK, Boarded, Route, ReadyAt
  <2> QED BY <2>3, <2>4, <2>5 DEF SearchInv
<1>3. CASE SwapRoutes
    BY <1>2, <1>3, RaptorAssumption DEF RaptorAssumption, SwapRoutes, SearchInv, TypeOK
<1>4. CASE SwapSignals
    BY <1>2, <1>4 DEF SwapSignals, SearchInv, TypeOK
<1>5. CASE UNCHANGED vars
  <2>1. UNCHANGED <<query, net, signals, liveRoutes, liveSignals, swaps, phase, k, tau, journal,
                    best, preWalk, improved, queue, ride, walks>>
      BY <1>5 DEF vars, liveVars, inputVars, labelVars, loopVars
  <2> QED BY <2>1 DEF SearchInv, TypeOK, LabelsJustified, CurrentInv, Searching, ReadyAt,
                      ScanInv, WalkInv, WalkOK, QueueOK, RideOK, Boarded, Route
<1> QED BY <1>1, <1>3, <1>4, <1>5

(***************************************************************************)
(* Theorems                                                                *)
(***************************************************************************)

(* The inductive invariant holds in every reachable state, whatever the    *)
(* timetables and signals and whenever others are published.               *)
THEOREM SearchInvariant == Spec => []SearchInv
<1>1. Init => SearchInv
    BY InitSearchInv
<1>2. SearchInv /\ [Next]_vars => SearchInv'
    BY SearchKeeps, WalkFootpathKeeps, NextRoundKeeps, ScanStopKeeps, ScanTripStopKeeps,
       EndScanKeeps, OthersKeep DEF Next, SearchStep
<1> QED BY <1>1, <1>2, PTL DEF Spec

(* The variables of a search have their types: the maps of engine.go are   *)
(* never asked for a round or a station they do not have.                  *)
THEOREM SearchTypes == Spec => []TypeOK
BY SearchInvariant, PTL DEF SearchInv

(* Every label of every round is earned by its last leg (engine.go:11).    *)
THEOREM EveryLabelEarned == Spec => []LabelsJustified
BY SearchInvariant, PTL DEF SearchInv

(***************************************************************************)
(* The timetables                                                          *)
(***************************************************************************)

FromReload == liveRoutes \in Timetables \cup NewTimetables

LEMMA LiveFromReload == Spec => []FromReload
<1>1. Init => FromReload
    BY DEF Init, FromReload
<1>2. FromReload /\ [Next]_vars => FromReload'
    BY DEF FromReload, Next, SearchStep, Search, WalkFootpath, NextRound, Cancel, ScanStop,
       ScanTripStop, EndScan, Finish, SwapRoutes, SwapSignals, Publish, liveVars, vars
<1> QED BY <1>1, <1>2, PTL DEF Spec

(* loader.go and buffer.go: of the timetables that reloads publish, a      *)
(* route is marked FIFO, and scanned as such (engine.go), exactly if no    *)
(* trip of it overtakes another at any stop.                               *)
THEOREM FIFOIsNoOvertaking ==
    ASSUME \A n \in Timetables \cup NewTimetables : \E db : n = ReloadRouteArrays(db)
    PROVE  Spec => []FIFOMeansNoOvertaking
<1>1. Spec => []FromReload
    BY LiveFromReload
<1>2. FromReload => FIFOMeansNoOvertaking
  <2> SUFFICES ASSUME FromReload, NEW r \in DOMAIN liveRoutes.routes
               PROVE  liveRoutes.routes[r].fifo <=> NoOvertaking(liveRoutes.routes[r])
      BY DEF FIFOMeansNoOvertaking
  <2>1. WellFormedRoute(liveRoutes.routes[r])
      BY RaptorAssumption DEF RaptorAssumption, WellFormed, FromReload
  <2>2. PICK db : liveRoutes = ReloadRouteArrays(db)
      BY DEF FromReload
  <2>3. liveRoutes.routes[r].fifo = ComputeFIFO(liveRoutes.routes[r].trips)
      BY <2>2, RoutesAreMeasured
  <2>4. ComputeFIFO(liveRoutes.routes[r].trips) <=> NoOvertaking(liveRoutes.routes[r])
      BY <2>1, NeighboursSuffice
  <2> QED BY <2>3, <2>4, Zenon
<1> QED BY <1>1, <1>2, PTL

(* closeFootpaths of buffer.go, for footpath tables of any stations and    *)
(* times: every walk a search is offered is a shortest one within the cap, *)
(* and what can be walked to is left out only when nearer stations fill    *)
(* the quota.                                                              *)
THEOREM FootpathsAreClosed ==
    ASSUME \A n \in Timetables \cup NewTimetables :
             \E db : /\ n = ReloadRouteArrays(db)
                    /\ db.footpaths \subseteq [from: Stations, to: Stations, secs: Int]
    PROVE  Spec => []FootpathsClosed
<1>1. Spec => []FromReload
    BY LiveFromReload
<1>2. FromReload => FootpathsClosed
  <2> SUFFICES ASSUME FromReload PROVE ClosedWalks(liveRoutes)
      BY DEF FootpathsClosed
  <2>1. PICK db : /\ liveRoutes = ReloadRouteArrays(db)
                  /\ db.footpaths \subseteq [from: Stations, to: Stations, secs: Int]
      BY DEF FromReload
  <2>2. ClosedWalks(ReloadRouteArrays(db))
      BY <2>1, WalksAreClosed
  <2> QED BY <2>1, <2>2, Zenon
<1> QED BY <1>1, <1>2, PTL

(***************************************************************************)
(* Journeys                                                                *)
(*                                                                         *)
(* buildPath follows entries back to the origin.  What it returns can be   *)
(* travelled because of what the journal says of every entry, also of      *)
(* those that a later walk replaced and preWalk keeps.                     *)
(***************************************************************************)

(* A usable trip of the timetable makes the ride of e, ending at s. *)
RealRide(e, s) ==
    \E t \in AllTrips :
        /\ t.trip.key = e.key /\ Offered(t.trip)
        /\ \E a, b \in DOMAIN t.stops :
             /\ a < b /\ t.stops[a] = e.from /\ t.stops[b] = s
             /\ t.trip.dep[a] = e.dep /\ t.trip.arr[b] = e.arr

(* A walk that leaves u in round r at dep sets out from the origin or from *)
(* a vehicle that had arrived: never from the end of another walk.         *)
FromTransit(r, u, dep) ==
    u = query.origin \/ (preWalk[r][u] # NoEntry /\ preWalk[r][u].arr <= dep)

Traced(r, s) ==
    LET e == journal[r][s]
        p == preWalk[r][s]
    IN  /\ e.kind = "transit" => RealRide(e, s)
        /\ e.kind = "walk" => FromTransit(e.fromRound, e.from, e.dep)
        /\ p # NoEntry =>
             /\ p.kind = "transit" /\ RealRide(p, s)
             /\ p.fromRound < r /\ tau[p.fromRound][p.from] # Never
             /\ p.dep >= ReadyAt(p.fromRound, p.from)

TraceInv == Searching => \A r \in 0..k : \A s \in Stations : Traced(r, s)

(* The trip being ridden is usable and was boarded at a stop passed. *)
RideReal(r) ==
    r.from # Never =>
        /\ TripUsable(Route.trips[r.trip])
        /\ \E a \in DOMAIN Route.stops :
             a < r.pos /\ Route.stops[a] = r.from /\ Route.trips[r.trip].dep[a] = r.dep

(* What the loops of a round are about to add to the journal. *)
MadeInv ==
    /\ phase = "scan" => /\ preWalk[k] = NoEntries
                         /\ \A s \in improved : journal[k][s].kind = "transit"
                         /\ queue # {} => RideReal(ride)
    /\ phase = "walk" => \A w \in walks : FromTransit(k, w.from, w.depart)

JournalInv == SearchInv /\ TraceInv /\ MadeInv

(* The signals and dates that let a passenger board are those the          *)
(* reference goes by.                                                      *)
LEMMA UsableIsOffered ==
    ASSUME TypeOK, NEW t, TripUsable(t), t.key \in Int \X Int
    PROVE  Offered(t)
<1>1. signals \in SignalMaps /\ query \in Queries
    BY DEF TypeOK
<1>2. t.key[2] >= query.day - 1 /\ t.key[2] <= query.day + WindowDays
    BY <1>1, RaptorAssumption DEF RaptorAssumption, TripUsable, Allowed
<1>3. t.key \in DOMAIN signals => signals[t.key] \in {"enough", "stale"}
    BY <1>1, RaptorAssumption DEF RaptorAssumption, TripUsable, CanBoard
<1> QED BY <1>2, <1>3 DEF Offered

(* Getting off ends a real ride. *)
LEMMA AlightReal ==
    ASSUME SearchInv, phase = "scan", queue # {}, ride.from # Never, RideReal(ride),
           NEW e, e.key = Riding.key, e.from = ride.from, e.dep = ride.dep,
           e.arr = Riding.arr[ride.pos]
    PROVE  RealRide(e, Station)
<1> DEFINE t == [stops |-> Route.stops, trip |-> Riding]
<1>1. ride.trip \in DOMAIN Route.trips /\ TypeOK /\ ScanInv
    BY DEF SearchInv, ScanInv, RideOK, Boarded
<1>2. t \in AllTrips
  <2>1. First(queue).route \in DOMAIN net.routes
      BY <1>1, Scanned
  <2> QED BY <1>1, <2>1 DEF AllTrips, Route, Riding
<1>3. Riding.key \in Int \X Int /\ ride.pos \in DOMAIN Route.stops
    BY <1>1, Scanned DEF Riding
<1>4. Offered(Riding)
    BY <1>1, <1>3, UsableIsOffered DEF RideReal, Riding
<1>5. PICK a \in DOMAIN Route.stops :
        a < ride.pos /\ Route.stops[a] = ride.from /\ Riding.dep[a] = ride.dep
    BY DEF RideReal, Riding
<1> QED BY <1>2, <1>3, <1>4, <1>5 DEF RealRide, Station

(* What is real stays real while the inputs of the search stay. *)
LEMMA RealRideStays ==
    ASSUME UNCHANGED <<query, net, signals>>, NEW e, NEW s, RealRide(e, s)
    PROVE  RealRide(e, s)'
BY DEF RealRide, AllTrips, Offered

(* The trace of a label stays, also when the label is carried on to the    *)
(* next round.                                                             *)
LEMMA TracedStays ==
    ASSUME SearchInv, Searching, UNCHANGED <<query, net, signals>>,
           NEW r \in 0..k, NEW s \in Stations, Traced(r, s), NEW q \in {r, r + 1},
           journal'[q][s] = journal[r][s],
           preWalk'[q][s] = preWalk[r][s] \/ preWalk'[q][s] = NoEntry,
           \A j \in 0..r : \A u \in Stations :
              preWalk[j][u] # NoEntry => preWalk'[j][u] = preWalk[j][u],
           \A j \in 0..r-1 : tau'[j] = tau[j] /\ journal'[j] = journal[j]
    PROVE  Traced(q, s)'
<1>0. r \in Nat /\ r <= k /\ k \in Nat /\ Justified(r, s)
    BY Types DEF SearchInv, LabelsJustified, Justified
<1>1. PICK e : e = journal[r][s]
    OBVIOUS
<1>2. PICK p : p = preWalk'[q][s]
    OBVIOUS
<1>3. e.kind = "transit" => RealRide(e, s)'
    BY <1>1, RealRideStays DEF Traced
<1>4. ASSUME e.kind = "walk"
      PROVE  FromTransit(e.fromRound, e.from, e.dep)'
  <2>1. e = NoEntry \/ e \in Entry
      BY <1>1, Types DEF SearchInv
  <2>2. e \in Entry
      BY <1>4, <2>1 DEF NoEntry
  <2>3. e.from \in Stations /\ e.fromRound \in 0..r
      BY <1>0, <1>1, <1>4, <2>2 DEF Justified, Entry
  <2>4. FromTransit(e.fromRound, e.from, e.dep)
      BY <1>1, <1>4 DEF Traced
  <2> QED BY <2>3, <2>4 DEF FromTransit
<1>5. ASSUME p # NoEntry
      PROVE  /\ p.kind = "transit" /\ RealRide(p, s)'
             /\ p.fromRound < q /\ (tau[p.fromRound][p.from] # Never)'
             /\ (p.dep >= ReadyAt(p.fromRound, p.from))'
  <2>1. p = preWalk[r][s] /\ p \in Entry
      BY <1>2, <1>5, <1>0 DEF SearchInv, TypeOK
  <2>2. /\ p.kind = "transit" /\ RealRide(p, s) /\ p.fromRound < r
        /\ tau[p.fromRound][p.from] # Never /\ p.dep >= ReadyAt(p.fromRound, p.from)
      BY <1>5, <2>1 DEF Traced
  <2>3. p.fromRound \in 0..r-1
      BY <1>0, <2>1, <2>2 DEF Entry
  <2>4. tau'[p.fromRound] = tau[p.fromRound] /\ journal'[p.fromRound] = journal[p.fromRound]
      BY <2>3
  <2>5. RealRide(p, s)'
      BY <2>2, RealRideStays
  <2>6. (ReadyAt(p.fromRound, p.from))' = ReadyAt(p.fromRound, p.from)
      BY <2>4 DEF ReadyAt
  <2>7. p.fromRound < q
      BY <1>0, <2>3
  <2> QED BY <2>2, <2>4, <2>5, <2>6, <2>7
<1> QED BY <1>1, <1>2, <1>3, <1>4, <1>5 DEF Traced

(* A better label whose entry is real is traced, and so are the others. *)
LEMMA SetLabelTraced ==
    ASSUME SearchInv, TraceInv, Searching, Searching', Frame,
           NEW s \in Stations, NEW e, e \in Entry, SetLabel(s, e),
           e.kind = "transit" => RealRide(e, s),
           e.kind = "walk" => FromTransit(e.fromRound, e.from, e.dep)
    PROVE  TraceInv'
<1>0. k \in Nat /\ k' = k /\ k \in 0..k
    BY Types DEF SearchInv, Frame
<1>1. /\ tau' = [tau EXCEPT ![k] = [tau[k] EXCEPT ![s] = e.arr]]
      /\ journal' = [journal EXCEPT ![k] = [journal[k] EXCEPT ![s] = e]]
      /\ preWalk' = preWalk /\ UNCHANGED <<query, net, signals>>
    BY DEF SetLabel, Frame
<1>2. /\ \A r \in 0..k-1 : tau'[r] = tau[r] /\ journal'[r] = journal[r]
      /\ journal'[k][s] = e
      /\ \A u \in Stations \ {s} : journal'[k][u] = journal[k][u]
    BY <1>0, <1>1, Types DEF SearchInv
<1>3. ASSUME NEW r \in 0..k, NEW u \in Stations, r # k \/ u # s
      PROVE  Traced(r, u)'
  <2>1. journal'[r][u] = journal[r][u]
    <3>1. CASE r = k
        BY <3>1, <1>2, <1>3
    <3>2. CASE r # k
        BY <3>2, <1>0, <1>2
    <3> QED BY <3>1, <3>2
  <2>2. Traced(r, u)
      BY DEF TraceInv
  <2>3. \A j \in 0..r-1 : tau'[j] = tau[j] /\ journal'[j] = journal[j]
      BY <1>0, <1>2
  <2> QED BY <1>1, <2>1, <2>2, <2>3, TracedStays
<1>4. Traced(k, s)'
  <2>1. PICK p : p = preWalk[k][s]
      OBVIOUS
  <2>2. Traced(k, s)
      BY <1>0 DEF TraceInv
  <2>3. e.kind = "transit" => RealRide(e, s)'
      BY <1>1, RealRideStays
  <2>4. e.kind = "walk" => FromTransit(e.fromRound, e.from, e.dep)'
      BY <1>1 DEF FromTransit
  <2>5. ASSUME p # NoEntry
        PROVE  /\ p.kind = "transit" /\ RealRide(p, s)' /\ p.fromRound < k
               /\ (tau[p.fromRound][p.from] # Never)'
               /\ (p.dep >= ReadyAt(p.fromRound, p.from))'
    <3>1. /\ p.kind = "transit" /\ RealRide(p, s) /\ p.fromRound < k
          /\ tau[p.fromRound][p.from] # Never /\ p.dep >= ReadyAt(p.fromRound, p.from)
        BY <2>1, <2>2, <2>5 DEF Traced
    <3>2. p \in Entry
        BY <1>0, <2>1, <2>5 DEF SearchInv, TypeOK
    <3>3. p.fromRound \in 0..k-1
        BY <1>0, <3>1, <3>2 DEF Entry
    <3>4. RealRide(p, s)'
        BY <1>1, <3>1, RealRideStays
    <3>5. (ReadyAt(p.fromRound, p.from))' = ReadyAt(p.fromRound, p.from)
          /\ tau'[p.fromRound] = tau[p.fromRound]
        BY <1>2, <3>3 DEF ReadyAt
    <3> QED BY <3>1, <3>4, <3>5
  <2> QED BY <1>0, <1>1, <1>2, <2>1, <2>3, <2>4, <2>5 DEF Traced
<1> QED BY <1>0, <1>3, <1>4 DEF TraceInv

(* Getting off adds real rides only. *)
LEMMA AlightTraced ==
    ASSUME JournalInv, phase = "scan", queue # {}, Alight, Frame, phase' = phase
    PROVE  TraceInv' /\ \A s \in improved' : journal'[k][s].kind = "transit"
<1> DEFINE e == [kind |-> "transit", fromRound |-> BoardRound, from |-> ride.from,
                 key |-> Riding.key, dep |-> ride.dep, arr |-> Riding.arr[ride.pos]]
<1>1. /\ SearchInv /\ TraceInv /\ Searching /\ Searching' /\ TypeOK /\ ScanInv
      /\ k \in Nat /\ k >= 1 /\ RideOK(ride) /\ improved \subseteq Stations
      /\ \A s \in improved : journal[k][s].kind = "transit"
    BY DEF JournalInv, MadeInv, SearchInv, Searching, ScanInv, TypeOK
<1>2. CASE ride.from # Never /\ Improves(e.arr, Station)
  <2>1. SetLabel(Station, e) /\ Station \in Stations
      BY <1>1, <1>2, Scanned DEF Alight
  <2>2. Boarded(ride)
      BY <1>1, <1>2 DEF RideOK
  <2>3. e \in Entry
    <3>1. Riding.key \in Int \X Int /\ Riding.arr[ride.pos] \in Int
        BY <1>1, <2>2, Scanned DEF Boarded, Riding
    <3> QED BY <1>1, <2>2, <3>1 DEF Boarded, Entry, BoardRound
  <2>4. RealRide(e, Station)
      BY <1>1, <1>2, AlightReal DEF JournalInv, MadeInv
  <2>5. e.kind = "transit"
      OBVIOUS
  <2> HIDE DEF e
  <2>6. TraceInv'
      BY <1>1, <2>1, <2>3, <2>4, <2>5, SetLabelTraced
  <2>7. /\ improved' = improved \cup {Station}
        /\ journal' = [journal EXCEPT ![k] = [journal[k] EXCEPT ![Station] = e]]
      BY <2>1 DEF SetLabel
  <2>8. journal'[k] = [journal[k] EXCEPT ![Station] = e]
        /\ journal[k] \in [Stations -> Entry \cup {NoEntry}]
      BY <1>1, <2>7, Types
  <2> QED BY <1>1, <2>1, <2>5, <2>6, <2>7, <2>8
<1>3. CASE ~(ride.from # Never /\ Improves(e.arr, Station))
  <2>1. UNCHANGED <<tau, journal, improved, preWalk, k, query, net, signals>>
      BY <1>3 DEF Alight, labelVars, Frame
  <2>2. TraceInv'
      BY <1>1, <2>1 DEF TraceInv, Traced, FromTransit, ReadyAt, RealRide, AllTrips, Offered
  <2> QED BY <1>1, <2>1, <2>2
<1> QED BY <1>2, <1>3

(* Where the scan goes on, a trip that is ridden was really boarded. *)
LEMMA MoveToReal ==
    ASSUME SearchInv, phase = "scan", queue # {}, NEW r, r.pos \in Nat, RideReal(r), MoveTo(r),
           UNCHANGED <<query, net, signals>>, queue' # {}
    PROVE  RideReal(ride)'
<1>1. Len(Route.stops) \in Nat
    BY Scanned DEF SearchInv, WellFormedRoute
<1>2. CASE r.pos <= Len(Route.stops)
  <2>1. ride' = r /\ queue' = queue
      BY <1>2 DEF MoveTo
  <2>2. Route' = Route
      BY <2>1 DEF Route
  <2> QED BY <2>1, <2>2 DEF RideReal, TripUsable, CanBoard, Allowed
<1>3. CASE ~(r.pos <= Len(Route.stops))
  <2>1. \/ ride' = [NoRide EXCEPT !.pos = First(queue).pos, !.trip = r.trip + 1]
        \/ ride' = RideOn(queue')
      BY <1>3 DEF MoveTo
  <2>2. ride'.from = Never
      BY <2>1 DEF NoRide, RideOn
  <2> QED BY <2>2 DEF RideReal
<1> QED BY <1>2, <1>3

(* Where the scan is. *)
LEMMA ScanPlace ==
    ASSUME SearchInv, phase = "scan", queue # {}
    PROVE  /\ ride \in Ride /\ ride.pos \in Nat /\ ride.pos \in DOMAIN Route.stops
           /\ Len(Route.stops) \in Nat /\ \A a \in DOMAIN Route.stops : a \in Nat
           /\ \A i \in DOMAIN Route.trips : i \in Nat
<1>1. TypeOK /\ ScanInv /\ ride \in Ride /\ WellFormedRoute(Route)
    BY Scanned DEF SearchInv, ScanInv, RideOK
<1>2. Len(Route.stops) \in Nat /\ DOMAIN Route.stops = 1..Len(Route.stops)
    BY <1>1 DEF WellFormedRoute
<1>3. Len(Route.trips) \in Nat /\ DOMAIN Route.trips = 1..Len(Route.trips)
    BY <1>1, Scanned
<1> QED BY <1>1, <1>2, <1>3, Scanned

(* A trip boarded earlier is usable and leaves from the station at hand. *)
LEMMA BoardEarlierReal ==
    ASSUME SearchInv, phase = "scan", queue # {}, RideReal(ride)
    PROVE  RideReal([BoardEarlier EXCEPT !.pos = ride.pos + 1])
<1> DEFINE beat == IF ride.trip = 0 THEN Never ELSE Riding.dep[ride.pos]
           catches == IF tau[BoardRound][Station] = Never THEN {}
                      ELSE EarliestTrip(ride.pos, ReadyAt(BoardRound, Station), beat)
<1>1. /\ ride \in Ride /\ ride.pos \in Nat /\ ride.pos \in DOMAIN Route.stops
      /\ \A a \in DOMAIN Route.stops : a \in Nat
      /\ \A i \in DOMAIN Route.trips : i \in Nat
    BY ScanPlace
<1>2. CASE catches = {}
  <2>1. BoardEarlier = ride
      BY <1>2 DEF BoardEarlier
  <2> QED BY <1>1, <2>1 DEF RideReal, Ride
<1>3. CASE catches # {}
  <2> DEFINE i == Min(catches)
  <2>1. \A j \in catches : j \in DOMAIN Route.trips /\ TripUsable(Route.trips[j])
      BY <1>3 DEF EarliestTrip
  <2>2. catches \in SUBSET Nat
      BY <1>1, <2>1
  <2>3. i \in catches
      BY <1>3, <2>2, MinIsLeast
  <2>4. TripUsable(Route.trips[i])
      BY <2>1, <2>3
  <2>5. BoardEarlier = [ride EXCEPT !.trip = i, !.from = Station,
                                    !.dep = Route.trips[i].dep[ride.pos]]
      BY <1>3 DEF BoardEarlier
  <2> HIDE DEF i
  <2>6. PICK r : r = [BoardEarlier EXCEPT !.pos = ride.pos + 1]
      OBVIOUS
  <2>7. /\ r.trip = i /\ r.from = Station /\ r.pos = ride.pos + 1
        /\ r.dep = Route.trips[i].dep[ride.pos]
      BY <1>1, <2>5, <2>6 DEF Ride
  <2> QED BY <1>1, <2>4, <2>6, <2>7 DEF RideReal, Station
<1> QED BY <1>2, <1>3

(* So is a trip scanned on its own. *)
LEMMA BoardThisReal ==
    ASSUME SearchInv, phase = "scan", queue # {}, RideReal(ride), TripUsable(Riding)
    PROVE  RideReal([BoardThis EXCEPT !.pos = ride.pos + 1])
<1>1. /\ ride \in Ride /\ ride.pos \in Nat /\ ride.pos \in DOMAIN Route.stops
      /\ \A a \in DOMAIN Route.stops : a \in Nat
    BY ScanPlace
<1>2. CASE BoardThis = ride
    BY <1>1, <1>2 DEF RideReal, Ride
<1>3. CASE BoardThis # ride
  <2>1. PICK r : r = [BoardThis EXCEPT !.pos = ride.pos + 1]
      OBVIOUS
  <2>2. BoardThis = [ride EXCEPT !.from = Station, !.dep = Riding.dep[ride.pos]]
      BY <1>3 DEF BoardThis
  <2>3. /\ r.trip = ride.trip /\ r.from = Station /\ r.pos = ride.pos + 1
        /\ r.dep = Riding.dep[ride.pos]
      BY <1>1, <2>1, <2>2 DEF Ride
  <2> QED BY <1>1, <2>1, <2>3 DEF RideReal, Station, Riding
<1> QED BY <1>2, <1>3

LEMMA ScansTraced ==
    ASSUME JournalInv, ScanStop \/ ScanTripStop
    PROVE  TraceInv' /\ MadeInv'
<1>0. /\ phase = "scan" /\ queue # {} /\ phase' = phase /\ Frame /\ k \in Nat
      /\ SearchInv /\ TraceInv /\ RideReal(ride) /\ preWalk[k] = NoEntries
    BY DEF ScanStop, ScanTripStop, Frame, liveVars, inputVars, JournalInv, MadeInv,
           SearchInv, TypeOK
<1>1. /\ phase = "scan" /\ queue # {} /\ phase' = phase /\ Frame /\ k \in Nat
      /\ SearchInv /\ TraceInv /\ RideReal(ride) /\ preWalk[k] = NoEntries
      /\ ride \in Ride /\ ride.pos \in Nat /\ ride.pos + 1 \in Nat /\ Len(Route.stops) + 1 \in Nat
    BY <1>0, ScanPlace
<1>2. CASE Alight
  <2>1. TraceInv' /\ \A s \in improved' : journal'[k][s].kind = "transit"
      BY <1>1, <1>2, AlightTraced
  <2>2. queue' # {} => RideReal(ride)'
    <3>1. CASE ScanStop
      <4>1. PICK r : r = [BoardEarlier EXCEPT !.pos = ride.pos + 1]
          OBVIOUS
      <4>2. RideReal(r) /\ MoveTo(r)
          BY <1>1, <3>1, <4>1, BoardEarlierReal DEF ScanStop
      <4>3. r.pos \in Nat
          BY <1>1, <4>1 DEF BoardEarlier, Ride
      <4> QED BY <1>1, <4>2, <4>3, MoveToReal DEF Frame
    <3>2. CASE ScanTripStop /\ TripUsable(Riding)
      <4>1. PICK r : r = [BoardThis EXCEPT !.pos = ride.pos + 1]
          OBVIOUS
      <4>2. RideReal(r) /\ MoveTo(r)
          BY <1>1, <3>2, <4>1, BoardThisReal DEF ScanTripStop
      <4>3. r.pos \in Nat
          BY <1>1, <4>1 DEF BoardThis, Ride
      <4> QED BY <1>1, <4>2, <4>3, MoveToReal DEF Frame
    <3>3. CASE ScanTripStop /\ ~TripUsable(Riding)
      <4>1. PICK r : r = [ride EXCEPT !.pos = Len(Route.stops) + 1]
          OBVIOUS
      <4>2. MoveTo(r)
          BY <3>3, <4>1 DEF ScanTripStop
      <4>3. ride.from = Never
          BY <1>1, <3>3 DEF RideReal, Riding
      <4>4. RideReal(r) /\ r.pos \in Nat
          BY <1>1, <4>1, <4>3 DEF RideReal, Ride
      <4> QED BY <1>1, <4>2, <4>4, MoveToReal DEF Frame
    <3> QED BY <3>1, <3>2, <3>3
  <2> QED BY <1>1, <2>1, <2>2 DEF MadeInv, Frame
<1>3. CASE ~Alight
  <2>1. /\ MoveTo([ride EXCEPT !.pos = Len(Route.stops) + 1]) /\ ~TripUsable(Riding)
        /\ UNCHANGED <<tau, journal, improved, preWalk, k, query, net, signals>>
      BY <1>1, <1>3 DEF ScanStop, ScanTripStop, labelVars, Frame
  <2>2. TraceInv'
      BY <1>1, <2>1 DEF TraceInv, Traced, FromTransit, ReadyAt, RealRide, AllTrips, Offered,
                        Searching
  <2>3. PICK r : r = [ride EXCEPT !.pos = Len(Route.stops) + 1]
      OBVIOUS
  <2>4. ride.from = Never
      BY <1>1, <2>1 DEF RideReal, Riding
  <2>5. RideReal(r) /\ r.pos \in Nat
      BY <1>1, <2>3, <2>4 DEF RideReal, Ride
  <2>6. queue' # {} => RideReal(ride)'
      BY <1>1, <2>1, <2>3, <2>5, MoveToReal
  <2> QED BY <1>1, <2>1, <2>2, <2>6 DEF MadeInv, JournalInv
<1> QED BY <1>2, <1>3

LEMMA WalkFootpathTraced ==
    ASSUME JournalInv, WalkFootpath
    PROVE  TraceInv' /\ MadeInv'
<1>1. /\ phase = "walk" /\ phase' = phase /\ Frame /\ Searching /\ Searching' /\ k' = k
      /\ SearchInv /\ TraceInv /\ \A w \in walks : WalkOK(w) /\ FromTransit(k, w.from, w.depart)
    BY DEF WalkFootpath, Frame, liveVars, inputVars, JournalInv, MadeInv, SearchInv, WalkInv,
           Searching
<1>2. PICK w \in walks :
        /\ walks' = walks \ {w}
        /\ LET arr == w.depart + w.secs
           IN  IF Improves(arr, w.to)
               THEN SetLabel(w.to, [kind |-> "walk", fromRound |-> k, from |-> w.from,
                                    key |-> Never, dep |-> w.depart, arr |-> arr])
               ELSE UNCHANGED <<labelVars, improved>>
    BY DEF WalkFootpath
<1>3. MadeInv'
    BY <1>1, <1>2 DEF MadeInv, FromTransit, Frame
<1> DEFINE e == [kind |-> "walk", fromRound |-> k, from |-> w.from,
                 key |-> Never, dep |-> w.depart, arr |-> w.depart + w.secs]
<1>4. CASE Improves(w.depart + w.secs, w.to)
  <2>1. SetLabel(w.to, e) /\ w.to \in Stations
      BY <1>1, <1>2, <1>4 DEF WalkOK
  <2>2. e \in Entry
      BY <1>1, Types DEF WalkOK, Entry, SearchInv
  <2>3. e.kind # "transit" /\ FromTransit(e.fromRound, e.from, e.dep)
      BY <1>1
  <2> HIDE DEF e
  <2>4. TraceInv'
      BY <1>1, <2>1, <2>2, <2>3, SetLabelTraced
  <2> QED BY <1>3, <2>4
<1>5. CASE ~Improves(w.depart + w.secs, w.to)
  <2>1. UNCHANGED <<tau, journal, preWalk, k, query, net, signals>>
      BY <1>1, <1>2, <1>5 DEF labelVars, Frame
  <2>2. TraceInv'
      BY <1>1, <2>1 DEF TraceInv, Traced, FromTransit, ReadyAt, RealRide, AllTrips, Offered
  <2> QED BY <1>3, <2>2
<1> QED BY <1>4, <1>5

LEMMA SearchTraced ==
    ASSUME JournalInv, Search
    PROVE  TraceInv' /\ MadeInv'
<1>1. CASE NothingToSearch
    BY <1>1 DEF Search, TraceInv, MadeInv, Searching
<1>2. CASE ~NothingToSearch
  <2>1. /\ phase' = "walk" /\ k' = 0 /\ query' = query
        /\ journal' = [r \in {0} |-> NoEntries] /\ preWalk' = [r \in {0} |-> NoEntries]
        /\ walks' = FootpathsFrom(liveRoutes, {query.origin}, best')
      BY <1>2 DEF Search, JournalInv, SearchInv, CurrentInv
  <2>2. \A s \in Stations : journal'[0][s] = NoEntry /\ preWalk'[0][s] = NoEntry
      BY <2>1 DEF NoEntries
  <2>3. TraceInv'
      BY <2>1, <2>2 DEF TraceInv, Traced, NoEntry
  <2>4. \A w \in walks' : w.from = query.origin
      BY <2>1 DEF FootpathsFrom
  <2> QED BY <2>1, <2>3, <2>4 DEF MadeInv, FromTransit
<1> QED BY <1>1, <1>2

LEMMA NextRoundTraced ==
    ASSUME JournalInv, NextRound
    PROVE  TraceInv' /\ MadeInv'
<1>1. /\ phase' = "scan" /\ k' = k + 1 /\ Searching /\ SearchInv /\ TraceInv
      /\ tau' = [r \in 0..k+1 |-> IF r <= k THEN tau[r] ELSE tau[k]]
      /\ journal' = [r \in 0..k+1 |-> IF r <= k THEN journal[r] ELSE journal[k]]
      /\ preWalk' = [r \in 0..k+1 |-> IF r <= k THEN preWalk[r] ELSE NoEntries]
      /\ ride' = RideOn(queue') /\ improved' = {}
      /\ UNCHANGED <<query, net, signals>>
    BY DEF NextRound, RoundOver, Searching, JournalInv, inputVars
<1>2. k \in Nat
    BY <1>1, Types DEF SearchInv
<1>3. /\ \A r \in 0..k : tau'[r] = tau[r] /\ journal'[r] = journal[r] /\ preWalk'[r] = preWalk[r]
      /\ journal'[k+1] = journal[k] /\ preWalk'[k+1] = NoEntries
    BY <1>1, <1>2
<1>4. ASSUME NEW q \in 0..k+1, NEW s \in Stations
      PROVE  Traced(q, s)'
  <2>1. PICK r \in 0..k : q \in {r, r + 1} /\ journal'[q] = journal[r]
                          /\ (preWalk'[q] = preWalk[r] \/ preWalk'[q] = NoEntries)
    <3>1. CASE q = k + 1
      <4>1. k \in 0..k
          BY <1>2
      <4> QED BY <3>1, <4>1, <1>3
    <3>2. CASE q # k + 1
      <4>1. q \in 0..k
          BY <3>2, <1>2
      <4> QED BY <4>1, <1>3
    <3> QED BY <3>1, <3>2
  <2>2. Traced(r, s)
      BY <1>1 DEF TraceInv
  <2>3. preWalk'[q][s] = preWalk[r][s] \/ preWalk'[q][s] = NoEntry
      BY <2>1 DEF NoEntries
  <2>4. (\A j \in 0..r : j \in 0..k) /\ (\A j \in 0..r-1 : j \in 0..k)
      BY <1>2
  <2> QED BY <1>1, <1>3, <2>1, <2>2, <2>3, <2>4, TracedStays
<1>5. TraceInv'
    BY <1>1, <1>4 DEF TraceInv
<1>6. ride'.from = Never
    BY <1>1 DEF RideOn, NoRide
<1> QED BY <1>1, <1>3, <1>5, <1>6 DEF MadeInv, RideReal

(* The end of a scan keeps the rides that walks may replace.  No walk of   *)
(* this round is in the journal yet, except from the origin.               *)
LEMMA EndScanTraced ==
    ASSUME JournalInv, EndScan
    PROVE  TraceInv' /\ MadeInv'
<1>1. /\ phase = "scan" /\ phase' = "walk" /\ Searching /\ SearchInv /\ TraceInv /\ TypeOK
      /\ walks' = FootpathsFrom(net, improved, tau[k])
      /\ preWalk' = [preWalk EXCEPT ![k] = KeptEntries]
      /\ UNCHANGED <<query, net, signals, k, tau, journal, improved>>
      /\ preWalk[k] = NoEntries /\ \A s \in improved : journal[k][s].kind = "transit"
    BY DEF EndScan, Searching, SearchInv, inputVars, labelVars, JournalInv, MadeInv
<1>2. /\ k \in Nat /\ k \in 0..k /\ improved \subseteq Stations
      /\ preWalk \in [0..k -> [Stations -> Entry \cup {NoEntry}]]
      /\ \A s \in improved : tau[k][s] # Never
    BY <1>1, Types DEF TypeOK, SearchInv, CurrentInv
<1>3. preWalk'[k] = KeptEntries /\ \A r \in 0..k-1 : preWalk'[r] = preWalk[r]
    BY <1>1, <1>2
<1>4. \A j \in 0..k : \A u \in Stations : preWalk[j][u] # NoEntry => preWalk'[j][u] = preWalk[j][u]
  <2> SUFFICES ASSUME NEW j \in 0..k, NEW u \in Stations, preWalk[j][u] # NoEntry
               PROVE  preWalk'[j][u] = preWalk[j][u]
      OBVIOUS
  <2>1. j # k
      BY <1>1 DEF NoEntries
  <2> QED BY <1>2, <1>3, <2>1
<1>5. ASSUME NEW r \in 0..k, NEW s \in Stations, preWalk'[r][s] = preWalk[r][s]
      PROVE  Traced(r, s)'
  <2>1. Traced(r, s)
      BY <1>1 DEF TraceInv
  <2>2. \A j \in 0..r : j \in 0..k
      BY <1>2
  <2> QED BY <1>1, <1>4, <1>5, <2>1, <2>2, TracedStays
<1>6. ASSUME NEW s \in Stations, preWalk'[k][s] # preWalk[k][s]
      PROVE  Traced(k, s)'
  <2>1. s \in improved /\ preWalk'[k][s] = journal[k][s]
      BY <1>1, <1>3, <1>6 DEF KeptEntries, NoEntries
  <2>2. PICK e : e = journal[k][s]
      OBVIOUS
  <2>3. e.kind = "transit" /\ e # NoEntry
      BY <1>1, <2>1, <2>2 DEF NoEntry
  <2>4. e \in Entry
      BY <1>1, <1>2, <2>2, <2>3, Types
  <2>5. RealRide(e, s)
      BY <1>1, <1>2, <2>2, <2>3 DEF TraceInv, Traced
  <2>6. RealRide(e, s)'
      BY <1>1, <2>5, RealRideStays
  <2>7. e.fromRound < k /\ tau[e.fromRound][e.from] # Never /\ e.dep >= ReadyAt(e.fromRound, e.from)
      BY <1>1, <1>2, <2>2, <2>3 DEF SearchInv, LabelsJustified
  <2>8. (e.dep >= ReadyAt(e.fromRound, e.from))'
      BY <1>1, <2>7 DEF ReadyAt
  <2>9. e.kind # "walk"
      BY <2>3
  <2> QED BY <1>1, <2>1, <2>2, <2>3, <2>6, <2>7, <2>8, <2>9 DEF Traced
<1>7. TraceInv'
  <2>1. ASSUME NEW r \in 0..k, NEW s \in Stations
        PROVE  Traced(r, s)'
    <3>1. CASE preWalk'[r][s] = preWalk[r][s]
        BY <3>1, <1>5
    <3>2. CASE preWalk'[r][s] # preWalk[r][s]
      <4>1. r = k
          BY <3>2, <1>2, <1>3
      <4> QED BY <1>1, <3>2, <4>1, <1>6
    <3> QED BY <3>1, <3>2
  <2> QED BY <1>1, <2>1 DEF TraceInv
<1>8. ASSUME NEW w \in walks'
      PROVE  FromTransit(k, w.from, w.depart)'
  <2>1. PICK s \in improved : w \in {[from |-> s, depart |-> tau[k][s], to |-> x.to, secs |-> x.secs] :
                                     x \in net.walks[s]}
      BY <1>1, <1>8 DEF FootpathsFrom
  <2>2. net.walks[s] # {} /\ w.from = s /\ w.depart = tau[k][s]
      BY <2>1
  <2>3. preWalk'[k][s] = journal[k][s]
      BY <1>2, <1>3, <2>2 DEF KeptEntries
  <2>4. journal[k][s] # NoEntry
      BY <1>1 DEF NoEntry
  <2>5. journal[k][s].arr = tau[k][s] /\ tau[k][s] \in Int
      BY <1>1, <1>2, <2>4, Types DEF SearchInv, LabelsJustified
  <2> QED BY <1>1, <2>2, <2>3, <2>4, <2>5 DEF FromTransit
<1> QED BY <1>1, <1>7, <1>8 DEF MadeInv

LEMMA OthersTraced ==
    ASSUME JournalInv, Cancel \/ Finish \/ SwapRoutes \/ SwapSignals \/ UNCHANGED vars
    PROVE  TraceInv' /\ MadeInv'
<1>1. CASE Cancel \/ Finish
    BY <1>1 DEF Cancel, Finish, TraceInv, MadeInv, Searching
<1>2. CASE SwapRoutes \/ SwapSignals \/ UNCHANGED vars
  <2>1. UNCHANGED <<query, net, signals, phase, k, tau, journal, preWalk, improved, queue, ride,
                    walks>>
      BY <1>2 DEF SwapRoutes, SwapSignals, Publish, vars, inputVars, labelVars, loopVars
  <2>2. TraceInv'
      BY <2>1 DEF JournalInv, TraceInv, Traced, FromTransit, ReadyAt, RealRide, AllTrips,
                  Offered, Searching
  <2>3. MadeInv'
      BY <2>1 DEF JournalInv, MadeInv, FromTransit, RideReal, Route, TripUsable, CanBoard,
                  Allowed
  <2> QED BY <2>2, <2>3
<1> QED BY <1>1, <1>2

(* Every entry of the journal is a real ride of a usable trip or a real    *)
(* walk that does not follow another.                                      *)
LEMMA JournalInvariant == Spec => []JournalInv
<1>1. Init => JournalInv
    BY InitSearchInv DEF Init, JournalInv, TraceInv, MadeInv, Searching
<1>2. JournalInv /\ [Next]_vars => JournalInv'
  <2>1. JournalInv /\ [Next]_vars => SearchInv'
      BY SearchKeeps, WalkFootpathKeeps, NextRoundKeeps, ScanStopKeeps, ScanTripStopKeeps,
         EndScanKeeps, OthersKeep DEF Next, SearchStep, JournalInv
  <2>2. JournalInv /\ [Next]_vars => TraceInv' /\ MadeInv'
      BY SearchTraced, WalkFootpathTraced, NextRoundTraced, ScansTraced, EndScanTraced,
         OthersTraced DEF Next, SearchStep
  <2> QED BY <2>1, <2>2 DEF JournalInv
<1> QED BY <1>1, <1>2, PTL DEF Spec

(***************************************************************************)
(* buildPath                                                               *)
(***************************************************************************)

Leg == [kind: {"transit", "walk"}, key: (Int \X Int) \cup {Never},
        from: Stations, to: Stations, dep: Int, arr: Int]

RealLeg(l) ==
    /\ l.kind = "transit" => RealRide(l, l.to)
    /\ l.kind = "walk" => \E w \in net.walks[l.from] : w.to = l.to /\ l.arr = l.dep + w.secs

(* Leg l can be followed by leg m. *)
Joins(l, m) ==
    /\ ~(l.kind = "walk" /\ m.kind = "walk")
    /\ l.kind = "transit" /\ m.kind = "transit" => m.dep >= l.arr + TransferSeconds

GoodLegs(legs) ==
    /\ legs \in Seq(Leg)
    /\ \A i \in DOMAIN legs : RealLeg(legs[i])
    /\ \A i \in DOMAIN legs : i > 1 => Joins(legs[i-1], legs[i])

(* Leg l starts at s with the label that round r gave it. *)
StartsFrom(r, s, l) ==
    /\ l.kind = "transit" => tau[r][s] # Never /\ l.dep >= ReadyAt(r, s)
    /\ l.kind = "walk" => FromTransit(r, s, l.dep)

BackState == [at: Stations, round: 0..k, legs: Seq(Leg),
              visited: SUBSET (Nat \X Stations), broken: BOOLEAN]

BackOK(b) ==
    /\ b \in BackState
    /\ GoodLegs(b.legs)
    /\ b.legs # <<>> => StartsFrom(b.round, b.at, b.legs[1])

(* A leg put in front of good legs that it can be followed by. *)
LEMMA LegInFront ==
    ASSUME NEW legs, GoodLegs(legs), NEW l \in Leg, RealLeg(l),
           legs # <<>> => Joins(l, legs[1])
    PROVE  GoodLegs(<<l>> \o legs) /\ (<<l>> \o legs)[1] = l /\ <<l>> \o legs # <<>>
<1>1. legs \in Seq(Leg) /\ Len(legs) \in Nat /\ DOMAIN legs = 1..Len(legs)
    BY DEF GoodLegs
<1>2. ASSUME NEW S, NEW s \in Seq(S), NEW x \in S
      PROVE  /\ <<x>> \o s \in Seq(S) /\ DOMAIN (<<x>> \o s) = 1..Len(s)+1
             /\ (<<x>> \o s)[1] = x /\ <<x>> \o s # <<>>
             /\ \A i \in 2..Len(s)+1 : (<<x>> \o s)[i] = s[i-1]
    OBVIOUS
<1>3. PICK t : t = <<l>> \o legs
    OBVIOUS
<1>4. /\ t \in Seq(Leg) /\ DOMAIN t = 1..Len(legs)+1 /\ t[1] = l /\ t # <<>>
      /\ \A i \in 2..Len(legs)+1 : t[i] = legs[i-1]
    BY <1>1, <1>2, <1>3
<1>5. ASSUME NEW i \in DOMAIN t
      PROVE  RealLeg(t[i]) /\ (i > 1 => Joins(t[i-1], t[i]))
  <2>1. CASE i = 1
      BY <2>1, <1>4
  <2>2. CASE i = 2
    <3>1. t[2] = legs[1] /\ 1 \in DOMAIN legs /\ legs # <<>>
        BY <2>2, <1>1, <1>4, <1>5
    <3> QED BY <2>2, <3>1, <1>4 DEF GoodLegs
  <2>3. CASE i > 2
    <3>1. /\ i - 1 \in DOMAIN legs /\ i - 1 > 1 /\ t[i] = legs[i-1]
          /\ t[i-1] = legs[(i-1)-1]
        BY <2>3, <1>1, <1>4, <1>5
    <3> QED BY <3>1 DEF GoodLegs
  <2>4. i \in Nat /\ i >= 1
      BY <1>1, <1>4
  <2> QED BY <2>1, <2>2, <2>3, <2>4
<1> QED BY <1>3, <1>4, <1>5 DEF GoodLegs

(* The entry that buildPath follows was a real last leg of the label that  *)
(* it looks at, and what comes next can follow it.                         *)
LEMMA EntryBeforeReal ==
    ASSUME JournalInv, Searching, NEW b, BackOK(b), b.at # query.origin,
           journal[b.round][b.at] # NoEntry, NEW e, e = EntryBefore(b)
    PROVE  /\ e \in Entry /\ e.fromRound \in 0..k
           /\ RealLeg(LegOf(e, b.at))
           /\ StartsFrom(e.fromRound, e.from, LegOf(e, b.at))
           /\ b.legs # <<>> => Joins(LegOf(e, b.at), b.legs[1])
<1> DEFINE r == b.round
           s == b.at
           m == b.legs[1]
<1>0. /\ r \in 0..k /\ s \in Stations /\ k \in Nat /\ TypeOK /\ LabelsJustified
      /\ b.legs \in Seq(Leg)
      /\ b.legs # <<>> => Head(b.legs) = m /\ m \in Leg
    BY Types DEF BackOK, BackState, JournalInv, SearchInv
<1>1. PICK j : j = journal[r][s]
    OBVIOUS
<1>2. PICK p : p = preWalk[r][s]
    OBVIOUS
<1>3. /\ j \in Entry /\ j.kind \in {"transit", "walk"} /\ tau[r][s] = j.arr
      /\ Justified(r, s) /\ Traced(r, s) /\ p \in Entry \cup {NoEntry}
  <2>1. Justified(r, s)
      BY <1>0 DEF LabelsJustified, Justified
  <2>2. Traced(r, s)
      BY <1>0 DEF JournalInv, TraceInv
  <2>3. j \in Entry /\ p \in Entry \cup {NoEntry}
      BY <1>0, <1>1, <1>2, Types DEF TypeOK
  <2>4. tau[r][s] = j.arr
      BY <1>1, <2>1 DEF Justified
  <2> QED BY <2>1, <2>2, <2>3, <2>4, EntryIsNotNone
<1>4. b.legs # <<>> => StartsFrom(r, s, m)
    BY DEF BackOK
<1> HIDE DEF r, s, m
<1>5. e = IF b.legs # <<>> /\ m.kind = "walk" /\ j.kind = "walk" /\ p # NoEntry /\ p.arr <= m.dep
          THEN p ELSE j
    BY <1>0, <1>1, <1>2 DEF EntryBefore, r, s
<1>6. CASE e = p /\ p # NoEntry /\ b.legs # <<>> /\ m.kind = "walk"
  <2>1. e \in Entry /\ e.kind = "transit" /\ e.fromRound < r /\ RealRide(e, s)
        /\ tau[e.fromRound][e.from] # Never /\ e.dep >= ReadyAt(e.fromRound, e.from)
      BY <1>2, <1>3, <1>6 DEF Traced
  <2>2. e.fromRound \in 0..k
      BY <1>0, <2>1 DEF Entry
  <2>3. /\ LegOf(e, s).kind = "transit" /\ LegOf(e, s).to = s /\ LegOf(e, s).dep = e.dep
        /\ RealRide(LegOf(e, s), s)
      BY <2>1 DEF LegOf, RealRide
  <2> QED BY <1>6, <2>1, <2>2, <2>3 DEF RealLeg, StartsFrom, Joins, s, m
<1>7. CASE e = j /\ j.kind = "transit"
  <2>1. /\ e.fromRound < r /\ RealRide(e, s)
        /\ tau[e.fromRound][e.from] # Never /\ e.dep >= ReadyAt(e.fromRound, e.from)
      BY <1>1, <1>3, <1>7, EntryIsNotNone DEF Traced, Justified
  <2>2. e.fromRound \in 0..k
      BY <1>0, <1>3, <1>7, <2>1 DEF Entry
  <2>3. /\ LegOf(e, s).kind = "transit" /\ LegOf(e, s).to = s /\ LegOf(e, s).dep = e.dep
        /\ LegOf(e, s).arr = e.arr /\ RealRide(LegOf(e, s), s)
      BY <2>1, <1>7 DEF LegOf, RealRide
  <2>4. b.legs # <<>> /\ m.kind = "transit" => m.dep >= e.arr + TransferSeconds
      BY <1>1, <1>3, <1>4, <1>7 DEF StartsFrom, ReadyAt
  <2> QED BY <1>3, <1>7, <2>1, <2>2, <2>3, <2>4 DEF RealLeg, StartsFrom, Joins, s, m
<1>8. CASE e = j /\ j.kind = "walk" /\ ~(b.legs # <<>> /\ m.kind = "walk")
  <2>1. /\ e.fromRound <= r /\ FromTransit(e.fromRound, e.from, e.dep)
        /\ \E w \in net.walks[e.from] : w.to = s /\ e.arr = e.dep + w.secs
      BY <1>1, <1>3, <1>8 DEF Traced, Justified
  <2>2. e.fromRound \in 0..k
      BY <1>0, <1>3, <1>8, <2>1 DEF Entry
  <2>3. /\ LegOf(e, s).kind = "walk" /\ LegOf(e, s).to = s /\ LegOf(e, s).dep = e.dep
        /\ LegOf(e, s).arr = e.arr /\ LegOf(e, s).from = e.from
      BY <1>8 DEF LegOf
  <2> QED BY <1>3, <1>8, <2>1, <2>2, <2>3 DEF RealLeg, StartsFrom, Joins, s, m
<1>9. b.legs # <<>> /\ m.kind = "walk" /\ j.kind = "walk" => p # NoEntry /\ p.arr <= m.dep
    BY <1>2, <1>4 DEF StartsFrom, FromTransit, s
<1> QED BY <1>3, <1>5, <1>6, <1>7, <1>8, <1>9

(* One turn of buildPath's loop. *)
LEMMA BackOneLegOK ==
    ASSUME JournalInv, Searching, NEW b, BackOK(b)
    PROVE  BackOK(BackOneLeg(b))
<1> DEFINE e == EntryBefore(b)
           broken == \/ journal[b.round][b.at] = NoEntry
                     \/ e.from = b.at
                     \/ <<b.round, b.at>> \in b.visited
<1>1. CASE b.at = query.origin \/ b.broken
    BY <1>1 DEF BackOneLeg
<1>2. CASE ~(b.at = query.origin \/ b.broken) /\ broken
  <2>1. BackOneLeg(b) = [b EXCEPT !.broken = TRUE]
      BY <1>2 DEF BackOneLeg
  <2> QED BY <2>1 DEF BackOK, BackState
<1>3. CASE ~(b.at = query.origin \/ b.broken) /\ ~broken
  <2>1. PICK l : l = LegOf(e, b.at)
      OBVIOUS
  <2>2. BackOneLeg(b) = [b EXCEPT !.at = e.from, !.round = e.fromRound,
                                  !.legs = <<l>> \o @, !.visited = @ \cup {<<b.round, b.at>>}]
      BY <1>3, <2>1 DEF BackOneLeg
  <2>3. /\ e \in Entry /\ e.fromRound \in 0..k
        /\ RealLeg(l) /\ StartsFrom(e.fromRound, e.from, l)
        /\ b.legs # <<>> => Joins(l, b.legs[1])
      BY <1>3, <2>1, EntryBeforeReal
  <2>4. b \in BackState /\ GoodLegs(b.legs) /\ k \in Nat
      BY Types DEF BackOK, JournalInv, SearchInv
  <2>5. l \in Leg
      BY <2>1, <2>3, <2>4 DEF LegOf, Entry, Leg, BackState
  <2>6. PICK legs : legs = <<l>> \o b.legs
      OBVIOUS
  <2>7. GoodLegs(legs) /\ legs[1] = l /\ legs \in Seq(Leg)
      BY <2>3, <2>4, <2>5, <2>6, LegInFront DEF GoodLegs
  <2> HIDE DEF e
  <2>8. PICK c : c = BackOneLeg(b)
      OBVIOUS
  <2>9. e.from \in Stations /\ e.fromRound \in 0..k /\ <<b.round, b.at>> \in Nat \X Stations
      BY <2>3, <2>4 DEF Entry, BackState
  <2>10. b.visited \cup {<<b.round, b.at>>} \in SUBSET (Nat \X Stations)
      BY <2>4, <2>9 DEF BackState
  <2>11. PICK v : v = b.visited \cup {<<b.round, b.at>>}
      OBVIOUS
  <2>12. c = [b EXCEPT !.at = e.from, !.round = e.fromRound, !.legs = legs, !.visited = v]
      BY <2>2, <2>4, <2>6, <2>8, <2>11 DEF BackState
  <2>13. /\ c.at = e.from /\ c.round = e.fromRound /\ c.legs = legs /\ c \in BackState
      BY <2>4, <2>7, <2>9, <2>10, <2>11, <2>12 DEF BackState
  <2> QED BY <2>3, <2>7, <2>8, <2>13 DEF BackOK
<1> QED BY <1>1, <1>2, <1>3

(* Turns of the loop from a first state. *)
Turn(f, first, n) == IF n = 0 THEN first ELSE BackOneLeg(f[n-1])

(* The loop computes something: the recursive function exists. *)
LEMMA TurnsExist ==
    ASSUME NEW first, NEW N \in Nat
    PROVE  \E f : f = [n \in 0..N |-> Turn(f, first, n)]
<1> DEFINE Loops(m) == \E f : f = [n \in 0..m |-> Turn(f, first, n)]
           Bad == {m \in Nat : ~Loops(m)}
<1> SUFFICES ASSUME Bad # {} PROVE FALSE
    OBVIOUS
<1>1. PICK m \in Bad : \A y \in Bad : m <= y
    BY MinIsLeast
<1>2. CASE m = 0
  <2> DEFINE f == [n \in 0..0 |-> first]
  <2>1. f = [n \in 0..0 |-> Turn(f, first, n)]
      BY DEF Turn
  <2> QED BY <1>1, <1>2, <2>1
<1>3. CASE m # 0
  <2>1. m - 1 \in Nat /\ m - 1 \notin Bad
      BY <1>1, <1>3
  <2>2. PICK f : f = [n \in 0..m-1 |-> Turn(f, first, n)]
      BY <2>1
  <2> DEFINE g == [n \in 0..m |-> IF n < m THEN f[n] ELSE Turn(f, first, m)]
  <2>3. ASSUME NEW n \in 0..m
        PROVE  g[n] = Turn(g, first, n)
    <3>1. Turn(f, first, n) = Turn(g, first, n)
        BY <1>1, <1>3 DEF Turn
    <3>2. CASE n < m
      <4>1. n \in 0..m-1 /\ g[n] = f[n]
          BY <1>1, <3>2
      <4> QED BY <2>2, <3>1, <4>1, Zenon
    <3>3. CASE n = m
      <4>1. g[m] = Turn(f, first, m)
          BY <1>1
      <4> HIDE DEF g
      <4> QED BY <3>1, <3>3, <4>1
    <3> QED BY <1>1, <3>2, <3>3
  <2>4. g = [n \in 0..m |-> Turn(g, first, n)]
      BY <2>3
  <2> QED BY <1>1, <2>4
<1> QED BY <1>2, <1>3

(* buildPath returns legs that are real and follow one another. *)
LEMMA BacktrackGood ==
    ASSUME JournalInv, Searching, NEW r \in 0..k
    PROVE  GoodLegs(Backtrack(r))
<1> DEFINE steps == 2 * (MaxRounds + 1) + 3
           first == [at |-> query.dest, round |-> r, legs |-> <<>>,
                     visited |-> {}, broken |-> FALSE]
           back == CHOOSE f : f = [n \in 0..steps |-> Turn(f, first, n)]
           Bad == {n \in 0..steps : ~BackOK(back[n])}
<1>1. steps \in Nat /\ k \in Nat /\ query.dest \in Stations
    BY Types, RaptorAssumption DEF RaptorAssumption, JournalInv, SearchInv
<1>2. GoodLegs(<<>>)
    BY DEF GoodLegs
<1>3. Backtrack(r) = IF back[steps].broken \/ back[steps].at # query.origin
                     THEN <<>> ELSE back[steps].legs
    BY DEF Backtrack, Turn
<1>4. BackOK(first)
    BY <1>1, <1>2 DEF BackOK, BackState
<1> HIDE DEF steps, first
<1>5. back = [n \in 0..steps |-> Turn(back, first, n)]
    BY <1>1, TurnsExist
<1> HIDE DEF back
<1>6. \A n \in 0..steps : back[n] = Turn(back, first, n)
    BY <1>5, Zenon
<1>7. Bad = {}
  <2> SUFFICES ASSUME Bad # {} PROVE FALSE
      OBVIOUS
  <2>1. Bad \in SUBSET Nat
      BY <1>1
  <2>2. PICK n \in Bad : \A y \in Bad : n <= y
      BY <2>1, MinIsLeast
  <2>3. n # 0
    <3>1. back[0] = first
        BY <1>1, <1>6 DEF Turn
    <3> QED BY <3>1, <1>4, <2>2
  <2>4. n - 1 \in 0..steps /\ n - 1 \notin Bad
      BY <1>1, <2>2, <2>3
  <2>5. PICK b : b = back[n-1]
      OBVIOUS
  <2>6. BackOK(b)
      BY <2>4, <2>5
  <2>7. back[n] = BackOneLeg(b)
      BY <1>6, <2>2, <2>3, <2>5 DEF Turn
  <2> QED BY <2>2, <2>6, <2>7, BackOneLegOK
<1>8. BackOK(back[steps])
    BY <1>1, <1>7
<1> QED BY <1>2, <1>3, <1>8 DEF BackOK

(* Legs that are good and pass ValidatePath can be travelled. *)
LEMMA ValidIsTravelable ==
    ASSUME TypeOK, NEW legs, GoodLegs(legs), ValidPath(legs), NEW i \in DOMAIN legs
    PROVE  LET leg == legs[i]
               before == IF i = 1 THEN [kind |-> "none", to |-> query.origin, arr |-> query.dep]
                         ELSE legs[i-1]
               changes == before.kind = "transit" /\ leg.kind = "transit"
           IN  /\ leg.from = before.to
               /\ i = Len(legs) => leg.to = query.dest
               /\ leg.dep >= before.arr + IF changes THEN TransferSeconds ELSE 0
               /\ ~(before.kind = "walk" /\ leg.kind = "walk")
               /\ RealLeg(leg)
               /\ Journey(legs).transfers < MaxRounds
<1>1. /\ legs \in Seq(Leg) /\ Len(legs) \in Nat /\ DOMAIN legs = 1..Len(legs)
      /\ RealLeg(legs[i]) /\ (i > 1 => Joins(legs[i-1], legs[i]))
      /\ i \in Nat /\ i >= 1 /\ legs[i] \in Leg
    BY DEF GoodLegs
<1>2. i = Len(legs) => legs[i].to = query.dest
    BY DEF ValidPath
<1>3. Journey(legs).transfers < MaxRounds
  <2>1. IsFiniteSet({j \in DOMAIN legs : legs[j].kind = "transit"})
    <3>1. IsFiniteSet(1..Len(legs))
        BY <1>1, FS_Interval
    <3> QED BY <3>1, <1>1, FS_Subset
  <2>2. TransitLegs(legs) \in Nat
      BY <2>1, FS_CardinalityType DEF TransitLegs
  <2>3. MaxRounds \in Nat \ {0} /\ TransitLegs(legs) <= MaxRounds
      BY RaptorAssumption DEF RaptorAssumption, ValidPath
  <2> QED BY <2>2, <2>3 DEF Journey
<1>4. CASE i = 1
  <2>1. legs[1].from = query.origin /\ legs[1].dep >= query.dep /\ query.dep \in Int
      BY RaptorAssumption DEF ValidPath, TypeOK, RaptorAssumption
  <2> QED BY <1>1, <1>2, <1>3, <1>4, <2>1
<1>5. CASE i # 1
  <2>1. i \in 2..Len(legs) /\ i - 1 \in DOMAIN legs
      BY <1>1, <1>5
  <2>2. legs[i-1].to = legs[i].from /\ legs[i].dep >= legs[i-1].arr
      BY <2>1 DEF ValidPath
  <2>3. legs[i-1].arr \in Int
    <3>1. legs[i-1] \in Leg
        BY <1>1, <2>1
    <3> QED BY <3>1 DEF Leg
  <2>4. Joins(legs[i-1], legs[i])
      BY <1>1, <1>5
  <2> QED BY <1>1, <1>2, <1>3, <1>5, <2>2, <2>3, <2>4 DEF Joins
<1> QED BY <1>4, <1>5

(* What is returned was built for some round and has passed ValidatePath. *)
LEMMA ExtractBuilt ==
    ASSUME Extract, NEW p \in answer'
    PROVE  \E r \in 0..k : ValidPath(Backtrack(r)) /\ p = Journey(Backtrack(r))
<1> DEFINE labelled == {r \in 0..k : tau[r][query.dest] # Never}
           built    == {r \in labelled : ValidPath(Backtrack(r))}
           earlier(r) == \A b \in built : b < r => tau[r][query.dest] < tau[b][query.dest]
           kept     == {r \in built : earlier(r)}
           trace(r) == Fingerprint(Backtrack(r))
           found    == {Journey(Backtrack(r)) :
                          r \in {b \in kept : \A a \in kept : a < b => trace(a) # trace(b)}}
           pareto   == {q \in found : \A o \in found : o.arr < q.arr => q.transfers < o.transfers}
           inTop(q) == TopK = 0 \/ Cardinality({o \in pareto : o.arr < q.arr}) < TopK
<1>1. answer' = {q \in pareto : inTop(q)}
    BY DEF Extract
<1> HIDE DEF inTop
<1>2. p \in pareto
    BY <1>1
<1>3. p \in found
    BY <1>2
<1> HIDE DEF trace, earlier
<1>4. \E r \in built : p = Journey(Backtrack(r))
    BY <1>3
<1> QED BY <1>4

LEMMA FinishTravelable ==
    ASSUME JournalInv, Finish
    PROVE  JourneysTravelable'
<1>1. /\ Searching /\ Extract /\ TypeOK /\ UNCHANGED <<query, net, signals>>
    BY DEF Finish, RoundOver, Searching, JournalInv, SearchInv, inputVars
<1>2. ASSUME NEW p \in answer', NEW i \in DOMAIN p.legs
      PROVE  LET leg == p.legs[i]
                 before == IF i = 1 THEN [kind |-> "none", to |-> query.origin, arr |-> query.dep]
                           ELSE p.legs[i-1]
                 changes == before.kind = "transit" /\ leg.kind = "transit"
             IN  /\ leg.from = before.to
                 /\ i = Len(p.legs) => leg.to = query.dest
                 /\ leg.dep >= before.arr + IF changes THEN TransferSeconds ELSE 0
                 /\ ~(before.kind = "walk" /\ leg.kind = "walk")
                 /\ RealLeg(leg)
                 /\ p.transfers < MaxRounds
  <2>1. PICK r \in 0..k : ValidPath(Backtrack(r)) /\ p = Journey(Backtrack(r))
      BY <1>1, ExtractBuilt
  <2>2. PICK legs : legs = Backtrack(r)
      OBVIOUS
  <2>3. GoodLegs(legs) /\ ValidPath(legs) /\ p = Journey(legs)
      BY <1>1, <2>1, <2>2, BacktrackGood
  <2>4. p.legs = legs
      BY <2>3 DEF Journey
  <2> QED BY <1>1, <1>2, <2>3, <2>4, ValidIsTravelable
<1>3. ASSUME NEW l, RealLeg(l)
      PROVE  /\ l.kind = "transit" => (\E t \in AllTrips :
                  /\ t.trip.key = l.key /\ Offered(t.trip)
                  /\ \E a, b \in DOMAIN t.stops :
                       /\ a < b /\ t.stops[a] = l.from /\ t.stops[b] = l.to
                       /\ t.trip.dep[a] = l.dep /\ t.trip.arr[b] = l.arr)'
             /\ l.kind = "walk" => \E w \in net'.walks[l.from] : w.to = l.to /\ l.arr = l.dep + w.secs
    BY <1>1, <1>3 DEF RealLeg, RealRide, AllTrips, Offered
<1> QED BY <1>1, <1>2, <1>3 DEF JourneysTravelable

AnswerInv == (phase # "done" => answer = {}) /\ JourneysTravelable

(* engine.go: a passenger can travel every journey that is returned, on    *)
(* rides of usable trips of the captured timetable and on its footpaths,   *)
(* in order and with the time to change vehicles, whatever the timetable   *)
(* and the signals and whatever is published while the search runs.        *)
THEOREM AnswersAreTravelable == Spec => []JourneysTravelable
<1>1. Init => AnswerInv
    BY DEF Init, AnswerInv, JourneysTravelable
<1>2. JournalInv /\ AnswerInv /\ [Next]_vars => AnswerInv'
  <2> SUFFICES ASSUME JournalInv, AnswerInv, [Next]_vars PROVE AnswerInv'
      OBVIOUS
  <2>1. CASE Finish
      BY <2>1, FinishTravelable DEF Finish, AnswerInv
  <2>2. ASSUME phase # "done", answer' = answer PROVE AnswerInv'
      BY <2>2 DEF AnswerInv, JourneysTravelable
  <2>3. CASE Search \/ WalkFootpath \/ NextRound \/ Cancel \/ ScanStop \/ ScanTripStop \/ EndScan
      BY <2>2, <2>3 DEF Search, WalkFootpath, NextRound, Cancel, ScanStop, ScanTripStop, EndScan,
                        RoundOver
  <2>4. CASE SwapRoutes \/ SwapSignals
      BY <2>2, <2>4 DEF SwapRoutes, SwapSignals, Publish
  <2>5. CASE UNCHANGED vars
      BY <2>5 DEF vars, inputVars, AnswerInv, JourneysTravelable, AllTrips, Offered
  <2> QED BY <2>1, <2>3, <2>4, <2>5 DEF Next, SearchStep
<1> QED BY <1>1, <1>2, JournalInvariant, PTL DEF Spec, AnswerInv
================================================================================
