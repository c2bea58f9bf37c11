-------------------------------- MODULE Raptor --------------------------------
(***************************************************************************)
(* RaptorSearch of internal/raptor/engine.go: one search, in rounds, over  *)
(* the timetable and the seat signals that were live when it began, while  *)
(* the watcher and the syncer go on publishing others.                     *)
(*                                                                         *)
(* One action is one turn of an inner loop: a stop position of a route     *)
(* scan, or one footpath.  Their order is the code's (routes by index,     *)
(* footpaths by station id, nearest first).  Rounds are numbered from 0.   *)
(* A Go map without a key is a function that gives Never or NoEntry.       *)
(***************************************************************************)
EXTENDS Timetable

CONSTANTS
    Timetables,      \* buffers that may be live when the search begins
    NewTimetables,   \* buffers a reload may publish while it runs
    SignalMaps,      \* seat signals the syncer may have published
    Queries,         \* [origin, dest, dep, day]
    MaxRounds,       \* params.Rounds()
    TransferSeconds, \* params.TransferBuffer()
    WindowDays,      \* params.DateWindow()
    TopK,            \* journeys wanted; 0 for all of them
    MaxSwaps         \* bound: buffers published during the search

ASSUME RaptorAssumption ==
    /\ \A n \in Timetables \cup NewTimetables : WellFormed(n)
    /\ \A m \in SignalMaps : \A key \in DOMAIN m : m[key] \in {"enough", "short", "stale"}
    /\ \A q \in Queries : /\ q.origin \in Stations /\ q.dest \in Stations
                         /\ q.dep \in Int /\ q.day \in Int
    /\ MaxRounds \in Nat \ {0} /\ TransferSeconds \in Nat
    /\ WindowDays \in Nat /\ TopK \in Nat /\ MaxSwaps \in Nat

VARIABLES
    liveRoutes, liveSignals, \* the published buffers
    swaps,      \* buffers published so far
    phase,      \* idle, walk (footpaths), scan (routes), done, cancelled
    query, net, signals, \* parameters and the two snapshots
    k,          \* the current round
    tau,        \* tau[r][s]: earliest arrival at s with at most r vehicles
    journal,    \* journal[r][s]: the last leg of that journey
    preWalk,    \* preWalk[r][s]: journal[r][s] before round r's footpaths
    best,       \* best[s]: earliest arrival at s over all rounds
    improved,   \* stations improved in this round
    queue,      \* routes to scan, each with its first boarding position
    ride,       \* where the scan of the first of them is
    walks,      \* footpaths still to relax
    answer      \* the journeys returned

liveVars   == <<liveRoutes, liveSignals, swaps>>
inputVars  == <<query, net, signals>>
labelVars  == <<tau, journal, best>>
loopVars   == <<queue, ride, walks>>
vars == <<liveVars, phase, inputVars, k, labelVars, preWalk, improved, loopVars, answer>>

NoEntry == [kind |-> "none"]
NoLabels == [s \in Stations |-> Never]
NoEntries == [s \in Stations |-> NoEntry]
NoRide == [pos |-> 1, trip |-> 0, from |-> Never, dep |-> Never]

Init ==
    /\ liveRoutes \in Timetables /\ liveSignals \in SignalMaps /\ swaps = 0
    /\ phase = "idle"
    /\ query \in Queries
    /\ net = liveRoutes /\ signals = liveSignals
    /\ k = 0
    /\ tau = <<>> /\ journal = <<>> /\ preWalk = <<>>
    /\ best = NoLabels
    /\ improved = {} /\ queue = {} /\ ride = NoRide /\ walks = {}
    /\ answer = {}

(***************************************************************************)
(* Helpers of the search                                                   *)
(***************************************************************************)

(* computeAllowedDates: from the day before the search date. *)
Allowed == query.day - 1 .. query.day + WindowDays

(* canBoard: without a signal, or with a stale one, boarding is allowed.   *)
CanBoard(key) == key \notin DOMAIN signals \/ signals[key] # "short"

TripUsable_LiveSignals(t) ==
    /\ t.key[2] \in Allowed
    /\ t.key \notin DOMAIN liveSignals \/ liveSignals[t.key] # "short"

TripUsable(t) == t.key[2] \in Allowed /\ CanBoard(t.key)

Improves(arr, s) ==
    /\ best[query.dest] = Never \/ arr < best[query.dest]
    /\ best[s] = Never \/ arr < best[s]

ReadyAt_NoBuffer(r, s) == tau[r][s]

(* When a passenger labelled in round r can leave s on a vehicle.  Changing*)
(* vehicles takes time; arriving on foot or starting here does not.        *)
ReadyAt(r, s) ==
    tau[r][s] + (IF journal[r][s].kind = "transit" THEN TransferSeconds ELSE 0)

(* A better label for s in the current round. *)
SetLabel(s, e) ==
    /\ tau' = [tau EXCEPT ![k][s] = e.arr]
    /\ best' = [best EXCEPT ![s] = e.arr]
    /\ journal' = [journal EXCEPT ![k][s] = e]
    /\ improved' = improved \cup {s}

(***************************************************************************)
(* Footpaths                                                               *)
(***************************************************************************)

(* The walks that relaxFootpaths makes from these sources, with their      *)
(* departure times read before any walk is written.                        *)
FootpathsFrom(n, sources, times) ==
    UNION {{[from |-> s, depart |-> times[s], to |-> w.to, secs |-> w.secs] :
              w \in n.walks[s]} : s \in sources}

(* By source id, then as closeFootpaths ordered them. *)
IsNextWalk(w) == \A v \in walks \ {w} :
    w.from < v.from \/ (w.from = v.from /\ NearerWalk(w, v))

WalkFootpath ==
    /\ phase = "walk"
    /\ \E w \in walks :
         /\ IsNextWalk(w)
         /\ walks' = walks \ {w}
         /\ LET arr == w.depart + w.secs
            IN  IF Improves(arr, w.to)
                THEN SetLabel(w.to, [kind |-> "walk", fromRound |-> k, from |-> w.from,
                                     key |-> Never, dep |-> w.depart, arr |-> arr])
                ELSE UNCHANGED <<labelVars, improved>>
    /\ UNCHANGED <<liveVars, phase, inputVars, k, preWalk, queue, ride, answer>>

(***************************************************************************)
(* Starting                                                                *)
(***************************************************************************)

(* Without routes, or when there is nowhere to go, there is no search. *)
NothingToSearch == liveRoutes.routes = <<>> \/ query.origin = query.dest

(* The two loads are one step: the buffers have different writers, so any  *)
(* pair of them may be live at once.                                       *)
Search ==
    /\ phase = "idle"
    /\ net' = liveRoutes /\ signals' = liveSignals
    /\ IF NothingToSearch
       THEN phase' = "done" /\ UNCHANGED <<labelVars, preWalk, improved, walks>>
       ELSE /\ phase' = "walk"
            /\ best' = [NoLabels EXCEPT ![query.origin] = query.dep]
            /\ tau' = [r \in {0} |-> best']
            /\ journal' = [r \in {0} |-> NoEntries]
            /\ preWalk' = [r \in {0} |-> NoEntries]
            /\ improved' = {query.origin}
            /\ walks' = FootpathsFrom(liveRoutes, {query.origin}, best')
    /\ UNCHANGED <<liveVars, query, k, queue, ride, answer>>

(***************************************************************************)
(* Rounds                                                                  *)
(***************************************************************************)

(* Round k is over, and there are stations from which to go on. *)
RoundOver == phase = "walk" /\ walks = {}
MoreRounds_Unbounded == improved # {}
MoreRounds == improved # {} /\ k < MaxRounds

(* Every route that stops at a marked station, from the first such stop. *)
RouteQueue(marked) ==
    LET stopsAt(r) == {p \in DOMAIN net.routes[r].stops : net.routes[r].stops[p] \in marked}
    IN  {[route |-> r, pos |-> Min(stopsAt(r))] :
           r \in {r \in DOMAIN net.routes : stopsAt(r) # {}}}

(* Routes are scanned in index order. *)
First(q) == CHOOSE e \in q : \A f \in q : e.route <= f.route

(* A scan sets out: on a route where trips overtake, with its first trip.  *)
RideOn(q) ==
    IF q = {} THEN NoRide
    ELSE [NoRide EXCEPT !.pos = First(q).pos,
                        !.trip = IF net.routes[First(q).route].fifo THEN 0 ELSE 1]

(* The labels and the journal of round k are where round k+1 starts from. *)
NextRound ==
    /\ RoundOver /\ MoreRounds
    /\ k' = k + 1
    /\ tau' = [r \in 0..k+1 |-> IF r <= k THEN tau[r] ELSE tau[k]]
    /\ journal' = [r \in 0..k+1 |-> IF r <= k THEN journal[r] ELSE journal[k]]
    /\ preWalk' = [r \in 0..k+1 |-> IF r <= k THEN preWalk[r] ELSE NoEntries]
    /\ queue' = RouteQueue(improved)
    /\ ride' = RideOn(queue')
    /\ improved' = {}
    /\ phase' = "scan"
    /\ UNCHANGED <<liveVars, inputVars, best, walks, answer>>

(* The request's context is done: checked between rounds. *)
Cancel ==
    /\ RoundOver /\ MoreRounds
    /\ phase' = "cancelled"
    /\ UNCHANGED <<liveVars, inputVars, k, labelVars, preWalk, improved, loopVars, answer>>

(* All routes are scanned: footpaths from the stations transit improved.   *)
(* What the journal holds for each of them now is kept.                    *)
KeptEntries_None == NoEntries
KeptEntries == [s \in Stations |->
                  IF s \in improved /\ net.walks[s] # {} THEN journal[k][s] ELSE NoEntry]

EndScan ==
    /\ phase = "scan" /\ queue = {}
    /\ phase' = "walk"
    /\ walks' = FootpathsFrom(net, improved, tau[k])
    /\ preWalk' = [preWalk EXCEPT ![k] = KeptEntries]
    /\ UNCHANGED <<liveVars, inputVars, k, labelVars, improved, queue, ride, answer>>

(***************************************************************************)
(* scanRoute and scanTrip, one stop position at a time                     *)
(***************************************************************************)

Route == net.routes[First(queue).route]
Station == Route.stops[ride.pos]
Riding == Route.trips[ride.trip]

(* "A trip may only be boarded in round k using the label from round k-1." *)
BoardRound_Current == k
BoardRound == k - 1

(* Step A: get off the trip being ridden, if that improves the station. *)
Alight ==
    LET arr == Riding.arr[ride.pos]
    IN  IF ride.from # Never /\ Improves(arr, Station)
        THEN SetLabel(Station, [kind |-> "transit", fromRound |-> BoardRound, from |-> ride.from,
                                key |-> Riding.key, dep |-> ride.dep, arr |-> arr])
        ELSE UNCHANGED <<labelVars, improved>>

(* Past the last stop comes the next trip, or the next route. *)
MoveTo(r) ==
    IF r.pos <= Len(Route.stops) THEN ride' = r /\ UNCHANGED queue
    ELSE IF ~Route.fifo /\ r.trip < Len(Route.trips)
    THEN /\ ride' = [NoRide EXCEPT !.pos = First(queue).pos, !.trip = r.trip + 1]
         /\ UNCHANGED queue
    ELSE queue' = queue \ {First(queue)} /\ ride' = RideOn(queue')

(* earliestTrip: binary search for the first departure at or after ready,  *)
(* then forward while trips leave before mustBeat, to a usable one.        *)
EarliestTrip(pos, ready, mustBeat) ==
    LET dep(i) == Route.trips[i].dep[pos]
        late == {i \in DOMAIN Route.trips : dep(i) >= ready}
    IN  {i \in late : /\ TripUsable(Route.trips[i])
                      /\ mustBeat # Never =>
                           \A j \in late : j <= i => dep(j) < mustBeat}

(* Step B on a route without overtaking: board an earlier trip than the    *)
(* one being ridden if the label of the round before allows it.            *)
BoardEarlier ==
    LET ready   == ReadyAt(BoardRound, Station)
        beat    == IF ride.trip = 0 THEN Never ELSE Riding.dep[ride.pos]
        catches == IF tau[BoardRound][Station] = Never THEN {}
                   ELSE EarliestTrip(ride.pos, ready, beat)
    IN  IF catches = {} THEN ride
        ELSE [ride EXCEPT !.trip = Min(catches), !.from = Station,
                          !.dep = Route.trips[Min(catches)].dep[ride.pos]]

ScanStop ==
    /\ phase = "scan" /\ queue # {} /\ Route.fifo
    /\ Alight
    /\ MoveTo([BoardEarlier EXCEPT !.pos = ride.pos + 1])
    /\ UNCHANGED <<liveVars, phase, inputVars, k, preWalk, walks, answer>>

(* Step B of scanTrip: board this trip at the first stop reached in time.  *)
BoardThis ==
    IF /\ ride.from = Never
       /\ tau[BoardRound][Station] # Never
       /\ Riding.dep[ride.pos] >= ReadyAt(BoardRound, Station)
    THEN [ride EXCEPT !.from = Station, !.dep = Riding.dep[ride.pos]]
    ELSE ride

ScanTripStop ==
    /\ phase = "scan" /\ queue # {} /\ ~Route.fifo
    /\ IF TripUsable(Riding)
       THEN Alight /\ MoveTo([BoardThis EXCEPT !.pos = ride.pos + 1])
       ELSE /\ MoveTo([ride EXCEPT !.pos = Len(Route.stops) + 1])
            /\ UNCHANGED <<labelVars, improved>>
    /\ UNCHANGED <<liveVars, phase, inputVars, k, preWalk, walks, answer>>

(***************************************************************************)
(* extract and buildPath                                                   *)
(***************************************************************************)

(* The entry a leg was really made from.  After a walk, a second walk can  *)
(* only stand where a later walk has replaced the transit leg.             *)
EntryBefore(b) ==
    LET e == journal[b.round][b.at]
        pre == preWalk[b.round][b.at]
    IN  IF /\ b.legs # <<>> /\ Head(b.legs).kind = "walk" /\ e.kind = "walk"
           /\ pre # NoEntry
           /\ pre.arr <= Head(b.legs).dep
        THEN pre ELSE e

LegOf(e, s) == [kind |-> e.kind, key |-> e.key, from |-> e.from, to |-> s,
                dep |-> e.dep, arr |-> e.arr]

(* One turn of buildPath's loop, from a station towards the origin.        *)
BackOneLeg(b) ==
    LET e == EntryBefore(b)
        broken == \/ journal[b.round][b.at] = NoEntry
                  \/ e.from = b.at
                  \/ <<b.round, b.at>> \in b.visited
    IN  IF b.at = query.origin \/ b.broken THEN b
        ELSE IF broken THEN [b EXCEPT !.broken = TRUE]
        ELSE [b EXCEPT !.at = e.from, !.round = e.fromRound,
                       !.legs = <<LegOf(e, b.at)>> \o @,
                       !.visited = @ \cup {<<b.round, b.at>>}]

(* The legs of the label that round r gave the destination, or <<>>. *)
Backtrack(r) ==
    LET steps == 2 * (MaxRounds + 1) + 3
        back[n \in 0..steps] ==
          IF n = 0 THEN [at |-> query.dest, round |-> r, legs |-> <<>>,
                         visited |-> {}, broken |-> FALSE]
          ELSE BackOneLeg(back[n-1])
        b == back[steps]
    IN  IF b.broken \/ b.at # query.origin THEN <<>> ELSE b.legs

TransitLegs(legs) == Cardinality({i \in DOMAIN legs : legs[i].kind = "transit"})

(* ValidatePath, and the bound on vehicles checked before it. *)
ValidPath(legs) ==
    /\ legs # <<>>
    /\ TransitLegs(legs) <= MaxRounds
    /\ legs[1].from = query.origin /\ legs[Len(legs)].to = query.dest
    /\ legs[1].dep >= query.dep
    /\ \A i \in DOMAIN legs : legs[i].arr >= legs[i].dep
    /\ \A i \in 2..Len(legs) : /\ legs[i-1].to = legs[i].from
                               /\ legs[i].dep >= legs[i-1].arr

Journey(legs) ==
    [legs |-> legs, arr |-> legs[Len(legs)].arr,
     transfers |-> IF TransitLegs(legs) > 0 THEN TransitLegs(legs) - 1 ELSE 0]

(* pathFingerprint: without dates and times. *)
Fingerprint(legs) ==
    [i \in DOMAIN legs |-> <<legs[i].from, legs[i].to,
                             IF legs[i].kind = "transit" THEN legs[i].key[1] ELSE Never>>]

(* extract: rounds that arrive earlier than every round before them and    *)
(* have other legs, then paretoFilter (fewer transfers than everything     *)
(* that arrives earlier) and the TopK earliest arrivals.                   *)
Extract ==
    LET labelled == {r \in 0..k : tau[r][query.dest] # Never}
        built    == {r \in labelled : ValidPath(Backtrack(r))}
        earlier(r) == \A b \in built : b < r => tau[r][query.dest] < tau[b][query.dest]
        kept     == {r \in built : earlier(r)}
        trace(r) == Fingerprint(Backtrack(r))
        found    == {Journey(Backtrack(r)) :
                       r \in {b \in kept : \A a \in kept : a < b => trace(a) # trace(b)}}
        pareto   == {p \in found : \A q \in found : q.arr < p.arr => p.transfers < q.transfers}
        inTop(p) == TopK = 0 \/ Cardinality({q \in pareto : q.arr < p.arr}) < TopK
    IN  answer' = {p \in pareto : inTop(p)}

Finish ==
    /\ RoundOver /\ ~MoreRounds
    /\ Extract
    /\ phase' = "done"
    /\ UNCHANGED <<liveVars, inputVars, k, labelVars, preWalk, improved, loopVars>>

(***************************************************************************)
(* The background goroutines publish                                       *)
(***************************************************************************)

Publish(routes, sigs) ==
    /\ phase \notin {"done", "cancelled"} /\ swaps < MaxSwaps
    /\ swaps' = swaps + 1
    /\ liveRoutes' = routes /\ liveSignals' = sigs
    /\ UNCHANGED <<phase, inputVars, k, labelVars, preWalk, improved, loopVars, answer>>

SwapRoutes == \E routes \in NewTimetables \ {liveRoutes} : Publish(routes, liveSignals)
SwapSignals == \E sigs \in SignalMaps \ {liveSignals} : Publish(liveRoutes, sigs)

SearchStep ==
    \/ Search \/ WalkFootpath \/ NextRound \/ Cancel
    \/ ScanStop \/ ScanTripStop \/ EndScan \/ Finish

Next == SearchStep \/ SwapRoutes \/ SwapSignals

Spec == Init /\ [][Next]_vars

(***************************************************************************)
(* The reference: refFrontier and refPareto of reference_test.go, without  *)
(* queues, marks, pruning or binary search.  One label per station and     *)
(* level, with whether a vehicle brought it; every trip is tried at every  *)
(* position; then one walk, from the stations transit improved.            *)
(***************************************************************************)

Offered(t) ==
    /\ t.key[2] >= query.day - 1 /\ t.key[2] <= query.day + WindowDays
    /\ t.key \in DOMAIN signals => signals[t.key] \in {"enough", "stale"}

AllTrips == UNION {{[stops |-> net.routes[r].stops, trip |-> net.routes[r].trips[i]] :
                      i \in DOMAIN net.routes[r].trips} : r \in DOMAIN net.routes}

Labelled(l) == l.time # Never
Earlier(times, l) == times # {} /\ (~Labelled(l) \/ Min(times) < l.time)

NextLevel(prev, trips) ==
    LET ready(s) == prev[s].time + IF prev[s].transit THEN TransferSeconds ELSE 0
        rides == UNION {{<<t.stops[pq[2]], t.trip.arr[pq[2]]>> :
                           pq \in {pq \in (DOMAIN t.stops) \X (DOMAIN t.stops) :
                                     /\ pq[1] < pq[2]
                                     /\ Labelled(prev[t.stops[pq[1]]])
                                     /\ t.trip.dep[pq[1]] >= ready(t.stops[pq[1]])}}
                        : t \in trips}
        ridden == [s \in Stations |-> {r[2] : r \in {x \in rides : x[1] = s}}]
        mid == [s \in Stations |-> IF Earlier(ridden[s], prev[s])
                                   THEN [time |-> Min(ridden[s]), transit |-> TRUE]
                                   ELSE prev[s]]
        sources == {s \in Stations : Earlier(ridden[s], prev[s])}
        walked == [s \in Stations |->
                     UNION {{mid[u].time + w.secs : w \in {x \in net.walks[u] : x.to = s}}
                              : u \in sources}]
    IN  [s \in Stations |-> IF Earlier(walked[s], mid[s])
                            THEN [time |-> Min(walked[s]), transit |-> FALSE]
                            ELSE mid[s]]

BestArrivals ==
    LET trips == {t \in AllTrips : Offered(t.trip)}
        start == [s \in Stations |->
                    LET from0 == {query.dep + w.secs : w \in {x \in net.walks[query.origin] : x.to = s}}
                    IN  [time |-> IF s = query.origin THEN query.dep
                                  ELSE IF from0 = {} THEN Never ELSE Min(from0),
                         transit |-> FALSE]]
        level[r \in 0..MaxRounds] ==
            IF r = 0 THEN start ELSE NextLevel(level[r-1], trips)
    IN  [r \in 0..MaxRounds |-> level[r][query.dest]]

ReferenceFrontier ==
    LET best0 == BestArrivals
        useful == {r \in 0..MaxRounds : /\ Labelled(best0[r])
                                        /\ \A j \in 0..r-1 : Earlier({best0[r].time}, best0[j])}
        pairs == {<<best0[r].time, IF r = 0 THEN 0 ELSE r - 1>> : r \in useful}
        pareto == {p \in pairs : \A q \in pairs : q[1] < p[1] => p[2] < q[2]}
    IN  {p \in pareto : TopK = 0 \/ Cardinality({q \in pareto : q[1] < p[1]}) < TopK}

(***************************************************************************)
(* Properties                                                              *)
(***************************************************************************)

Entry == [kind: {"transit", "walk"}, fromRound: Nat, from: Stations,
          key: (Int \X Int) \cup {Never}, dep: Int, arr: Int]
Times == [Stations -> Int \cup {Never}]
Searching == phase \in {"walk", "scan"}

(* The type of every variable. *)
TypeOK ==
    /\ WellFormed(liveRoutes) /\ liveSignals \in SignalMaps
    /\ WellFormed(net) /\ signals \in SignalMaps
    /\ swaps \in 0..MaxSwaps
    /\ phase \in {"idle", "walk", "scan", "done", "cancelled"}
    /\ query \in Queries /\ k \in 0..MaxRounds
    /\ best \in Times
    /\ Searching => /\ tau \in [0..k -> Times]
                    /\ journal \in [0..k -> [Stations -> Entry \cup {NoEntry}]]
                    /\ preWalk \in [0..k -> [Stations -> Entry \cup {NoEntry}]]
    /\ improved \subseteq Stations

(* Every label is earned by its last leg: the vehicle leaves a station no  *)
(* earlier than the label of a strictly earlier round, transfer time       *)
(* included, lets the passenger be there, and the walk leaves no earlier   *)
(* than the label of its own round.  So round r uses at most r vehicles    *)
(* (engine.go:11), whatever later rounds write.                            *)
LabelsJustified ==
    Searching => \A r \in 0..k : \A s \in Stations :
        LET e == journal[r][s]
        IN  /\ e = NoEntry => tau[r][s] = IF s = query.origin THEN query.dep ELSE Never
            /\ e # NoEntry => /\ tau[r][s] = e.arr
                              /\ tau[e.fromRound][e.from] # Never
            /\ e.kind = "transit" => /\ e.fromRound < r
                                     /\ e.dep >= ReadyAt(e.fromRound, e.from)
            /\ e.kind = "walk" => /\ e.fromRound <= r
                                  /\ e.dep >= tau[e.fromRound][e.from]
                                  /\ \E w \in net.walks[e.from] :
                                       w.to = s /\ e.arr = e.dep + w.secs

(* Two trips of a route without overtaking leave some stop together. *)
DepartureTie(r) ==
    r.fifo /\ \E i, j \in DOMAIN r.trips : i # j /\ \E p \in DOMAIN r.stops :
        p < Len(r.stops) /\ r.trips[i].dep[p] = r.trips[j].dep[p]

(* engine.go:116: "The returned set is a true Pareto frontier", as         *)
(* differential_test.go checks it: the arrivals and transfers are those of *)
(* the reference, for the one timetable and signals the search captured.   *)
FrontierIsOptimal ==
    phase = "done" /\ ~(net.routes = <<>> \/ query.origin = query.dest) =>
        {<<p.arr, p.transfers>> : p \in answer} = ReferenceFrontier

(* The same wherever no two trips leave a stop of their route together:    *)
(* neither the pruning, the marks, the binary search nor the per-trip scan *)
(* of overtaking routes loses or invents a journey.                        *)
OptimalWithoutTies ==
    (\A r \in DOMAIN net.routes : ~DepartureTie(net.routes[r])) => FrontierIsOptimal

(* A passenger can travel what is returned: real rides of usable trips and *)
(* real footpaths that join up, with the transfer time between vehicles,   *)
(* never two walks in a row, and within the number of vehicles asked for.  *)
JourneysTravelable ==
    \A p \in answer : \A i \in DOMAIN p.legs :
        LET leg == p.legs[i]
            before == IF i = 1 THEN [kind |-> "none", to |-> query.origin, arr |-> query.dep]
                      ELSE p.legs[i-1]
            changes == before.kind = "transit" /\ leg.kind = "transit"
        IN  /\ leg.from = before.to
            /\ i = Len(p.legs) => leg.to = query.dest
            /\ leg.dep >= before.arr + IF changes THEN TransferSeconds ELSE 0
            /\ ~(before.kind = "walk" /\ leg.kind = "walk")
            /\ leg.kind = "transit" => \E t \in AllTrips :
                 /\ t.trip.key = leg.key /\ Offered(t.trip)
                 /\ \E a, b \in DOMAIN t.stops :
                      /\ a < b /\ t.stops[a] = leg.from /\ t.stops[b] = leg.to
                      /\ t.trip.dep[a] = leg.dep /\ t.trip.arr[b] = leg.arr
            /\ leg.kind = "walk" => \E w \in net.walks[leg.from] :
                 w.to = leg.to /\ leg.arr = leg.dep + w.secs
            /\ p.transfers < MaxRounds

(* The scan may trust what the loader measured: a route is marked FIFO just*)
(* when no trip of it overtakes any other, although computeFIFO compares   *)
(* only neighbours.                                                        *)
FIFOMeansNoOvertaking ==
    \A r \in DOMAIN liveRoutes.routes :
        liveRoutes.routes[r].fifo <=> NoOvertaking(liveRoutes.routes[r])

(* One pass over the footpaths finds every walk: they are closed, shortest *)
(* and within the cap, and only the furthest are left out.                 *)
FootpathsClosed == ClosedWalks(liveRoutes)
===============================================================================
