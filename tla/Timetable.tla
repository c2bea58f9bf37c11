------------------------------ MODULE Timetable ------------------------------
(***************************************************************************)
(* What a reload computes from the rows of Postgres: ReloadRouteArrays of  *)
(* internal/schedule/loader.go and the two analyses the search relies on,  *)
(* computeFIFO and closeFootpaths of internal/schedule/buffer.go.          *)
(*                                                                         *)
(* Stations and route ids are integers, so that "sorted by id" means       *)
(* something.  A trip key is the pair of its id and its date, a number of  *)
(* days.  A row of the trips table joined with its stop times is           *)
(*   [route, trip, date, stops, arr, dep]                                  *)
(* where stops, arr and dep are sequences over the trip's stop positions.  *)
(***************************************************************************)
EXTENDS Integers, Sequences, FiniteSets, SequencesExt

CONSTANTS
    Stations,               \* station ids
    MaxWalkSeconds,         \* LoadOptions.MaxWalkSeconds
    MaxFootpathsPerStation, \* LoadOptions.MaxFootpathsPerStation
    Never                   \* no time at all: a station nobody has reached

ASSUME TimetableAssumption ==
    /\ Stations \subseteq Int /\ IsFiniteSet(Stations)
    /\ MaxWalkSeconds \in Nat /\ MaxFootpathsPerStation \in Nat \ {0}
    /\ Never \notin Int

(***************************************************************************)
(* Routes and trips                                                        *)
(***************************************************************************)

RowsOf(rows, route) == {r \in rows : r.route = route}

(* The query returns the trips of a route by trip id and date; the first   *)
(* one gives the route its stops.                                          *)
Canonical(rs) ==
    CHOOSE r \in rs : \A o \in rs :
        r.trip < o.trip \/ (r.trip = o.trip /\ r.date <= o.date)

(* The elements of a finite set as a sequence that ascends in R. *)
InOrder(S, R) ==
    CHOOSE f \in [1..Cardinality(S) -> S] :
        \A i, j \in 1..Cardinality(S) : i < j => <<f[i], f[j]>> \in R

(* By first departure, then by key. *)
DepartsBefore(a, b) ==
    \/ a.dep[1] < b.dep[1]
    \/ a.dep[1] = b.dep[1] /\ \/ a.date < b.date
                              \/ a.date = b.date /\ a.trip < b.trip

ComputeFIFO_Departures(trips) ==
    \A i \in 2..Len(trips) : \A p \in DOMAIN trips[1].dep :
        trips[i].dep[p] >= trips[i-1].dep[p]

(* computeFIFO: every trip has as many stops as the first, and neighbours  *)
(* in the order above do not overtake each other anywhere.                 *)
ComputeFIFO(trips) ==
    \/ Len(trips) < 2
    \/ /\ \A i \in DOMAIN trips : /\ Len(trips[i].dep) = Len(trips[1].dep)
                                  /\ Len(trips[i].arr) = Len(trips[1].dep)
       /\ \A i \in 2..Len(trips) : \A p \in DOMAIN trips[1].dep :
            /\ trips[i].dep[p] >= trips[i-1].dep[p]
            /\ trips[i].arr[p] >= trips[i-1].arr[p]

(* One route: trips that stop elsewhere than the canonical one are dropped.*)
LoadRoute(rs) ==
    LET stops == Canonical(rs).stops
        kept  == InOrder({r \in rs : r.stops = stops}, {p \in rs \X rs : DepartsBefore(p[1], p[2])})
        trips == [i \in DOMAIN kept |->
                    [key |-> <<kept[i].trip, kept[i].date>>,
                     arr |-> kept[i].arr, dep |-> kept[i].dep]]
    IN  [stops |-> stops, trips |-> trips, fifo |-> ComputeFIFO(trips)]

LoadRoutes(rows) ==
    LET routes == {r.route : r \in rows}
        ids    == InOrder(routes, {p \in routes \X routes : p[1] < p[2]})
    IN  [i \in DOMAIN ids |-> LoadRoute(RowsOf(rows, ids[i]))]

(***************************************************************************)
(* Footpaths.  The table holds edges [from, to, secs]; loadFootpaths skips *)
(* those to the same station or without a positive time.                   *)
(***************************************************************************)

Direct(footpaths) == {e \in footpaths : e.secs > 0 /\ e.from # e.to}

(* The stations next to settle in the Dijkstra run of closeFootpaths: the  *)
(* queue holds every reached station, its top is the nearest.              *)
Frontier(d) == {s \in Stations : s \notin d.settled /\ d.dist[s] # Never}

Nearest(d) == CHOOSE s \in Frontier(d) : \A o \in Frontier(d) :
                d.dist[s] < d.dist[o] \/ (d.dist[s] = d.dist[o] /\ s <= o)

Settle_OneHop(direct, d) ==
    IF d.settled # {} THEN d
    ELSE LET u == Nearest(d)
             via(s) == {e.secs : e \in {f \in direct : f.from = u /\ f.to = s}}
         IN  [settled |-> {u},
              dist |-> [s \in Stations |-> IF via(s) = {} THEN d.dist[s] ELSE Min(via(s))]]

(* Pop the nearest station and relax its edges.  Of several edges to one   *)
(* station the shortest counts.                                            *)
Settle(direct, d) ==
    IF Frontier(d) = {} THEN d
    ELSE LET u == Nearest(d)
             via(s) == {d.dist[u] + e.secs : e \in {f \in direct : f.from = u /\ f.to = s}}
             new(s) == {w \in via(s) : /\ w <= MaxWalkSeconds
                                       /\ d.dist[s] = Never \/ w < d.dist[s]}
         IN  [settled |-> d.settled \cup {u},
              dist |-> [s \in Stations |-> IF new(s) = {} THEN d.dist[s] ELSE Min(new(s))]]

(* The walking times from src once every reachable station is settled. *)
WalkTimes(direct, src) ==
    LET run[n \in 0..Cardinality(Stations)] ==
          IF n = 0
          THEN [settled |-> {}, dist |-> [s \in Stations |-> IF s = src THEN 0 ELSE Never]]
          ELSE Settle(direct, run[n-1])
    IN  run[Cardinality(Stations)].dist

(* Footpaths from one station, nearest first, ties by station id. *)
NearerWalk(e, f) == e.secs < f.secs \/ (e.secs = f.secs /\ e.to < f.to)

(* closeFootpaths: the nearest MaxFootpathsPerStation stations other than  *)
(* src that a walk from src reaches.                                       *)
CloseFootpaths(direct) ==
    [src \in Stations |->
        LET dist  == WalkTimes(direct, src)
            edges == {[to |-> s, secs |-> dist[s]] :
                        s \in {t \in Stations \ {src} : dist[t] # Never}}
        IN  {e \in edges :
               Cardinality({f \in edges : NearerWalk(f, e)}) < MaxFootpathsPerStation}]

(***************************************************************************)
(* ReloadRouteArrays: the buffer that is published.  `direct' is a ghost   *)
(* that keeps the edges of the table, for the property below.              *)
(***************************************************************************)
ReloadRouteArrays(db) ==
    [routes |-> LoadRoutes(db.rows),
     direct |-> Direct(db.footpaths),
     walks  |-> CloseFootpaths(Direct(db.footpaths))]

(* Which timetables the search may be given: positional arrays that fit    *)
(* the stops, and walks that end at stations.                              *)
WellFormedRoute(r) ==
    /\ r.stops \in Seq(Stations) /\ r.stops # <<>>
    /\ r.fifo \in BOOLEAN
    /\ r.trips # <<>>
    /\ r.trips \in Seq([key: Int \X Int, arr: [DOMAIN r.stops -> Int],
                                         dep: [DOMAIN r.stops -> Int]])

WellFormed(net) ==
    /\ DOMAIN net.routes = 1..Len(net.routes) /\ Len(net.routes) \in Nat
    /\ \A r \in DOMAIN net.routes : WellFormedRoute(net.routes[r])
    /\ DOMAIN net.walks = Stations
    /\ \A s \in Stations : \A w \in net.walks[s] : w.to \in Stations /\ w.secs \in Nat

(***************************************************************************)
(* Reference definitions                                                   *)
(***************************************************************************)

(* No trip of a route overtakes another at any stop, all pairs compared.   *)
NoOvertaking(r) ==
    \A i, j \in DOMAIN r.trips : i < j => \A p \in DOMAIN r.stops :
        r.trips[i].dep[p] <= r.trips[j].dep[p] /\ r.trips[i].arr[p] <= r.trips[j].arr[p]

(* The shortest walk of at most n hops, by the definition of a shortest    *)
(* path rather than by a queue.                                            *)
ShortestWalk(direct, src) ==
    LET hops[n \in 0..Cardinality(Stations)] ==
          IF n = 0 THEN [s \in Stations |-> IF s = src THEN {0} ELSE {}]
          ELSE [s \in Stations |->
                  LET ways == hops[n-1][s] \cup
                              UNION {{w + e.secs : w \in hops[n-1][e.from]} :
                                       e \in {f \in direct : f.to = s}}
                  IN  IF ways = {} THEN {} ELSE {Min(ways)}]
    IN  [s \in Stations \ {src} |-> hops[Cardinality(Stations)][s]]

(* Every footpath is a shortest walk within the cap; a station that could  *)
(* be walked to is left out only when nearer ones filled the quota.        *)
ClosedWalks(net) == \A src \in Stations :
    LET shortest == ShortestWalk(net.direct, src)
        kept == net.walks[src]
    IN  /\ \A w \in kept : w.to # src /\ shortest[w.to] = {w.secs} /\ w.secs <= MaxWalkSeconds
        /\ \A s \in Stations \ {src} : \A d \in shortest[s] :
             d <= MaxWalkSeconds /\ (\A w \in kept : w.to # s) =>
                 Cardinality(kept) = MaxFootpathsPerStation /\ \A w \in kept : w.secs <= d
==============================================================================
