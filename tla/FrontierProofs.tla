---------------------------- MODULE FrontierProofs ----------------------------
(***************************************************************************)
(* The search returns the whole frontier of the reference, for any         *)
(* timetables and signals, where no two trips of a route leave a stop      *)
(* together.                                                               *)
(*                                                                         *)
(* The inductive invariant FrontierInv says of every round what its scan   *)
(* and its footpaths have covered: a ride that a label of the round before *)
(* allows reaches no station earlier than the label there or than the      *)
(* destination; neither does a walk from where a vehicle arrived.  Marks   *)
(* are sound because a label that a round only carries over was covered    *)
(* when it was new.  Everything after that is about one state: the labels  *)
(* agree with the levels of the reference below the arrival at the         *)
(* destination, buildPath finds a journey for each round that improved it, *)
(* and extract keeps those the reference keeps.                            *)
(***************************************************************************)
EXTENDS RaptorProofs

(***************************************************************************)
(* The invariant                                                           *)
(***************************************************************************)

(* No vehicle arrives before it has left. *)
TravelsForward(n) ==
    \A r \in DOMAIN n.routes : \A i \in DOMAIN n.routes[r].trips :
        \A a, b \in DOMAIN n.routes[r].stops :
            a < b => n.routes[r].trips[i].dep[a] <= n.routes[r].trips[i].arr[b]

(* What computeFIFO marks has no overtaking, and closeFootpaths lets nobody *)
(* walk to where they are.                                                 *)
Measured(n) ==
    /\ \A r \in DOMAIN n.routes : n.routes[r].fifo => NoOvertaking(n.routes[r])
    /\ \A s \in Stations : \A w \in n.walks[s] : w.to # s

NetInv == Measured(net) /\ TravelsForward(net)
          /\ Measured(liveRoutes) /\ TravelsForward(liveRoutes)

Untied == \A r \in DOMAIN net.routes : ~DepartureTie(net.routes[r])

(* The label that round r gave s is no later than t. *)
Reached(r, s, t) == tau[r][s] # Never /\ tau[r][s] <= t

(* An arrival at s at t is no news: s or the destination was reached.      *)
Covered(r, s, t) == Reached(r, s, t) \/ Reached(r, query.dest, t)

Beats(t, old) == old = Never \/ t < old

(* A passenger with a label of round r can board trip i of route n at a.   *)
CanRide(r, n, i, a) ==
    LET route == net.routes[n]
    IN  /\ TripUsable(route.trips[i])
        /\ tau[r][route.stops[a]] # Never
        /\ route.trips[i].dep[a] >= ReadyAt(r, route.stops[a])

(* When passengers set out from u on foot in round r. *)
SetOut(r, u) ==
    IF r = 0 THEN IF u = query.origin THEN query.dep ELSE Never
    ELSE IF preWalk[r][u] = NoEntry THEN Never ELSE preWalk[r][u].arr

WalkedIn(r, s) == journal[r][s].kind = "walk" /\ journal[r][s].fromRound = r

(* A ride to s that arrives at t is covered by the scan of round r: only   *)
(* an earlier walk has replaced the label, and those who go on from s on   *)
(* foot have left by then.                                                 *)
RideCovered(r, s, t) ==
    \/ Reached(r, query.dest, t)
    \/ /\ Reached(r, s, t)
       /\ tau[r][s] = t => ~WalkedIn(r, s)
       /\ \/ Reached(r-1, s, t)
          \/ net.walks[s] = {}
          \/ SetOut(r, s) # Never /\ SetOut(r, s) <= t

RidesInv ==
    \A r \in 1..k : r < k \/ phase = "walk" =>
        \A n \in DOMAIN net.routes : \A i \in DOMAIN net.routes[n].trips :
            \A a, b \in DOMAIN net.routes[n].stops :
                a < b /\ CanRide(r-1, n, i, a) =>
                    RideCovered(r, net.routes[n].stops[b], net.routes[n].trips[i].arr[b])

(* The scan has yet to try to ride trip i of route n from a to b. *)
Pending(n, i, a, b) ==
    \E e \in queue :
        /\ e.route = n /\ e.pos <= a
        /\ e = First(queue) =>
             IF Route.fifo THEN b >= ride.pos
             ELSE i > ride.trip \/ (i = ride.trip /\ b >= ride.pos)

PendingInv ==
    phase = "scan" =>
        \A n \in DOMAIN net.routes : \A i \in DOMAIN net.routes[n].trips :
            \A a, b \in DOMAIN net.routes[n].stops :
                a < b /\ CanRide(k-1, n, i, a) =>
                    \/ Covered(k, net.routes[n].stops[b], net.routes[n].trips[i].arr[b])
                    \/ Pending(n, i, a, b)

(* The ride is on the first trip that could be boarded so far. *)
Aboard(r) ==
    \A i \in DOMAIN Route.trips : \A a \in DOMAIN Route.stops :
        /\ First(queue).pos <= a /\ a < r.pos
        /\ CanRide(k-1, First(queue).route, i, a)
        /\ Route.fifo \/ i = r.trip
        => r.from # Never /\ r.trip <= i

AboardInv ==
    phase = "scan" =>
        /\ \A e, f \in queue : e.route = f.route => e = f
        /\ queue # {} => /\ Aboard(ride)
                         /\ Route.fifo /\ ride.trip # 0 => ride.from # Never

(* Walks leave when passengers set out, and none is forgotten. *)
WalksInv ==
    /\ phase = "walk" => \A w \in walks : w.depart = SetOut(k, w.from)
    /\ \A r \in 0..k : \A u \in Stations : SetOut(r, u) # Never =>
         \A w \in net.walks[u] :
            \/ Covered(r, w.to, SetOut(r, u) + w.secs)
            \/ /\ r = k /\ phase = "walk"
               /\ [from |-> u, depart |-> SetOut(r, u), to |-> w.to, secs |-> w.secs] \in walks

Carried(r, s) == tau[r][s] = tau[r-1][s] /\ journal[r][s] = journal[r-1][s]

(* Entry e is what round r found for s: an improvement. *)
News(r, s, e) ==
    /\ e # NoEntry
    /\ Beats(e.arr, tau[r-1][s]) /\ Beats(e.arr, tau[r-1][query.dest])
    /\ e.kind = "transit" => e.fromRound = r - 1
    /\ e.kind = "walk" => e.fromRound = r /\ e.dep = SetOut(r, e.from)

NewsOf(r, s) ==
    /\ Carried(r, s) \/ News(r, s, journal[r][s])
    /\ preWalk[r][s] # NoEntry =>
         /\ News(r, s, preWalk[r][s]) /\ News(r, s, journal[r][s])
         /\ journal[r][s] = preWalk[r][s] \/ WalkedIn(r, s)

NewsInv ==
    /\ \A r \in 1..k : \A s \in Stations : NewsOf(r, s)
    /\ k >= 1 => \A s \in Stations :
         IF s \in improved THEN News(k, s, journal[k][s]) ELSE Carried(k, s)
    /\ \A s \in Stations :
         journal[0][s] # NoEntry => /\ WalkedIn(0, s) /\ journal[0][s].from = query.origin
                                    /\ journal[0][s].dep = query.dep
    /\ k = 0 => \A s \in Stations \ improved : tau[0][s] = Never

(* Nobody travels back in time, so the origin keeps its first label. *)
TimesInv ==
    \A r \in 0..k :
        /\ \A s \in Stations : tau[r][s] # Never => tau[r][s] >= query.dep
        /\ journal[r][query.origin] = NoEntry

FrontierInv ==
    /\ JournalInv /\ NetInv
    /\ Searching /\ Untied =>
         RidesInv /\ PendingInv /\ AboardInv /\ WalksInv /\ NewsInv /\ TimesInv

(***************************************************************************)
(* Improving a label                                                       *)
(***************************************************************************)

(* What a scan or a walk of this round writes. *)
Gain(e) ==
    /\ e \in Entry /\ e.arr >= query.dep
    /\ e.kind = "transit" => phase = "scan" /\ e.fromRound = k - 1
    /\ e.kind = "walk" => phase = "walk" /\ e.fromRound = k /\ e.dep = SetOut(k, e.from)

(* A step within round k: labels of the round are replaced by better ones. *)
Relabels ==
    /\ Frame
    /\ \A r \in 0..k-1 : tau'[r] = tau[r] /\ journal'[r] = journal[r]
    /\ \A u \in Stations :
         \/ /\ tau'[k][u] = tau[k][u] /\ journal'[k][u] = journal[k][u]
            /\ u \in improved' <=> u \in improved
         \/ /\ u \in improved'
            /\ Gain(journal'[k][u]) /\ tau'[k][u] = journal'[k][u].arr
            /\ Beats(tau'[k][u], tau[k][u]) /\ Beats(tau'[k][u], tau[k][query.dest])

LEMMA LabelRelabels ==
    ASSUME SearchInv, Searching, Frame,
           \/ UNCHANGED <<labelVars, improved>>
           \/ \E s \in Stations, e \in Entry :
                SetLabel(s, e) /\ Improves(e.arr, s) /\ Gain(e)
    PROVE  Relabels
<1>1. CASE UNCHANGED <<labelVars, improved>>
    BY <1>1 DEF Relabels, labelVars
<1>2. CASE \E s \in Stations, e \in Entry : SetLabel(s, e) /\ Improves(e.arr, s) /\ Gain(e)
  <2>1. PICK s \in Stations, e \in Entry : SetLabel(s, e) /\ Improves(e.arr, s) /\ Gain(e)
      BY <1>2
  <2>2. /\ k \in Nat /\ best = tau[k] /\ tau \in [0..k -> Times]
        /\ journal \in [0..k -> [Stations -> Entry \cup {NoEntry}]]
        /\ query.dest \in Stations
      BY Types DEF SearchInv, CurrentInv
  <2>3. /\ tau' = [tau EXCEPT ![k] = [tau[k] EXCEPT ![s] = e.arr]]
        /\ journal' = [journal EXCEPT ![k] = [journal[k] EXCEPT ![s] = e]]
        /\ improved' = improved \cup {s}
      BY <2>1 DEF SetLabel
  <2>4. \A r \in 0..k-1 : tau'[r] = tau[r] /\ journal'[r] = journal[r]
      BY <2>2, <2>3
  <2>5. tau'[k] = [tau[k] EXCEPT ![s] = e.arr] /\ journal'[k] = [journal[k] EXCEPT ![s] = e]
      BY <2>2, <2>3
  <2>6. /\ tau'[k][s] = e.arr /\ journal'[k][s] = e /\ s \in improved'
        /\ \A u \in Stations \ {s} : /\ tau'[k][u] = tau[k][u] /\ journal'[k][u] = journal[k][u]
                                     /\ u \in improved' <=> u \in improved
      BY <2>2, <2>3, <2>5 DEF Times
  <2>7. Beats(e.arr, tau[k][s]) /\ Beats(e.arr, tau[k][query.dest])
      BY <2>1, <2>2 DEF Improves, Beats
  <2> QED BY <2>1, <2>4, <2>6, <2>7 DEF Relabels
<1> QED BY <1>1, <1>2

(* What is reached stays reached. *)
LEMMA ReachedStays ==
    ASSUME TypeOK, TypeOK', Searching, Searching', Relabels,
           NEW r \in 0..k, NEW s \in Stations, NEW t \in Int, Reached(r, s, t)
    PROVE  Reached(r, s, t)'
<1>1. /\ k \in Nat /\ tau[r][s] \in Int \cup {Never}
    BY Types
<1>2. CASE r = k
    BY <1>1, <1>2, TimetableAssumption DEF Relabels, Reached, Beats, Gain, Entry, TimetableAssumption
<1>3. CASE r # k
    BY <1>1, <1>3 DEF Relabels, Reached
<1> QED BY <1>2, <1>3

LEMMA CoveredStays ==
    ASSUME TypeOK, TypeOK', Searching, Searching', Relabels,
           NEW r \in 0..k, NEW s \in Stations, NEW t \in Int, Covered(r, s, t)
    PROVE  Covered(r, s, t)'
BY ReachedStays, Types DEF Covered, Relabels, Frame

(* Positions and times of a route. *)
LEMMA RouteTypes ==
    ASSUME NEW m, WellFormed(m), NEW n \in DOMAIN m.routes
    PROVE  /\ n \in Nat
           /\ Len(m.routes[n].trips) \in Nat \ {0} /\ Len(m.routes[n].stops) \in Nat \ {0}
           /\ DOMAIN m.routes[n].trips = 1..Len(m.routes[n].trips)
           /\ DOMAIN m.routes[n].stops = 1..Len(m.routes[n].stops)
           /\ \A p \in DOMAIN m.routes[n].stops : m.routes[n].stops[p] \in Stations
           /\ \A i \in DOMAIN m.routes[n].trips :
                /\ m.routes[n].trips[i].key \in Int \X Int
                /\ \A p \in DOMAIN m.routes[n].stops :
                     m.routes[n].trips[i].arr[p] \in Int /\ m.routes[n].trips[i].dep[p] \in Int
<1>1. PICK r : r = m.routes[n]
    OBVIOUS
<1>2. WellFormedRoute(r) /\ n \in Nat
    BY <1>1 DEF WellFormed
<1>3. PICK T : T = [key: Int \X Int, arr: [DOMAIN r.stops -> Int], dep: [DOMAIN r.stops -> Int]]
    OBVIOUS
<1>4. r.trips \in Seq(T) /\ r.trips # <<>> /\ r.stops \in Seq(Stations) /\ r.stops # <<>>
    BY <1>2, <1>3 DEF WellFormedRoute
<1>5. /\ Len(r.trips) \in Nat \ {0} /\ DOMAIN r.trips = 1..Len(r.trips)
      /\ Len(r.stops) \in Nat \ {0} /\ DOMAIN r.stops = 1..Len(r.stops)
      /\ \A i \in DOMAIN r.trips : r.trips[i] \in T
      /\ \A p \in DOMAIN r.stops : r.stops[p] \in Stations
    BY <1>4
<1>6. \A t \in T : /\ t.key \in Int \X Int
                   /\ \A p \in DOMAIN r.stops : t.arr[p] \in Int /\ t.dep[p] \in Int
    BY <1>3
<1> QED BY <1>1, <1>2, <1>5, <1>6

(* What a step within the round leaves as it is. *)
LEMMA PastStays ==
    ASSUME SearchInv, Searching, Relabels, NEW r \in 1..k, NEW n, NEW i, NEW a
    PROVE  /\ CanRide(r-1, n, i, a)' <=> CanRide(r-1, n, i, a)
           /\ tau'[r-1] = tau[r-1]
           /\ \A u : SetOut(r, u)' = SetOut(r, u)
<1>1. k \in Nat /\ r-1 \in 0..k-1
    BY Types DEF SearchInv
<1>2. tau'[r-1] = tau[r-1] /\ journal'[r-1] = journal[r-1]
    BY <1>1 DEF Relabels
<1> QED BY <1>2 DEF CanRide, TripUsable, Allowed, CanBoard, ReadyAt, Relabels, Frame, SetOut

(* A ride that is covered stays covered: a walk that replaces its label is *)
(* earlier.                                                                *)
LEMMA RideCoveredStays ==
    ASSUME SearchInv, TypeOK', Searching, Searching', Relabels,
           NEW r \in 1..k, NEW s \in Stations, NEW t \in Int, RideCovered(r, s, t)
    PROVE  RideCovered(r, s, t)'
<1>1. /\ k \in Nat /\ r \in 0..k /\ r - 1 \in 0..k /\ query.dest \in Stations
      /\ tau[r][s] \in Int \cup {Never} /\ Never \notin Int
    BY Types DEF SearchInv
<1>2. query' = query /\ net' = net /\ k' = k
    BY DEF Relabels, Frame
<1>3. CASE Reached(r, query.dest, t)
    BY <1>1, <1>2, <1>3, ReachedStays DEF RideCovered, SearchInv
<1>4. CASE ~Reached(r, query.dest, t)
  <2>1. Reached(r, s, t)'
      BY <1>1, <1>4, ReachedStays DEF RideCovered, SearchInv
  <2>2. (tau[r][s] = t => ~WalkedIn(r, s))'
    <3>1. CASE r # k
      <4>1. tau'[r] = tau[r] /\ journal'[r] = journal[r]
          BY <1>1, <3>1 DEF Relabels
      <4> QED BY <1>4, <4>1 DEF RideCovered, WalkedIn
    <3>2. CASE r = k /\ tau'[k][s] = tau[k][s] /\ journal'[k][s] = journal[k][s]
        BY <1>4, <3>2 DEF RideCovered, WalkedIn
    <3>3. CASE r = k /\ Beats(tau'[k][s], tau[k][s]) /\ tau'[k][s] \in Int
        BY <1>1, <1>4, <3>3 DEF RideCovered, Reached, Beats
    <3> QED BY <1>1, <3>1, <3>2, <3>3 DEF Relabels, Gain, Entry
  <2>3. SetOut(r, s)' = SetOut(r, s) /\ tau'[r-1] = tau[r-1]
      BY PastStays
  <2> QED BY <1>2, <1>4, <2>1, <2>2, <2>3 DEF RideCovered, Reached
<1> QED BY <1>3, <1>4

LEMMA RelabelsKeepRides ==
    ASSUME SearchInv, TypeOK', Searching, Searching', Relabels, phase' = phase, RidesInv
    PROVE  RidesInv'
<1>1. query' = query /\ net' = net /\ k' = k
    BY DEF Relabels, Frame
<1> SUFFICES ASSUME NEW r \in 1..k, r < k \/ phase = "walk",
                    NEW n \in DOMAIN net.routes, NEW i \in DOMAIN net.routes[n].trips,
                    NEW a \in DOMAIN net.routes[n].stops, NEW b \in DOMAIN net.routes[n].stops,
                    a < b, CanRide(r-1, n, i, a)'
             PROVE  RideCovered(r, net.routes[n].stops[b], net.routes[n].trips[i].arr[b])'
    BY <1>1 DEF RidesInv
<1>2. CanRide(r-1, n, i, a)
    BY PastStays
<1>3. net.routes[n].stops[b] \in Stations /\ net.routes[n].trips[i].arr[b] \in Int
    BY RouteTypes DEF SearchInv, TypeOK
<1>4. PICK s, t : s = net.routes[n].stops[b] /\ t = net.routes[n].trips[i].arr[b]
    OBVIOUS
<1>5. RideCovered(r, s, t)
    BY <1>2, <1>4 DEF RidesInv
<1>6. RideCovered(r, s, t)'
    BY <1>3, <1>4, <1>5, RideCoveredStays
<1> QED BY <1>1, <1>4, <1>6

LEMMA RelabelsKeepTimes ==
    ASSUME SearchInv, SearchInv', Searching, Searching', Relabels, TimesInv
    PROVE  TimesInv'
<1>1. /\ k \in Nat /\ query.origin \in Stations /\ query.dest \in Stations /\ query.dep \in Int
      /\ \A r \in 0..k : \A s \in Stations : tau[r][s] \in Int \cup {Never}
      /\ Never \notin Int
    BY Types DEF SearchInv
<1>2. query' = query /\ k' = k
    BY DEF Relabels, Frame
<1>3. ASSUME NEW r \in 0..k, NEW s \in Stations, tau'[r][s] # Never
      PROVE  tau'[r][s] >= query.dep
  <2>1. CASE r # k
      BY <1>1, <1>3, <2>1 DEF Relabels, TimesInv
  <2>2. CASE r = k
      BY <1>1, <1>3, <2>2 DEF Relabels, TimesInv, Gain
  <2> QED BY <2>1, <2>2
<1>4. ASSUME NEW r \in 0..k
      PROVE  journal'[r][query.origin] = NoEntry
  <2>1. CASE r # k
      BY <1>1, <2>1 DEF Relabels, TimesInv
  <2>2. CASE r = k
    <3>1. journal[k][query.origin] = NoEntry /\ tau[k][query.origin] = query.dep
        BY <1>1 DEF TimesInv, SearchInv, LabelsJustified
    <3>2. ~(Gain(journal'[k][query.origin]) /\ tau'[k][query.origin] = journal'[k][query.origin].arr
            /\ Beats(tau'[k][query.origin], tau[k][query.origin]))
        BY <1>1, <3>1 DEF Gain, Beats, Entry
    <3> QED BY <1>1, <2>2, <3>1, <3>2 DEF Relabels
  <2> QED BY <2>1, <2>2
<1> QED BY <1>2, <1>3, <1>4 DEF TimesInv

(* What was news of a label in this round is outdone by later news of it.  *)
LEMMA NewsInRound ==
    ASSUME SearchInv, Searching, NewsInv, k >= 1, NEW s \in Stations
    PROVE  tau[k-1][s] # Never => tau[k][s] # Never /\ tau[k][s] <= tau[k-1][s]
<1>1. /\ k \in 1..k /\ k - 1 \in 0..k /\ k \in 0..k
      /\ tau[k][s] \in Int \cup {Never} /\ tau[k-1][s] \in Int \cup {Never} /\ Never \notin Int
      /\ journal[k][s] = NoEntry \/ journal[k][s] \in Entry
    BY Types DEF SearchInv
<1>2. CASE Carried(k, s)
    BY <1>1, <1>2 DEF Carried
<1>3. CASE News(k, s, journal[k][s])
  <2>1. tau[k][s] = journal[k][s].arr /\ journal[k][s] \in Entry
      BY <1>1, <1>3 DEF News, SearchInv, LabelsJustified
  <2> QED BY <1>1, <1>3, <2>1 DEF News, Beats, Entry
<1> QED BY <1>1, <1>2, <1>3 DEF NewsInv, NewsOf

LEMMA GainIsNews ==
    ASSUME SearchInv, Searching, Relabels, NewsInv, k >= 1, NEW s \in Stations, NEW e,
           Gain(e), Beats(e.arr, tau[k][s]), Beats(e.arr, tau[k][query.dest])
    PROVE  News(k, s, e)'
<1>1. /\ k \in Nat /\ k \in 1..k /\ k - 1 \in 0..k /\ query.dest \in Stations
      /\ Never \notin Int
      /\ tau[k][s] \in Int \cup {Never} /\ tau[k-1][s] \in Int \cup {Never}
      /\ tau[k][query.dest] \in Int \cup {Never} /\ tau[k-1][query.dest] \in Int \cup {Never}
  <2>1. k \in Nat /\ k \in 0..k /\ k - 1 \in 0..k /\ query.dest \in Stations
      BY Types DEF SearchInv
  <2> QED BY <2>1, Types DEF SearchInv
<1>2. e \in Entry /\ e.arr \in Int /\ e # NoEntry
    BY EntryIsNotNone DEF Gain, Entry
<1>3. Beats(e.arr, tau[k-1][s]) /\ Beats(e.arr, tau[k-1][query.dest])
    BY <1>1, <1>2, NewsInRound DEF Beats
<1>4. query' = query /\ k' = k
    BY DEF Relabels, Frame
<1>5. tau'[k-1] = tau[k-1] /\ preWalk' = preWalk
    BY <1>1 DEF Relabels, Frame
<1>6. SetOut(k, e.from)' = SetOut(k, e.from)
    BY <1>4, <1>5 DEF SetOut
<1> QED BY <1>2, <1>3, <1>4, <1>5, <1>6 DEF News, Gain

LEMMA RelabelsKeepNews ==
    ASSUME SearchInv, SearchInv', Searching, Searching', Relabels, NewsInv,
           phase = "scan" => k >= 1 /\ preWalk[k] = NoEntries
    PROVE  NewsInv'
<1>1. /\ k \in Nat /\ k \in 0..k /\ query.dest \in Stations
      /\ journal \in [0..k -> [Stations -> Entry \cup {NoEntry}]]
    BY Types DEF SearchInv
<1>2. query' = query /\ k' = k /\ preWalk' = preWalk
    BY DEF Relabels, Frame
<1>3. ASSUME NEW r \in 1..k, NEW s \in Stations, NEW e, News(r, s, e)
      PROVE  News(r, s, e)'
  <2>1. tau'[r-1] = tau[r-1] /\ \A u : SetOut(r, u)' = SetOut(r, u)
      BY PastStays
  <2> QED BY <1>2, <1>3, <2>1 DEF News
<1>4. ASSUME NEW r \in 1..k, r # k, NEW s \in Stations
      PROVE  NewsOf(r, s)'
  <2>1. /\ tau'[r] = tau[r] /\ tau'[r-1] = tau[r-1]
        /\ journal'[r] = journal[r] /\ journal'[r-1] = journal[r-1]
      BY <1>1, <1>4 DEF Relabels
  <2>2. NewsOf(r, s)
      BY DEF NewsInv
  <2> QED BY <1>2, <1>3, <2>1, <2>2 DEF NewsOf, Carried, WalkedIn
<1>5. ASSUME k >= 1, NEW s \in Stations
      PROVE  /\ NewsOf(k, s)'
             /\ IF s \in improved' THEN News(k, s, journal[k][s])' ELSE Carried(k, s)'
  <2>1. k \in 1..k /\ NewsOf(k, s)
      BY <1>1, <1>5 DEF NewsInv
  <2>2. tau'[k-1] = tau[k-1] /\ journal'[k-1] = journal[k-1]
      BY <1>1, <1>5 DEF Relabels
  <2>3. CASE /\ tau'[k][s] = tau[k][s] /\ journal'[k][s] = journal[k][s]
             /\ s \in improved' <=> s \in improved
      BY <1>2, <1>3, <1>5, <2>1, <2>2, <2>3 DEF NewsInv, NewsOf, Carried, WalkedIn
  <2>4. CASE /\ s \in improved' /\ Gain(journal'[k][s]) /\ tau'[k][s] = journal'[k][s].arr
             /\ Beats(tau'[k][s], tau[k][s]) /\ Beats(tau'[k][s], tau[k][query.dest])
    <3>1. PICK e : e = journal'[k][s]
        OBVIOUS
    <3>2. News(k, s, e)'
        BY <1>5, <2>4, <3>1, GainIsNews
    <3>3. ASSUME preWalk[k][s] # NoEntry
          PROVE  News(k, s, preWalk[k][s])' /\ WalkedIn(k, s)'
      <4>1. News(k, s, preWalk[k][s])
          BY <2>1, <3>3 DEF NewsOf
      <4>2. News(k, s, preWalk[k][s])'
          BY <1>2, <1>3, <2>1, <4>1
      <4>3. phase # "scan"
          BY <3>3 DEF NoEntries
      <4> QED BY <1>2, <2>4, <4>2, <4>3, EntryIsNotNone DEF Gain, WalkedIn
    <3> QED BY <1>2, <2>4, <3>1, <3>2, <3>3 DEF NewsOf
  <2> QED BY <2>3, <2>4 DEF Relabels
<1>6. ASSUME NEW s \in Stations, journal'[0][s] # NoEntry
      PROVE  (/\ WalkedIn(0, s) /\ journal[0][s].from = query.origin
              /\ journal[0][s].dep = query.dep)'
  <2>1. CASE journal'[0][s] = journal[0][s]
      BY <1>2, <1>6, <2>1 DEF NewsInv, WalkedIn
  <2>2. CASE journal'[0][s] # journal[0][s]
    <3>1. k = 0
        BY <1>1, <2>2 DEF Relabels
    <3>2. Gain(journal'[0][s]) /\ phase # "scan"
        BY <2>2, <3>1 DEF Relabels
    <3>3. journal'[0][s].kind = "walk" /\ journal'[0][s].dep \in Int
        BY <3>2, EntryIsNotNone DEF Gain, Entry
    <3> QED BY <1>2, <3>1, <3>2, <3>3, TimetableAssumption
            DEF Gain, WalkedIn, SetOut, TimetableAssumption
  <2> QED BY <2>1, <2>2
<1>7. k = 0 => \A s \in Stations \ improved' : tau'[0][s] = Never
    BY <1>1 DEF NewsInv, Relabels
<1> QED BY <1>1, <1>2, <1>4, <1>5, <1>6, <1>7 DEF NewsInv

(***************************************************************************)
(* Footpaths                                                               *)
(***************************************************************************)

(* After an attempt to improve s by entry e, e.arr is no news there. *)
LEMMA TriedIsCovered ==
    ASSUME SearchInv, Searching, Relabels, NEW s \in Stations, NEW e \in Entry,
           IF Improves(e.arr, s) THEN SetLabel(s, e) ELSE UNCHANGED <<labelVars, improved>>
    PROVE  Covered(k, s, e.arr)'
<1>1. /\ k \in Nat /\ best = tau[k] /\ tau \in [0..k -> Times] /\ query.dest \in Stations
      /\ e.arr \in Int /\ Never \notin Int
      /\ tau[k][s] \in Int \cup {Never} /\ tau[k][query.dest] \in Int \cup {Never}
  <2>1. k \in 0..k /\ query.dest \in Stations
      BY Types DEF SearchInv
  <2> QED BY <2>1, Types DEF SearchInv, CurrentInv, Entry
<1>2. query' = query /\ k' = k
    BY DEF Relabels, Frame
<1>3. CASE Improves(e.arr, s)
  <2>1. tau' = [tau EXCEPT ![k] = [tau[k] EXCEPT ![s] = e.arr]]
      BY <1>3 DEF SetLabel
  <2>2. tau'[k][s] = e.arr
      BY <1>1, <2>1 DEF Times
  <2> QED BY <1>1, <1>2, <2>2 DEF Covered, Reached
<1>4. CASE ~Improves(e.arr, s)
    BY <1>1, <1>2, <1>4 DEF Improves, Covered, Reached, labelVars
<1> QED BY <1>3, <1>4

LEMMA WalkFootpathFrontier ==
    ASSUME FrontierInv, WalkFootpath, Untied
    PROVE  RidesInv' /\ WalksInv' /\ NewsInv' /\ TimesInv'
<1>1. /\ phase = "walk" /\ phase' = "walk" /\ Searching /\ Searching' /\ JournalInv /\ SearchInv
      /\ RidesInv /\ WalksInv /\ NewsInv /\ TimesInv /\ Frame
    BY DEF WalkFootpath, Searching, FrontierInv, JournalInv, Frame, liveVars, inputVars
<1>2. SearchInv'
    BY <1>1, WalkFootpathKeeps
<1>3. PICK w \in walks :
        /\ walks' = walks \ {w}
        /\ LET arr == w.depart + w.secs
           IN  IF Improves(arr, w.to)
               THEN SetLabel(w.to, [kind |-> "walk", fromRound |-> k, from |-> w.from,
                                    key |-> Never, dep |-> w.depart, arr |-> arr])
               ELSE UNCHANGED <<labelVars, improved>>
    BY DEF WalkFootpath
<1>4. PICK e : e = [kind |-> "walk", fromRound |-> k, from |-> w.from,
                    key |-> Never, dep |-> w.depart, arr |-> w.depart + w.secs]
    OBVIOUS
<1>5. /\ k \in Nat /\ query.dep \in Int /\ query.origin \in Stations /\ query.dest \in Stations
      /\ \A r \in 0..k : \A s \in Stations : tau[r][s] \in Int \cup {Never}
      /\ Never \notin Int /\ WellFormed(net)
    BY <1>1, Types DEF SearchInv, TypeOK
<1>6. /\ w.from \in Stations /\ w.to \in Stations /\ w.depart \in Int /\ w.secs \in Nat
      /\ tau[k][w.from] # Never /\ w.depart >= tau[k][w.from]
    BY <1>1 DEF SearchInv, WalkInv, WalkOK
<1>7. e \in Entry /\ e.arr = w.depart + w.secs /\ e.kind = "walk"
    BY <1>4, <1>5, <1>6 DEF Entry
<1>8. Gain(e)
  <2>1. w.depart = SetOut(k, w.from)
      BY <1>1 DEF WalksInv
  <2>2. k \in 0..k /\ tau[k][w.from] >= query.dep /\ tau[k][w.from] \in Int
      BY <1>1, <1>5, <1>6 DEF TimesInv
  <2> QED BY <1>1, <1>4, <1>5, <1>6, <1>7, <2>1, <2>2 DEF Gain
<1>9. IF Improves(e.arr, w.to) THEN SetLabel(w.to, e) ELSE UNCHANGED <<labelVars, improved>>
    BY <1>3, <1>4, <1>7
<1>10. Relabels
    BY <1>1, <1>6, <1>7, <1>8, <1>9, LabelRelabels
<1>11. Covered(k, w.to, e.arr)'
    BY <1>1, <1>6, <1>7, <1>9, <1>10, TriedIsCovered
<1>12. RidesInv' /\ NewsInv' /\ TimesInv'
    BY <1>1, <1>2, <1>10, RelabelsKeepRides, RelabelsKeepNews, RelabelsKeepTimes
       DEF SearchInv
<1>13. k' = k /\ net' = net /\ query' = query /\ \A r, u : SetOut(r, u)' = SetOut(r, u)
    BY <1>1 DEF Frame, SetOut
<1>14. ASSUME NEW r \in 0..k, NEW u \in Stations, SetOut(r, u) # Never, NEW x \in net.walks[u]
       PROVE  \/ Covered(r, x.to, SetOut(r, u) + x.secs)'
              \/ r = k /\ [from |-> u, depart |-> SetOut(r, u), to |-> x.to, secs |-> x.secs] \in walks'
  <2>1. x.to \in Stations /\ x.secs \in Nat
      BY <1>5 DEF WellFormed
  <2>2. SetOut(r, u) \in Int
    <3>1. preWalk[r][u] = NoEntry \/ preWalk[r][u] \in Entry
        BY <1>1 DEF SearchInv, TypeOK
    <3> QED BY <1>5, <1>14, <3>1 DEF SetOut, Entry
  <2>3. PICK t : t = SetOut(r, u) + x.secs
      OBVIOUS
  <2>4. t \in Int
      BY <2>1, <2>2, <2>3
  <2>5. CASE Covered(r, x.to, t)
    <3>1. Covered(r, x.to, t)'
        BY <1>1, <1>2, <1>10, <2>1, <2>4, <2>5, CoveredStays DEF SearchInv
    <3> QED BY <1>13, <2>3, <3>1
  <2>6. CASE /\ r = k
             /\ [from |-> u, depart |-> SetOut(r, u), to |-> x.to, secs |-> x.secs] \in walks
    <3>1. CASE [from |-> u, depart |-> SetOut(r, u), to |-> x.to, secs |-> x.secs] = w
      <4>1. x.to = w.to /\ t = e.arr
          BY <1>7, <2>3, <3>1
      <4> QED BY <1>11, <1>13, <2>3, <2>6, <4>1
    <3> QED BY <1>3, <2>6, <3>1
  <2> QED BY <1>1, <1>14, <2>3, <2>5, <2>6 DEF WalksInv
<1>15. WalksInv'
    BY <1>1, <1>3, <1>13, <1>14 DEF WalksInv
<1> QED BY <1>12, <1>15

(***************************************************************************)
(* Scanning                                                                *)
(***************************************************************************)

(* The invariant is about the phases of a search; where it holds of a scan *)
(* there are the parts of it that speak of a scan.                         *)
LEMMA ScanFacts ==
    ASSUME FrontierInv, Untied, phase = "scan", queue # {}
    PROVE  /\ Searching /\ SearchInv /\ TypeOK /\ MadeInv /\ k \in Nat /\ k >= 1
           /\ RidesInv /\ PendingInv /\ AboardInv /\ WalksInv /\ NewsInv /\ TimesInv
           /\ RideOK(ride) /\ RideReal(ride) /\ Aboard(ride)
           /\ First(queue) \in queue /\ First(queue).route \in DOMAIN net.routes
           /\ Route = net.routes[First(queue).route]
           /\ ride.pos \in DOMAIN Route.stops /\ First(queue).pos \in DOMAIN Route.stops
           /\ Station = Route.stops[ride.pos] /\ Station \in Stations
           /\ \A e \in queue : /\ e.route \in DOMAIN net.routes
                               /\ e.pos \in DOMAIN net.routes[e.route].stops
<1>1. Searching /\ JournalInv /\ SearchInv /\ TypeOK /\ MadeInv
    BY DEF Searching, FrontierInv, JournalInv, SearchInv
<1>2. k >= 1 /\ k \in Nat
    BY <1>1, Types DEF SearchInv, ScanInv
<1> QED BY <1>1, <1>2, Scanned DEF FrontierInv, SearchInv, ScanInv, QueueOK, MadeInv, AboardInv,
                                  Route, Station

(* A ride arrives after the label that let its passenger board. *)
LEMMA RideGains ==
    ASSUME FrontierInv, Untied, phase = "scan", queue # {}, ride.from # Never, NEW e,
           e = [kind |-> "transit", fromRound |-> BoardRound, from |-> ride.from,
                key |-> Riding.key, dep |-> ride.dep, arr |-> Riding.arr[ride.pos]]
    PROVE  e \in Entry /\ Gain(e)
<1>1. Boarded(ride) /\ k \in Nat /\ k >= 1 /\ query.dep \in Int /\ TransferSeconds \in Nat
    BY ScanFacts, Types, RaptorAssumption DEF RideOK, RaptorAssumption
<1>2. PICK a \in DOMAIN Route.stops : a < ride.pos /\ Riding.dep[a] = ride.dep
    BY ScanFacts DEF RideReal, Riding
<1>3. /\ ride.trip \in DOMAIN Route.trips /\ ride.from \in Stations /\ ride.dep \in Int
      /\ tau[k-1][ride.from] # Never /\ ride.dep >= ReadyAt(k-1, ride.from)
    BY <1>1 DEF Boarded
<1>4. Riding.key \in Int \X Int /\ Riding.arr[ride.pos] \in Int
    BY <1>3, ScanFacts, Scanned DEF SearchInv, Riding
<1>5. Riding.dep[a] <= Riding.arr[ride.pos]
    BY <1>2, <1>3, ScanFacts DEF FrontierInv, NetInv, TravelsForward, Riding
<1>6. tau[k-1][ride.from] \in Int /\ tau[k-1][ride.from] >= query.dep
  <2>1. k - 1 \in 0..k
      BY <1>1
  <2> QED BY <1>3, <2>1, ScanFacts, Types DEF TimesInv
<1>7. ReadyAt(k-1, ride.from) >= tau[k-1][ride.from] /\ ReadyAt(k-1, ride.from) \in Int
    BY <1>1, <1>6 DEF ReadyAt
<1>8. e \in Entry
    BY <1>1, <1>3, <1>4 DEF Entry, BoardRound
<1>9. e.arr >= query.dep
    BY <1>1, <1>2, <1>3, <1>4, <1>5, <1>6, <1>7
<1> QED BY <1>8, <1>9 DEF Gain, BoardRound

LEMMA AlightRelabels ==
    ASSUME FrontierInv, Untied, phase = "scan", queue # {}, Frame, phase' = phase,
           Alight \/ UNCHANGED <<labelVars, improved>>,
           NEW s, s = Station, NEW t, t = Riding.arr[ride.pos]
    PROVE  /\ Relabels
           /\ Alight /\ ride.from # Never => Covered(k, s, t)'
<1>1. Searching /\ SearchInv /\ Station \in Stations
    BY ScanFacts
<1>2. PICK e : e = [kind |-> "transit", fromRound |-> BoardRound, from |-> ride.from,
                    key |-> Riding.key, dep |-> ride.dep, arr |-> Riding.arr[ride.pos]]
    OBVIOUS
<1>3. e.arr = Riding.arr[ride.pos]
    BY <1>2
<1>4. Alight => IF ride.from # Never /\ Improves(e.arr, Station)
                THEN SetLabel(Station, e) ELSE UNCHANGED <<labelVars, improved>>
    BY <1>2 DEF Alight
<1>5. ride.from # Never => e \in Entry /\ Gain(e)
    BY <1>2, RideGains
<1>6. Relabels
    BY <1>1, <1>4, <1>5, LabelRelabels
<1>7. ASSUME Alight, ride.from # Never PROVE Covered(k, s, t)'
  <2>1. e \in Entry /\ e.arr = t /\ s \in Stations
      BY <1>1, <1>3, <1>5, <1>7
  <2>2. IF Improves(e.arr, s) THEN SetLabel(s, e) ELSE UNCHANGED <<labelVars, improved>>
      BY <1>4, <1>7
  <2>3. Covered(k, s, e.arr)'
      BY <1>1, <1>6, <2>1, <2>2, TriedIsCovered
  <2> QED BY <2>1, <2>3
<1> QED BY <1>6, <1>7

(* Where the scan goes on. *)
LEMMA Moves ==
    ASSUME FrontierInv, Untied, phase = "scan", queue # {}, net' = net,
           NEW r, r.pos \in Nat \ {0}, MoveTo(r)
    PROVE  \/ r.pos \in DOMAIN Route.stops /\ ride' = r /\ queue' = queue
           \/ /\ r.pos > Len(Route.stops) /\ ~Route.fifo /\ r.trip < Len(Route.trips)
              /\ queue' = queue /\ ride'.pos = First(queue).pos /\ ride'.trip = r.trip + 1
           \/ /\ r.pos > Len(Route.stops) /\ (Route.fifo \/ ~(r.trip < Len(Route.trips)))
              /\ queue' = queue \ {First(queue)}
              /\ queue' # {} =>
                   /\ ride'.pos = First(queue').pos
                   /\ ride'.trip = IF net.routes[First(queue').route].fifo THEN 0 ELSE 1
<1>1. DOMAIN Route.stops = 1..Len(Route.stops) /\ Len(Route.stops) \in Nat
    BY ScanFacts, RouteTypes DEF TypeOK
<1>2. CASE r.pos <= Len(Route.stops)
  <2>1. r.pos >= 1
      BY <1>2, ScanFacts DEF MoveTo
  <2> QED BY <1>1, <1>2, <2>1 DEF MoveTo
<1>3. CASE ~(r.pos <= Len(Route.stops)) /\ ~Route.fifo /\ r.trip < Len(Route.trips)
  <2>1. r.pos > Len(Route.stops)
      BY <1>1, <1>3
  <2>2. /\ ride' = [NoRide EXCEPT !.pos = First(queue).pos, !.trip = r.trip + 1]
        /\ queue' = queue
      BY <1>3 DEF MoveTo
  <2>3. ride'.pos = First(queue).pos /\ ride'.trip = r.trip + 1
      BY <2>2 DEF NoRide
  <2> QED BY <1>3, <2>1, <2>2, <2>3
<1>4. CASE ~(r.pos <= Len(Route.stops)) /\ (Route.fifo \/ ~(r.trip < Len(Route.trips)))
  <2>1. r.pos > Len(Route.stops)
      BY <1>1, <1>4
  <2>2. queue' = queue \ {First(queue)} /\ ride' = RideOn(queue')
      BY <1>4 DEF MoveTo
  <2>3. ASSUME queue' # {}
        PROVE  /\ ride'.pos = First(queue').pos
               /\ ride'.trip = IF net.routes[First(queue').route].fifo THEN 0 ELSE 1
    <3>1. PICK f, x : f = First(queue') /\ x = net.routes[First(queue').route].fifo
        OBVIOUS
    <3>2. ride' = [NoRide EXCEPT !.pos = f.pos, !.trip = IF x THEN 0 ELSE 1]
        BY <2>2, <2>3, <3>1 DEF RideOn
    <3> QED BY <3>1, <3>2 DEF NoRide
  <2> QED BY <1>4, <2>1, <2>2, <2>3
<1> QED BY <1>2, <1>3, <1>4

(* What the scan has not covered is still to come. *)
LEMMA ScanKeepsPending ==
    ASSUME FrontierInv, Untied, phase = "scan", queue # {}, SearchInv', phase' = phase,
           Relabels, NEW r, r.pos \in Nat \ {0}, MoveTo(r), ~Route.fifo => r.trip = ride.trip,
           \/ /\ r.pos = ride.pos + 1
              /\ \A s, t : s = Station /\ t = Riding.arr[ride.pos] /\ ride.from # Never
                           => Covered(k, s, t)'
           \/ ~Route.fifo /\ r.pos = Len(Route.stops) + 1 /\ ~TripUsable(Riding)
    PROVE  PendingInv'
<1>1. /\ Searching /\ Searching' /\ SearchInv /\ TypeOK /\ TypeOK' /\ WellFormed(net)
      /\ k \in Nat /\ k >= 1 /\ k \in 1..k /\ k \in 0..k /\ query.dest \in Stations
      /\ query' = query /\ net' = net /\ k' = k
    BY ScanFacts, Types DEF SearchInv, TypeOK, Searching, Relabels, Frame
<1> SUFFICES ASSUME NEW n \in DOMAIN net.routes, NEW i \in DOMAIN net.routes[n].trips,
                    NEW a \in DOMAIN net.routes[n].stops, NEW b \in DOMAIN net.routes[n].stops,
                    a < b, CanRide(k-1, n, i, a)',
                    NEW s, s = net.routes[n].stops[b], NEW t, t = net.routes[n].trips[i].arr[b]
             PROVE  Covered(k, s, t)' \/ Pending(n, i, a, b)'
    BY <1>1 DEF PendingInv
<1>2. /\ s \in Stations /\ t \in Int /\ i \in Nat /\ i >= 1 /\ a \in Nat /\ b \in Nat
      /\ i <= Len(net.routes[n].trips) /\ b <= Len(net.routes[n].stops)
      /\ Len(net.routes[n].trips) \in Nat /\ Len(net.routes[n].stops) \in Nat
  <2>1. /\ Len(net.routes[n].trips) \in Nat /\ Len(net.routes[n].stops) \in Nat
        /\ DOMAIN net.routes[n].trips = 1..Len(net.routes[n].trips)
        /\ DOMAIN net.routes[n].stops = 1..Len(net.routes[n].stops)
      BY <1>1, RouteTypes
  <2>2. s \in Stations /\ t \in Int
      BY <1>1, RouteTypes
  <2> QED BY <2>1, <2>2
<1>3. CanRide(k-1, n, i, a)
    BY <1>1, PastStays
<1>4. CASE Covered(k, s, t)
    BY <1>1, <1>2, <1>4, CoveredStays
<1>5. CASE Pending(n, i, a, b)
  <2>1. PICK e \in queue : /\ e.route = n /\ e.pos <= a
                           /\ e = First(queue) =>
                                IF Route.fifo THEN b >= ride.pos
                                ELSE i > ride.trip \/ (i = ride.trip /\ b >= ride.pos)
      BY <1>5 DEF Pending
  <2>2. e.pos \in Nat /\ ride.trip \in Nat /\ ride.pos \in Nat
    <3>1. e.pos \in DOMAIN net.routes[n].stops
        BY <2>1, ScanFacts
    <3>2. e.pos \in Nat
      <4>1. DOMAIN net.routes[n].stops = 1..Len(net.routes[n].stops)
          BY <1>1, RouteTypes
      <4> QED BY <3>1, <4>1
    <3> QED BY <1>1, <3>2, ScanPlace DEF Ride
  <2>3. CASE e # First(queue)
    <3>1. CASE queue' = queue
      <4>1. First(queue)' = First(queue) /\ e \in queue'
          BY <3>1 DEF First
      <4> QED BY <2>1, <2>3, <4>1 DEF Pending
    <3>2. CASE queue' = queue \ {First(queue)} /\
               (queue' # {} => /\ ride'.pos = First(queue').pos
                               /\ ride'.trip = IF net.routes[First(queue').route].fifo
                                               THEN 0 ELSE 1)
      <4>1. e \in queue'
          BY <2>1, <2>3, <3>2
      <4>2. ASSUME e = First(queue')
            PROVE  /\ Route' = net.routes[n]
                   /\ ride'.pos = e.pos /\ ride'.trip = IF net.routes[n].fifo THEN 0 ELSE 1
          BY <1>1, <2>1, <3>2, <4>1, <4>2 DEF Route
      <4>3. First(queue)' = First(queue')
          BY DEF First
      <4>4. e = First(queue)' =>
                IF Route'.fifo THEN b >= ride'.pos
                ELSE i > ride'.trip \/ (i = ride'.trip /\ b >= ride'.pos)
          BY <1>2, <2>1, <2>2, <4>2, <4>3
      <4> QED BY <2>1, <4>1, <4>4 DEF Pending
    <3> QED BY <1>1, <3>1, <3>2, Moves
  <2>4. CASE e = First(queue)
    <3>1. Route = net.routes[n]
        BY <2>1, <2>4 DEF Route
    <3>2. CASE b = ride.pos /\ r.pos = ride.pos + 1 /\ (Route.fifo \/ i = ride.trip)
      <4>1. ride.from # Never /\ ride.trip <= i
          BY <1>2, <1>3, <2>1, <2>2, <2>4, <3>1, <3>2, ScanFacts DEF Aboard
      <4>2. ride.trip \in DOMAIN Route.trips
          BY <4>1, ScanFacts DEF RideOK, Boarded
      <4>3. Riding.arr[ride.pos] <= t
        <5>1. CASE ride.trip = i
          <6>1. Riding.arr[ride.pos] = t
              BY <3>1, <3>2, <5>1 DEF Riding
          <6> QED BY <1>2, <6>1
        <5>2. CASE ride.trip # i
          <6>1. NoOvertaking(Route) /\ ride.trip < i
              BY <1>2, <2>2, <3>1, <3>2, <4>1, <5>2 DEF FrontierInv, NetInv, Measured
          <6> QED BY <3>1, <3>2, <4>2, <6>1 DEF NoOvertaking, Riding
        <5> QED BY <5>1, <5>2
      <4>4. PICK u : u = Riding.arr[ride.pos]
          OBVIOUS
      <4>5. u \in Int
          BY <1>1, <3>1, <3>2, <4>2, <4>4, RouteTypes DEF Riding
      <4>6. Covered(k, s, u)'
        <5>1. s = Station
            BY <3>1, <3>2, ScanFacts
        <5>2. TripUsable(Riding) \/ Route.fifo
            BY <1>3, <3>1, <3>2 DEF CanRide, Riding
        <5> QED BY <4>1, <4>4, <5>1, <5>2
      <4>7. /\ tau'[k][s] \in Int \cup {Never} /\ tau'[k][query.dest] \in Int \cup {Never}
            /\ Never \notin Int
        <5>1. tau' \in [0..k -> Times]
            BY <1>1 DEF TypeOK
        <5>2. tau'[k] \in Times
            BY <1>1, <5>1
        <5> QED BY <1>1, <1>2, <5>2, TimetableAssumption DEF Times, TimetableAssumption
      <4>8. ASSUME NEW d, d \in Int \cup {Never}, d # Never, d <= u PROVE d <= t
          BY <1>2, <4>3, <4>4, <4>5, <4>8
      <4> QED BY <1>1, <4>6, <4>7, <4>8 DEF Covered, Reached
    <3>3. CASE Route.fifo /\ b > ride.pos
      <4>1. r.pos = ride.pos + 1 /\ ~(r.pos > Len(Route.stops))
          BY <1>2, <2>2, <3>1, <3>3
      <4>2. ride' = r /\ queue' = queue
          BY <1>1, <4>1, Moves
      <4>3. First(queue)' = First(queue) /\ Route' = Route
          BY <1>1, <4>2 DEF First, Route
      <4> QED BY <1>2, <2>1, <2>2, <2>4, <3>3, <4>1, <4>2, <4>3 DEF Pending
    <3>4. CASE ~Route.fifo /\ i = ride.trip /\ b > ride.pos
      <4>1. TripUsable(Riding)
          BY <1>3, <3>1, <3>4 DEF CanRide, Riding
      <4>2. r.pos = ride.pos + 1 /\ ~(r.pos > Len(Route.stops))
          BY <1>2, <2>2, <3>1, <3>4, <4>1
      <4>3. ride' = r /\ queue' = queue
          BY <1>1, <4>2, Moves
      <4>4. First(queue)' = First(queue) /\ Route' = Route
          BY <1>1, <4>3 DEF First, Route
      <4> QED BY <1>2, <2>1, <2>2, <2>4, <3>4, <4>2, <4>3, <4>4 DEF Pending
    <3>5. CASE ~Route.fifo /\ i > ride.trip
      <4>1. r.trip = ride.trip /\ r.trip < Len(Route.trips)
          BY <1>2, <2>2, <3>1, <3>5
      <4>2. /\ queue' = queue
            /\ ride'.trip = r.trip \/ (ride'.trip = r.trip + 1 /\ ride'.pos = e.pos)
          BY <1>1, <2>4, <3>5, <4>1, Moves
      <4>3. First(queue)' = First(queue) /\ Route' = Route
          BY <1>1, <4>2 DEF First, Route
      <4>4. i > ride'.trip \/ (i = ride'.trip /\ b >= ride'.pos)
        <5>1. CASE ride'.trip = r.trip
            BY <3>5, <4>1, <5>1
        <5>2. CASE ride'.trip = r.trip + 1 /\ ride'.pos = e.pos
            BY <1>2, <2>1, <2>2, <3>5, <4>1, <5>2
        <5> QED BY <4>2, <5>1, <5>2
      <4> QED BY <2>1, <2>4, <3>5, <4>2, <4>3, <4>4 DEF Pending
    <3>6. CASE ~Route.fifo /\ i = ride.trip /\ b = ride.pos /\ r.pos # ride.pos + 1
        BY <1>3, <3>1, <3>6 DEF CanRide, Riding
    <3> QED BY <1>2, <2>1, <2>2, <2>4, <3>2, <3>3, <3>4, <3>5, <3>6
  <2> QED BY <2>3, <2>4
<1> QED BY <1>3, <1>1, <1>4, <1>5, ScanFacts DEF PendingInv

(* Boarding the earliest trip that beats the one being ridden.  It takes   *)
(* that no two trips leave together, for a trip that leaves when the one   *)
(* being ridden does is not an earlier one to the search.                  *)
LEMMA BoardEarlierAboard ==
    ASSUME FrontierInv, Untied, phase = "scan", queue # {}, Route.fifo,
           NEW r, r = [BoardEarlier EXCEPT !.pos = ride.pos + 1], r.pos <= Len(Route.stops)
    PROVE  Aboard(r) /\ (r.trip # 0 => r.from # Never)
<1>1. PICK beat : beat = IF ride.trip = 0 THEN Never ELSE Riding.dep[ride.pos]
    OBVIOUS
<1>2. PICK catches : catches = IF tau[k-1][Station] = Never THEN {}
                     ELSE EarliestTrip(ride.pos, ReadyAt(k-1, Station), beat)
    OBVIOUS
<1>3. BoardEarlier = IF catches = {} THEN ride
                     ELSE [ride EXCEPT !.trip = Min(catches), !.from = Station,
                                       !.dep = Route.trips[Min(catches)].dep[ride.pos]]
    BY <1>1, <1>2 DEF BoardEarlier, BoardRound
<1>4. /\ ride \in Ride /\ ride.pos \in Nat /\ ride.trip \in Nat /\ k \in Nat /\ k-1 \in 0..k
      /\ Station \in Stations /\ Station # Never
      /\ Len(Route.trips) \in Nat /\ DOMAIN Route.trips = 1..Len(Route.trips)
      /\ \A i \in DOMAIN Route.trips : Route.trips[i].dep[ride.pos] \in Int
  <2>1. Never \notin Stations
      BY TimetableAssumption DEF TimetableAssumption
  <2> QED BY <2>1, ScanFacts, ScanPlace, Scanned DEF SearchInv, Ride
<1>5. catches \in SUBSET (DOMAIN Route.trips) /\ catches \in SUBSET Nat
    BY <1>2, <1>4 DEF EarliestTrip
<1> DEFINE first == Min(catches)
<1>7. ASSUME catches # {}
      PROVE  r.trip = first /\ r.from = Station /\ first \in catches /\ \A j \in catches : first <= j
    BY <1>3, <1>4, <1>5, <1>7, MinIsLeast DEF Ride
<1>8. r.pos = ride.pos + 1 /\ (catches = {} => r.trip = ride.trip /\ r.from = ride.from)
    BY <1>3, <1>4 DEF Ride
<1> HIDE DEF first
<1>9. r.trip # 0 => r.from # Never
  <2>1. ride.trip # 0 => ride.from # Never
      BY ScanFacts DEF AboardInv
  <2> QED BY <1>4, <1>7, <1>8, <2>1
<1>10. ASSUME ride.from # Never, NEW j \in catches PROVE j < ride.trip
  <2>1. ride.trip \in DOMAIN Route.trips /\ beat = Riding.dep[ride.pos] /\ beat \in Int
    <3>1. ride.trip \in DOMAIN Route.trips
        BY <1>10, ScanFacts DEF RideOK, Boarded
    <3> QED BY <1>1, <1>4, <3>1 DEF Riding
  <2>2. Route.trips[j].dep[ride.pos] < beat /\ j \in DOMAIN Route.trips
    <3>1. j \in DOMAIN Route.trips /\ j \in Nat /\ beat # Never
        BY <1>5, <2>1, TimetableAssumption DEF TimetableAssumption
    <3>2. j \in EarliestTrip(ride.pos, ReadyAt(k-1, Station), beat)
        BY <1>2, <1>10
    <3> QED BY <3>1, <3>2 DEF EarliestTrip
  <2>3. NoOvertaking(Route) /\ ride.pos \in DOMAIN Route.stops
      BY ScanFacts DEF FrontierInv, NetInv, Measured
  <2>4. ride.trip < j => beat <= Route.trips[j].dep[ride.pos]
      BY <2>1, <2>2, <2>3 DEF NoOvertaking, Riding
  <2>5. ride.trip # j
      BY <1>4, <2>1, <2>2 DEF Riding
  <2> QED BY <1>4, <2>1, <2>2, <2>4, <2>5
<1> SUFFICES ASSUME NEW i \in DOMAIN Route.trips, NEW a \in DOMAIN Route.stops,
                    First(queue).pos <= a, a < ride.pos + 1,
                    CanRide(k-1, First(queue).route, i, a)
             PROVE  r.from # Never /\ r.trip <= i
    BY <1>8, <1>9 DEF Aboard
<1>11. a \in Nat /\ i \in Nat
  <2>1. /\ WellFormed(net) /\ First(queue).route \in DOMAIN net.routes
        /\ Route = net.routes[First(queue).route]
      BY ScanFacts DEF TypeOK
  <2>2. Len(Route.stops) \in Nat /\ DOMAIN Route.stops = 1..Len(Route.stops)
      BY <2>1, RouteTypes
  <2> QED BY <1>4, <2>2
<1>12. CASE ride.from # Never /\ ride.trip <= i
    BY <1>4, <1>5, <1>7, <1>8, <1>10, <1>11, <1>12
<1>13. CASE a < ride.pos
    BY <1>12, <1>13, ScanFacts DEF Aboard
<1>14. CASE a = ride.pos /\ ~(ride.from # Never /\ ride.trip <= i)
  <2>1. /\ TripUsable(Route.trips[i]) /\ tau[k-1][Station] # Never
        /\ Route.trips[i].dep[ride.pos] >= ReadyAt(k-1, Station)
      BY <1>14, ScanFacts DEF CanRide
  <2>2. ASSUME beat # Never, NEW j \in DOMAIN Route.trips, j <= i
        PROVE  Route.trips[j].dep[ride.pos] < beat
    <3>1. ride.trip # 0 /\ ride.from # Never /\ beat = Riding.dep[ride.pos]
        BY <1>1, <2>2, ScanFacts DEF AboardInv
    <3>2. ride.trip \in DOMAIN Route.trips /\ i < ride.trip
        BY <1>4, <1>11, <1>14, <3>1, ScanFacts DEF RideOK, Boarded
    <3>3. j < ride.trip /\ j # ride.trip
        BY <1>4, <1>11, <2>2, <3>2
    <3>4. Route.trips[j].dep[ride.pos] <= Route.trips[ride.trip].dep[ride.pos]
        BY <2>2, <3>2, <3>3, ScanFacts DEF FrontierInv, NetInv, Measured, NoOvertaking
    <3>5. ride.pos < Len(Route.stops) /\ ride.pos \in DOMAIN Route.stops
      <4>1. Len(Route.stops) \in Nat
          BY ScanFacts, RouteTypes DEF TypeOK
      <4> QED BY <1>4, <1>8, <4>1, ScanFacts
    <3>6. Route.trips[j].dep[ride.pos] # Route.trips[ride.trip].dep[ride.pos]
      <4>1. ~DepartureTie(Route)
          BY ScanFacts DEF Untied
      <4> QED BY <2>2, <3>2, <3>3, <3>5, <4>1 DEF DepartureTie
    <3>7. Route.trips[j].dep[ride.pos] \in Int /\ Route.trips[ride.trip].dep[ride.pos] \in Int
        BY <1>4, <2>2, <3>2
    <3>8. beat = Route.trips[ride.trip].dep[ride.pos]
        BY <3>1 DEF Riding
    <3> QED BY <3>4, <3>6, <3>7, <3>8
  <2>3. i \in catches
      BY <1>2, <1>4, <2>1, <2>2 DEF EarliestTrip
  <2> QED BY <1>4, <1>5, <1>7, <1>11, <2>3
<1> QED BY <1>4, <1>11, <1>12, <1>13, <1>14

LEMMA BoardThisAboard ==
    ASSUME FrontierInv, Untied, phase = "scan", queue # {}, ~Route.fifo,
           NEW r, r = [BoardThis EXCEPT !.pos = ride.pos + 1]
    PROVE  Aboard(r)
<1>1. /\ ride \in Ride /\ ride.pos \in Nat /\ \A a \in DOMAIN Route.stops : a \in Nat
      /\ Station # Never /\ ride.trip \in DOMAIN Route.trips /\ ride.trip \in Nat
  <2>1. Never \notin Stations
      BY TimetableAssumption DEF TimetableAssumption
  <2>2. \A a \in DOMAIN Route.stops : a \in Nat
      BY ScanFacts, RouteTypes DEF TypeOK
  <2> QED BY <2>1, <2>2, ScanFacts, ScanPlace DEF RideOK, Ride
<1>2. /\ r.pos = ride.pos + 1 /\ r.trip = ride.trip
      /\ r.from = IF /\ ride.from = Never /\ tau[k-1][Station] # Never
                     /\ Riding.dep[ride.pos] >= ReadyAt(k-1, Station)
                  THEN Station ELSE ride.from
    BY <1>1 DEF BoardThis, BoardRound, Ride
<1> SUFFICES ASSUME NEW a \in DOMAIN Route.stops, First(queue).pos <= a, a < ride.pos + 1,
                    CanRide(k-1, First(queue).route, ride.trip, a)
             PROVE  r.from # Never
    BY <1>1, <1>2 DEF Aboard
<1>3. CASE a < ride.pos
    BY <1>1, <1>2, <1>3, ScanFacts DEF Aboard
<1>4. CASE a = ride.pos
    BY <1>1, <1>2, <1>4, ScanFacts DEF CanRide, Riding
<1> QED BY <1>1, <1>3, <1>4

LEMMA ScanKeepsAboard ==
    ASSUME FrontierInv, Untied, phase = "scan", queue # {}, SearchInv', phase' = phase,
           Relabels, NEW r, r.pos \in Nat \ {0}, MoveTo(r),
           r.pos <= Len(Route.stops) => Aboard(r) /\ (Route.fifo /\ r.trip # 0 => r.from # Never)
    PROVE  AboardInv'
<1>1. /\ SearchInv /\ Searching /\ k \in 1..k /\ net' = net /\ k' = k
      /\ \A e, f \in queue : e.route = f.route => e = f
      /\ Len(Route.stops) \in Nat /\ DOMAIN Route.stops = 1..Len(Route.stops)
    BY ScanFacts, RouteTypes DEF TypeOK, AboardInv, Relabels, Frame
<1>2. CASE r.pos \in DOMAIN Route.stops /\ ride' = r /\ queue' = queue
  <2>1. First(queue)' = First(queue) /\ Route' = Route
      BY <1>1, <1>2 DEF First, Route
  <2>2. PICK n : n = First(queue).route
      OBVIOUS
  <2>3. \A i, a : CanRide(k-1, n, i, a)' <=> CanRide(k-1, n, i, a)
      BY <1>1, PastStays
  <2>4. Aboard(r) /\ (Route.fifo /\ r.trip # 0 => r.from # Never)
      BY <1>1, <1>2
  <2>5. Aboard(ride)'
      BY <1>1, <1>2, <2>1, <2>2, <2>3, <2>4 DEF Aboard
  <2> QED BY <1>1, <1>2, <2>1, <2>4, <2>5 DEF AboardInv
<1>3. CASE /\ ~Route.fifo /\ queue' = queue /\ ride'.pos = First(queue).pos
  <2>1. First(queue)' = First(queue) /\ Route' = Route
      BY <1>1, <1>3 DEF First, Route
  <2>2. First(queue).pos \in Nat /\ \A a \in DOMAIN Route.stops : a \in Nat
      BY <1>1, ScanFacts
  <2>3. Aboard(ride)'
      BY <1>3, <2>1, <2>2 DEF Aboard
  <2> QED BY <1>1, <1>3, <2>1, <2>3 DEF AboardInv
<1>4. CASE /\ queue' = queue \ {First(queue)}
           /\ queue' # {} =>
                /\ ride'.pos = First(queue').pos
                /\ ride'.trip = IF net.routes[First(queue').route].fifo THEN 0 ELSE 1
  <2>1. First(queue)' = First(queue') /\ Route' = net.routes[First(queue').route]
      BY <1>1 DEF First, Route
  <2>2. ASSUME queue' # {}
        PROVE  Aboard(ride)' /\ (Route.fifo /\ ride.trip # 0 => ride.from # Never)'
    <3>1. First(queue') \in queue
      <4>1. \A e \in queue' : e.route \in Nat
          BY <1>1, <1>4, ScanFacts, RouteTypes DEF TypeOK
      <4> QED BY <1>4, <2>2, <4>1, FirstInQueue
    <3>2. /\ First(queue').route \in DOMAIN net.routes
          /\ First(queue').pos \in DOMAIN net.routes[First(queue').route].stops
        BY <3>1, ScanFacts
    <3>3. \A a \in DOMAIN net.routes[First(queue').route].stops : a \in Nat
        BY <3>2, ScanFacts, RouteTypes DEF TypeOK
    <3>4. (Route.fifo /\ ride.trip # 0 => ride.from # Never)'
        BY <1>4, <2>1, <2>2
    <3>5. /\ ride'.pos = First(queue)'.pos /\ ride'.pos \in Nat
          /\ \A a \in DOMAIN Route'.stops : a \in Nat
        BY <1>4, <2>1, <2>2, <3>2, <3>3
    <3>6. Aboard(ride)'
        BY <3>5 DEF Aboard
    <3> QED BY <3>4, <3>6
  <2> QED BY <1>1, <1>4, <2>2 DEF AboardInv
<1> QED BY <1>1, <1>2, <1>3, <1>4, Moves

(* A scan leaves the labels that passengers set out with.                  *)
LEMMA ScanKeepsWalks ==
    ASSUME SearchInv, SearchInv', phase = "scan", phase' = phase, Relabels, WalksInv
    PROVE  WalksInv'
<1>1. /\ Searching /\ Searching' /\ TypeOK /\ TypeOK' /\ k \in Nat /\ WellFormed(net)
      /\ query' = query /\ net' = net /\ k' = k /\ preWalk' = preWalk
      /\ query.dep \in Int
    BY Types DEF SearchInv, TypeOK, Searching, Relabels, Frame
<1> SUFFICES ASSUME NEW r \in 0..k, NEW u \in Stations, SetOut(r, u)' # Never,
                    NEW w \in net.walks[u]
             PROVE  Covered(r, w.to, SetOut(r, u) + w.secs)'
    BY <1>1 DEF WalksInv
<1>2. PICK t : t = SetOut(r, u) + w.secs
    OBVIOUS
<1>3. SetOut(r, u)' = SetOut(r, u)
    BY <1>1 DEF SetOut
<1>4. w.to \in Stations /\ t \in Int
  <2>1. preWalk[r][u] = NoEntry \/ preWalk[r][u] \in Entry
      BY <1>1 DEF TypeOK
  <2>2. SetOut(r, u) \in Int /\ w.to \in Stations /\ w.secs \in Nat
      BY <1>1, <1>3, <2>1 DEF SetOut, Entry, WellFormed
  <2> QED BY <1>2, <2>2
<1>5. Covered(r, w.to, t)
    BY <1>2, <1>3 DEF WalksInv
<1>6. Covered(r, w.to, t)'
    BY <1>1, <1>4, <1>5, CoveredStays
<1> QED BY <1>2, <1>3, <1>6

LEMMA ScansFrontier ==
    ASSUME FrontierInv, Untied, ScanStop \/ ScanTripStop
    PROVE  RidesInv' /\ PendingInv' /\ AboardInv' /\ WalksInv' /\ NewsInv' /\ TimesInv'
<1>1. /\ phase = "scan" /\ queue # {} /\ phase' = phase /\ Frame /\ net' = net
      /\ SearchInv' /\ TypeOK' /\ Searching'
  <2>1. SearchInv'
      BY ScanStopKeeps, ScanTripStopKeeps DEF FrontierInv, JournalInv
  <2> QED BY <2>1 DEF ScanStop, ScanTripStop, Frame, liveVars, inputVars, SearchInv, Searching
<1>2. /\ Searching /\ SearchInv /\ RidesInv /\ NewsInv /\ TimesInv /\ WalksInv /\ k >= 1
      /\ preWalk[k] = NoEntries
      /\ ride \in Ride /\ ride.pos \in Nat /\ Len(Route.stops) \in Nat /\ ride.trip \in Nat
    BY <1>1, ScanFacts, ScanPlace DEF MadeInv, Ride
<1>3. Alight \/ UNCHANGED <<labelVars, improved>>
    BY DEF ScanStop, ScanTripStop
<1>4. Relabels
    BY <1>1, <1>3, AlightRelabels
<1>5. \A s, t : Alight /\ s = Station /\ t = Riding.arr[ride.pos] /\ ride.from # Never
                => Covered(k, s, t)'
    BY <1>1, <1>3, AlightRelabels
<1>6. PendingInv' /\ AboardInv'
  <2>1. CASE ScanStop
    <3>1. PICK r : r = [BoardEarlier EXCEPT !.pos = ride.pos + 1]
        OBVIOUS
    <3>2. Route.fifo /\ Alight /\ MoveTo(r)
        BY <2>1, <3>1 DEF ScanStop
    <3>3. r.pos = ride.pos + 1
        BY <1>2, <3>1 DEF BoardEarlier, Ride
    <3>4. r.pos <= Len(Route.stops) => Aboard(r) /\ (Route.fifo /\ r.trip # 0 => r.from # Never)
        BY <1>1, <3>1, <3>2, BoardEarlierAboard
    <3>5. r.pos \in Nat \ {0}
        BY <1>2, <3>3
    <3>6. PendingInv'
        BY <1>1, <1>4, <1>5, <3>2, <3>3, <3>5, ScanKeepsPending
    <3>7. AboardInv'
        BY <1>1, <1>4, <3>2, <3>4, <3>5, ScanKeepsAboard
    <3> QED BY <3>6, <3>7
  <2>2. CASE ScanTripStop /\ TripUsable(Riding)
    <3>1. PICK r : r = [BoardThis EXCEPT !.pos = ride.pos + 1]
        OBVIOUS
    <3>2. ~Route.fifo /\ Alight /\ MoveTo(r)
        BY <2>2, <3>1 DEF ScanTripStop
    <3>3. r.pos = ride.pos + 1 /\ r.trip = ride.trip
        BY <1>2, <3>1 DEF BoardThis, Ride
    <3>4. Aboard(r)
        BY <1>1, <3>1, <3>2, BoardThisAboard
    <3>5. r.pos \in Nat \ {0}
        BY <1>2, <3>3
    <3>6. PendingInv'
        BY <1>1, <1>4, <1>5, <3>2, <3>3, <3>5, ScanKeepsPending
    <3>7. AboardInv'
        BY <1>1, <1>4, <3>2, <3>4, <3>5, ScanKeepsAboard
    <3> QED BY <3>6, <3>7
  <2>3. CASE ScanTripStop /\ ~TripUsable(Riding)
    <3>1. PICK r : r = [ride EXCEPT !.pos = Len(Route.stops) + 1]
        OBVIOUS
    <3>2. ~Route.fifo /\ MoveTo(r)
        BY <2>3, <3>1 DEF ScanTripStop
    <3>3. r.pos = Len(Route.stops) + 1 /\ r.trip = ride.trip /\ r.pos \in Nat \ {0}
        BY <1>2, <3>1 DEF Ride
    <3>4. PendingInv'
        BY <1>1, <1>4, <2>3, <3>2, <3>3, ScanKeepsPending
    <3>5. ~(r.pos <= Len(Route.stops))
        BY <1>2, <3>3
    <3>6. AboardInv'
        BY <1>1, <1>4, <3>2, <3>3, <3>5, ScanKeepsAboard
    <3> QED BY <3>4, <3>6
  <2> QED BY <2>1, <2>2, <2>3
<1>7. RidesInv' /\ NewsInv' /\ TimesInv'
    BY <1>1, <1>2, <1>4, RelabelsKeepRides, RelabelsKeepNews, RelabelsKeepTimes
<1>8. WalksInv'
    BY <1>1, <1>2, <1>4, ScanKeepsWalks
<1> QED BY <1>6, <1>7, <1>8

(* The queue is empty: every ride has been tried, and whoever got off a    *)
(* vehicle sets out on foot.                                               *)
LEMMA EndScanFrontier ==
    ASSUME FrontierInv, Untied, EndScan
    PROVE  RidesInv' /\ PendingInv' /\ AboardInv' /\ WalksInv' /\ NewsInv' /\ TimesInv'
<1>1. /\ phase = "scan" /\ queue = {} /\ phase' = "walk" /\ Searching /\ SearchInv /\ TypeOK
      /\ RidesInv /\ PendingInv /\ WalksInv /\ NewsInv /\ TimesInv
      /\ \A s \in improved : journal[k][s].kind = "transit"
      /\ UNCHANGED <<query, net, signals, k, tau, journal, improved>>
    BY DEF EndScan, FrontierInv, JournalInv, SearchInv, Searching, MadeInv, labelVars, inputVars
<1>2. /\ k \in Nat /\ k >= 1 /\ k \in 1..k /\ k \in 0..k /\ k-1 \in 0..k
      /\ improved \subseteq Stations /\ WellFormed(net) /\ query.dest \in Stations
      /\ \A r \in 0..k : \A s \in Stations :
           /\ tau[r][s] \in Int \cup {Never}
           /\ journal[r][s] = NoEntry \/ journal[r][s] \in Entry
      /\ Never \notin Int
    BY <1>1, Types DEF SearchInv, TypeOK, ScanInv
<1>3. /\ walks' = FootpathsFrom(net, improved, tau[k])
      /\ \A r \in 0..k-1 : preWalk'[r] = preWalk[r]
      /\ preWalk'[k] = KeptEntries
  <2>1. preWalk \in [0..k -> [Stations -> Entry \cup {NoEntry}]]
      BY <1>1 DEF TypeOK
  <2> QED BY <1>2, <2>1 DEF EndScan
<1>4. \A r \in 1..k-1 : \A u : SetOut(r, u)' = SetOut(r, u)
    BY <1>1, <1>2, <1>3 DEF SetOut
<1>5. \A u : SetOut(0, u)' = SetOut(0, u)
    BY <1>1 DEF SetOut
<1>6. \A s \in improved : /\ News(k, s, journal[k][s]) /\ journal[k][s] # NoEntry
                          /\ journal[k][s] \in Entry /\ journal[k][s].arr = tau[k][s]
                          /\ journal[k][s].kind = "transit"
    BY <1>1, <1>2 DEF NewsInv, News, SearchInv, LabelsJustified
<1>7. \A s \in Stations :
        /\ preWalk'[k][s] = IF s \in improved /\ net.walks[s] # {} THEN journal[k][s] ELSE NoEntry
        /\ SetOut(k, s)' = IF s \in improved /\ net.walks[s] # {} THEN tau[k][s] ELSE Never
    BY <1>1, <1>2, <1>3, <1>6 DEF SetOut, KeptEntries
<1>8. ASSUME NEW s \in Stations, s \notin improved
      PROVE  Carried(k, s) /\ ~WalkedIn(k, s)
  <2>1. Carried(k, s)
      BY <1>1, <1>2, <1>8 DEF NewsInv
  <2>2. journal[k-1][s].kind = "walk" => journal[k-1][s].fromRound <= k-1
      BY <1>1, <1>2 DEF SearchInv, LabelsJustified
  <2> QED BY <1>2, <2>1, <2>2 DEF Carried, WalkedIn
<1>9. RidesInv'
  <2> SUFFICES ASSUME NEW r \in 1..k,
                      NEW n \in DOMAIN net.routes, NEW i \in DOMAIN net.routes[n].trips,
                      NEW a \in DOMAIN net.routes[n].stops, NEW b \in DOMAIN net.routes[n].stops,
                      a < b, CanRide(r-1, n, i, a)'
               PROVE  RideCovered(r, net.routes[n].stops[b], net.routes[n].trips[i].arr[b])'
      BY <1>1 DEF RidesInv
  <2>0. CanRide(r-1, n, i, a)
      BY <1>1 DEF CanRide, TripUsable, Allowed, CanBoard, ReadyAt
  <2>1. net.routes[n].stops[b] \in Stations /\ net.routes[n].trips[i].arr[b] \in Int
      BY <1>2, RouteTypes
  <2>2. PICK s, t : s = net.routes[n].stops[b] /\ t = net.routes[n].trips[i].arr[b]
      OBVIOUS
  <2>3. CASE r < k
    <3>1. RideCovered(r, s, t)
        BY <2>0, <2>2, <2>3, <1>1 DEF RidesInv
    <3>2. SetOut(r, s)' = SetOut(r, s)
        BY <1>2, <1>4, <2>3
    <3>3. RideCovered(r, s, t)'
        BY <1>1, <3>1, <3>2 DEF RideCovered, Reached, WalkedIn
    <3> QED BY <1>1, <2>2, <3>3
  <2>4. CASE r = k
    <3>1. Covered(k, s, t)
        BY <1>1, <2>0, <2>2, <2>4 DEF PendingInv, Pending
    <3>2. CASE Reached(k, query.dest, t)
        BY <1>1, <2>2, <2>4, <3>2 DEF RideCovered, Reached
    <3>3. CASE Reached(k, s, t) /\ s \in improved
      <4>1. ~WalkedIn(k, s)
          BY <1>6, <3>3 DEF WalkedIn
      <4>2. net.walks[s] = {} \/ (SetOut(k, s)' = tau[k][s] /\ tau[k][s] # Never /\ tau[k][s] <= t)
          BY <1>7, <2>1, <2>2, <3>3 DEF Reached
      <4> QED BY <1>1, <2>2, <2>4, <3>3, <4>1, <4>2 DEF RideCovered, Reached, WalkedIn
    <3>4. CASE Reached(k, s, t) /\ s \notin improved
      <4>1. Carried(k, s) /\ ~WalkedIn(k, s)
          BY <1>8, <2>1, <2>2, <3>4
      <4>2. Reached(k-1, s, t)
          BY <3>4, <4>1 DEF Carried, Reached
      <4> QED BY <1>1, <2>2, <2>4, <3>4, <4>1, <4>2 DEF RideCovered, Reached, WalkedIn
    <3> QED BY <3>1, <3>2, <3>3, <3>4 DEF Covered
  <2> QED BY <1>2, <2>3, <2>4
<1>10. PendingInv' /\ AboardInv'
    BY <1>1 DEF PendingInv, AboardInv
<1>11. ASSUME NEW w \in walks'
       PROVE  w.depart = SetOut(k, w.from)'
  <2>1. PICK s \in improved : \E x \in net.walks[s] :
            w = [from |-> s, depart |-> tau[k][s], to |-> x.to, secs |-> x.secs]
      BY <1>3, <1>11 DEF FootpathsFrom
  <2> QED BY <1>2, <1>7, <2>1
<1>12. ASSUME NEW r \in 0..k, NEW u \in Stations, SetOut(r, u)' # Never, NEW w \in net.walks[u]
       PROVE  \/ Covered(r, w.to, SetOut(r, u) + w.secs)'
              \/ /\ r = k
                 /\ [from |-> u, depart |-> SetOut(r, u), to |-> w.to, secs |-> w.secs]' \in walks'
  <2>1. CASE r = k
    <3>0. SetOut(r, u)' = SetOut(k, u)'
        BY <1>1, <2>1 DEF SetOut
    <3>1. u \in improved /\ SetOut(r, u)' = tau[k][u]
        BY <1>7, <1>12, <3>0
    <3>2. [from |-> u, depart |-> tau[k][u], to |-> w.to, secs |-> w.secs] \in walks'
        BY <1>3, <3>1 DEF FootpathsFrom
    <3> QED BY <2>1, <3>1, <3>2
  <2>2. CASE r < k
    <3>1. SetOut(r, u)' = SetOut(r, u)
        BY <1>2, <1>4, <1>5, <2>2
    <3>2. Covered(r, w.to, SetOut(r, u) + w.secs)
        BY <1>1, <1>12, <2>2, <3>1 DEF WalksInv
    <3> QED BY <1>1, <3>1, <3>2 DEF Covered, Reached
  <2> QED BY <1>2, <2>1, <2>2
<1>13. WalksInv'
    BY <1>1, <1>11, <1>12 DEF WalksInv
<1>14. ASSUME NEW r \in 1..k, NEW s \in Stations PROVE NewsOf(r, s)'
  <2>1. NewsOf(r, s)
      BY <1>1 DEF NewsInv
  <2>2. CASE r < k
    <3>1. preWalk'[r] = preWalk[r] /\ \A u : SetOut(r, u)' = SetOut(r, u)
        BY <1>2, <1>3, <1>4, <2>2
    <3> QED BY <1>1, <2>1, <3>1 DEF NewsOf, News, Carried, WalkedIn
  <2>3. CASE r = k /\ s \in improved
      BY <1>1, <1>6, <1>7, <2>3 DEF NewsOf, News
  <2>4. CASE r = k /\ s \notin improved
      BY <1>1, <1>7, <1>8, <2>4 DEF NewsOf, Carried
  <2> QED BY <1>2, <2>2, <2>3, <2>4
<1>15. NewsInv'
  <2>1. \A s \in Stations : IF s \in improved THEN News(k, s, journal[k][s])' ELSE Carried(k, s)'
      BY <1>1, <1>6, <1>8 DEF News, Carried
  <2> QED BY <1>1, <1>2, <1>14, <2>1 DEF NewsInv, WalkedIn
<1>16. TimesInv'
    BY <1>1 DEF TimesInv
<1> QED BY <1>9, <1>10, <1>13, <1>15, <1>16

(***************************************************************************)
(* Rounds                                                                  *)
(***************************************************************************)

(* Routes of the queue start at or before any marked stop of theirs. *)
LEMMA QueueTakesAll ==
    ASSUME WellFormed(net), NEW marked, NEW n \in DOMAIN net.routes,
           NEW a \in DOMAIN net.routes[n].stops, net.routes[n].stops[a] \in marked
    PROVE  \E e \in RouteQueue(marked) : e.route = n /\ e.pos <= a
<1> DEFINE stopsAt(r) == {p \in DOMAIN net.routes[r].stops : net.routes[r].stops[p] \in marked}
<1>1. a \in stopsAt(n) /\ stopsAt(n) \in SUBSET Nat
    BY RouteTypes
<1>2. [route |-> n, pos |-> Min(stopsAt(n))] \in RouteQueue(marked)
    BY <1>1 DEF RouteQueue
<1> HIDE DEF stopsAt
<1>3. Min(stopsAt(n)) <= a
    BY <1>1, MinIsLeast
<1> QED BY <1>2, <1>3

LEMMA QueueOnce ==
    ASSUME NEW marked, NEW e \in RouteQueue(marked), NEW f \in RouteQueue(marked),
           e.route = f.route
    PROVE  e = f
<1> DEFINE stopsAt(r) == {p \in DOMAIN net.routes[r].stops : net.routes[r].stops[p] \in marked}
<1>1. ASSUME NEW x \in RouteQueue(marked)
      PROVE  x = [route |-> x.route, pos |-> Min(stopsAt(x.route))]
  <2>1. PICK r \in DOMAIN net.routes : x = [route |-> r, pos |-> Min(stopsAt(r))]
      BY <1>1 DEF RouteQueue
  <2>2. x.route = r
      BY <2>1
  <2> QED BY <2>1, <2>2
<1> QED BY <1>1

LEMMA NextRoundFrontier ==
    ASSUME FrontierInv, Untied, NextRound
    PROVE  RidesInv' /\ PendingInv' /\ AboardInv' /\ WalksInv' /\ NewsInv' /\ TimesInv'
<1>1. /\ phase = "walk" /\ walks = {} /\ phase' = "scan" /\ Searching /\ SearchInv /\ TypeOK
      /\ RidesInv /\ WalksInv /\ NewsInv /\ TimesInv
      /\ UNCHANGED <<query, net, signals>> /\ k' = k + 1
      /\ queue' = RouteQueue(improved) /\ ride' = RideOn(queue') /\ improved' = {}
    BY DEF NextRound, RoundOver, FrontierInv, JournalInv, SearchInv, Searching, inputVars
<1>2. /\ k \in Nat /\ WellFormed(net) /\ query.dest \in Stations
      /\ \A r \in 0..k : \A s \in Stations :
           /\ tau[r][s] \in Int \cup {Never}
           /\ journal[r][s] = NoEntry \/ journal[r][s] \in Entry
      /\ Never \notin Int
    BY <1>1, Types DEF SearchInv, TypeOK
<1>3. /\ \A r \in 0..k : tau'[r] = tau[r] /\ journal'[r] = journal[r] /\ preWalk'[r] = preWalk[r]
      /\ tau'[k+1] = tau[k] /\ journal'[k+1] = journal[k] /\ preWalk'[k+1] = NoEntries
  <2>1. /\ tau' = [r \in 0..k+1 |-> IF r <= k THEN tau[r] ELSE tau[k]]
        /\ journal' = [r \in 0..k+1 |-> IF r <= k THEN journal[r] ELSE journal[k]]
        /\ preWalk' = [r \in 0..k+1 |-> IF r <= k THEN preWalk[r] ELSE NoEntries]
      BY DEF NextRound
  <2> QED BY <1>2, <2>1
<1>4. ASSUME NEW r \in 0..k
      PROVE  /\ \A n, i, a : CanRide(r, n, i, a)' <=> CanRide(r, n, i, a)
             /\ \A u : SetOut(r, u)' = SetOut(r, u)
             /\ \A s, t : Covered(r, s, t)' <=> Covered(r, s, t)
  <2>1. tau'[r] = tau[r] /\ journal'[r] = journal[r] /\ preWalk'[r] = preWalk[r]
      BY <1>3
  <2> QED BY <1>1, <2>1 DEF CanRide, TripUsable, Allowed, CanBoard, ReadyAt, SetOut, Covered, Reached
<1>5. RidesInv'
  <2> SUFFICES ASSUME NEW r \in 1..k,
                      NEW n \in DOMAIN net.routes, NEW i \in DOMAIN net.routes[n].trips,
                      NEW a \in DOMAIN net.routes[n].stops, NEW b \in DOMAIN net.routes[n].stops,
                      a < b, CanRide(r-1, n, i, a)'
               PROVE  RideCovered(r, net.routes[n].stops[b], net.routes[n].trips[i].arr[b])'
      BY <1>1, <1>2 DEF RidesInv
  <2>0. CanRide(r-1, n, i, a)
    <3>1. r-1 \in 0..k
        BY <1>2
    <3> QED BY <1>4, <3>1
  <2>1. PICK s, t : s = net.routes[n].stops[b] /\ t = net.routes[n].trips[i].arr[b]
      OBVIOUS
  <2>2. RideCovered(r, s, t)
      BY <1>1, <2>0, <2>1 DEF RidesInv
  <2>3. /\ SetOut(r, s)' = SetOut(r, s) /\ tau'[r] = tau[r] /\ tau'[r-1] = tau[r-1]
        /\ journal'[r] = journal[r]
      BY <1>2, <1>3, <1>4
  <2>4. RideCovered(r, s, t)'
      BY <1>1, <2>2, <2>3 DEF RideCovered, Reached, WalkedIn
  <2> QED BY <1>1, <2>1, <2>4
<1>6. ASSUME queue' # {}
      PROVE  /\ First(queue)' \in queue' /\ Route' = net.routes[First(queue').route]
             /\ First(queue').route \in DOMAIN net.routes
             /\ First(queue)' = First(queue') /\ First(queue').pos \in Nat
             /\ \A a \in DOMAIN Route'.stops : a \in Nat
             /\ ride'.pos = First(queue').pos
             /\ ride'.trip = IF net.routes[First(queue').route].fifo THEN 0 ELSE 1
  <2>1. QueueOK(queue')
      BY <1>1, <1>2, RouteQueueOK
  <2>2. First(queue') \in queue'
    <3>1. \A e \in queue' : e.route \in Nat
        BY <1>2, <2>1, RouteTypes DEF QueueOK
    <3> QED BY <1>6, <3>1, FirstInQueue
  <2>3. /\ First(queue').route \in DOMAIN net.routes
        /\ First(queue').pos \in DOMAIN net.routes[First(queue').route].stops
      BY <2>1, <2>2 DEF QueueOK
  <2>4. \A a \in DOMAIN net.routes[First(queue').route].stops : a \in Nat
      BY <1>2, <2>3, RouteTypes
  <2>5. First(queue)' = First(queue') /\ Route' = net.routes[First(queue').route]
      BY <1>1 DEF First, Route
  <2>6. PICK f, x : f = First(queue') /\ x = net.routes[First(queue').route].fifo
      OBVIOUS
  <2>7. ride' = [NoRide EXCEPT !.pos = f.pos, !.trip = IF x THEN 0 ELSE 1]
      BY <1>1, <1>6, <2>6 DEF RideOn
  <2>8. ride'.pos = f.pos /\ ride'.trip = IF x THEN 0 ELSE 1
      BY <2>7 DEF NoRide
  <2> QED BY <2>2, <2>3, <2>4, <2>5, <2>6, <2>8
<1>7. ASSUME NEW n \in DOMAIN net.routes, NEW i \in DOMAIN net.routes[n].trips,
             NEW a \in DOMAIN net.routes[n].stops, NEW b \in DOMAIN net.routes[n].stops,
             a < b, CanRide(k, n, i, a),
             NEW s, s = net.routes[n].stops[b], NEW t, t = net.routes[n].trips[i].arr[b]
      PROVE  Covered(k, s, t) \/ Pending(n, i, a, b)'
  <2>1. /\ net.routes[n].stops[a] \in Stations /\ a \in Nat /\ b \in Nat /\ i \in Nat /\ i >= 1
      BY <1>2, RouteTypes
  <2>2. CASE net.routes[n].stops[a] \in improved
    <3>1. PICK e \in queue' : e.route = n /\ e.pos <= a
        BY <1>1, <1>2, <2>2, QueueTakesAll
    <3>2. CASE e = First(queue')
      <4>1. Route' = net.routes[n] /\ ride'.pos = e.pos /\ e.pos \in Nat
            /\ ride'.trip = IF net.routes[n].fifo THEN 0 ELSE 1
          BY <1>6, <3>1, <3>2
      <4>2. b >= ride'.pos
          BY <1>7, <2>1, <3>1, <4>1
      <4>3. ~Route'.fifo => i > ride'.trip \/ i = ride'.trip
          BY <2>1, <4>1
      <4> QED BY <3>1, <4>2, <4>3 DEF Pending
    <3>3. CASE e # First(queue')
      <4>1. First(queue)' = First(queue')
          BY DEF First
      <4> QED BY <3>1, <3>3, <4>1 DEF Pending
    <3> QED BY <3>2, <3>3
  <2>3. CASE net.routes[n].stops[a] \notin improved
    <3>1. k >= 1 /\ Carried(k, net.routes[n].stops[a])
        BY <1>1, <1>2, <1>7, <2>1, <2>3 DEF NewsInv, CanRide
    <3>2. CanRide(k-1, n, i, a)
        BY <1>7, <3>1 DEF CanRide, Carried, ReadyAt
    <3>3. RideCovered(k, s, t)
        BY <1>1, <1>2, <1>7, <3>1, <3>2 DEF RidesInv
    <3> QED BY <3>3 DEF RideCovered, Covered
  <2> QED BY <2>2, <2>3
<1>8. PendingInv'
  <2> SUFFICES ASSUME NEW n \in DOMAIN net.routes, NEW i \in DOMAIN net.routes[n].trips,
                      NEW a \in DOMAIN net.routes[n].stops, NEW b \in DOMAIN net.routes[n].stops,
                      a < b, CanRide(k-1, n, i, a)',
                      NEW s, s = net.routes[n].stops[b], NEW t, t = net.routes[n].trips[i].arr[b]
               PROVE  Covered(k, s, t)' \/ Pending(n, i, a, b)'
      BY <1>1 DEF PendingInv
  <2>1. CanRide(k, n, i, a)
    <3>1. k' - 1 = k /\ k \in 0..k
        BY <1>1, <1>2
    <3>2. PICK j : j = k
        OBVIOUS
    <3>3. CanRide(j, n, i, a)'
        BY <3>1, <3>2 DEF CanRide, ReadyAt
    <3> QED BY <1>4, <3>1, <3>2, <3>3
  <2>2. Covered(k, s, t) => Covered(k, s, t)'
      BY <1>1, <1>3 DEF Covered, Reached
  <2> QED BY <1>7, <2>1, <2>2
<1>9. AboardInv'
  <2>1. ASSUME queue' # {} PROVE Aboard(ride)'
      BY <1>6, <2>1 DEF Aboard
  <2>2. \A e, f \in queue' : e.route = f.route => e = f
      BY <1>1, QueueOnce
  <2> QED BY <1>6, <2>1, <2>2 DEF AboardInv
<1>10. WalksInv'
  <2> SUFFICES ASSUME NEW r \in 0..k+1, NEW u \in Stations, SetOut(r, u)' # Never,
                      NEW w \in net.walks[u]
               PROVE  Covered(r, w.to, SetOut(r, u) + w.secs)'
      BY <1>1 DEF WalksInv
  <2>1. r # k+1
      BY <1>2, <1>3 DEF SetOut, NoEntries
  <2>2. r \in 0..k
      BY <1>2, <2>1
  <2>3. PICK s, t : s = w.to /\ t = SetOut(r, u) + w.secs
      OBVIOUS
  <2>4. SetOut(r, u)' = SetOut(r, u)
      BY <1>4, <2>2
  <2>5. Covered(r, s, t)
      BY <1>1, <2>2, <2>3, <2>4 DEF WalksInv
  <2>6. Covered(r, s, t)'
      BY <1>4, <2>2, <2>5
  <2> QED BY <2>3, <2>4, <2>6
<1>11. NewsInv'
  <2>1. ASSUME NEW r \in 1..k, NEW s \in Stations PROVE NewsOf(r, s)'
    <3>1. NewsOf(r, s)
        BY <1>1 DEF NewsInv
    <3>2. /\ \A u : SetOut(r, u)' = SetOut(r, u)
          /\ tau'[r] = tau[r] /\ journal'[r] = journal[r] /\ preWalk'[r] = preWalk[r]
          /\ tau'[r-1] = tau[r-1] /\ journal'[r-1] = journal[r-1]
        BY <1>2, <1>3, <1>4
    <3> QED BY <1>1, <3>1, <3>2 DEF NewsOf, News, Carried, WalkedIn
  <2>2. ASSUME NEW s \in Stations PROVE Carried(k, s)' /\ NewsOf(k, s)'
    <3>1. k' - 1 = k /\ tau'[k] = tau[k] /\ journal'[k] = journal[k]
        BY <1>1, <1>2, <1>3
    <3> QED BY <1>1, <1>3, <3>1 DEF NewsOf, Carried, NoEntries
  <2>3. k' = k+1 /\ k' # 0 /\ \A r \in 1..k' : r \in 1..k \/ r = k'
      BY <1>1, <1>2
  <2>4. \A s \in Stations : journal'[0][s] = journal[0][s]
      BY <1>2, <1>3
  <2>5. ASSUME NEW r \in 1..k', NEW s \in Stations PROVE NewsOf(r, s)'
    <3>1. CASE r \in 1..k
        BY <2>1, <3>1
    <3>2. CASE r = k'
        BY <2>2, <3>2 DEF NewsOf, Carried, News, WalkedIn, SetOut
    <3> QED BY <2>3, <3>1, <3>2
  <2> QED BY <1>1, <2>2, <2>3, <2>4, <2>5 DEF NewsInv, WalkedIn
<1>12. TimesInv'
  <2>1. \A r \in 0..k+1 : \E q \in 0..k : tau'[r] = tau[q] /\ journal'[r] = journal[q]
    <3>1. \A r \in 0..k+1 : r \in 0..k \/ r = k+1
        BY <1>2
    <3> QED BY <1>2, <1>3, <3>1
  <2> QED BY <1>1, <2>1 DEF TimesInv
<1> QED BY <1>5, <1>8, <1>9, <1>10, <1>11, <1>12

(***************************************************************************)
(* The invariant holds                                                     *)
(***************************************************************************)

LEMMA SearchFrontier ==
    ASSUME FrontierInv, Search, phase' = "walk"
    PROVE  RidesInv' /\ PendingInv' /\ AboardInv' /\ WalksInv' /\ NewsInv' /\ TimesInv'
<1>1. /\ k = 0 /\ k' = 0 /\ net' = liveRoutes /\ query' = query /\ WellFormed(net')
      /\ query.origin \in Stations /\ query.dep \in Int /\ Never \notin Int
      /\ best' = [NoLabels EXCEPT ![query.origin] = query.dep]
      /\ tau' = [r \in {0} |-> best'] /\ journal' = [r \in {0} |-> NoEntries]
      /\ improved' = {query.origin}
      /\ walks' = FootpathsFrom(liveRoutes, {query.origin}, best')
  <2>1. k = 0 /\ query \in Queries /\ WellFormed(liveRoutes)
      BY DEF Search, FrontierInv, JournalInv, SearchInv, TypeOK, CurrentInv
  <2> QED BY <2>1, RaptorAssumption, TimetableAssumption
          DEF Search, RaptorAssumption, TimetableAssumption
<1>2. /\ tau'[0] = best' /\ journal'[0] = NoEntries
      /\ best'[query.origin] = query.dep
      /\ \A s \in Stations : best'[s] # Never => s = query.origin
    BY <1>1 DEF NoLabels
<1>3. RidesInv' /\ PendingInv' /\ AboardInv'
    BY <1>1 DEF RidesInv, PendingInv, AboardInv
<1>4. WalksInv'
  <2>1. ASSUME NEW w \in walks' PROVE w.from = query.origin /\ w.depart = query.dep
    <3>1. PICK x \in liveRoutes.walks[query.origin] :
              w = [from |-> query.origin, depart |-> best'[query.origin], to |-> x.to,
                   secs |-> x.secs]
        BY <1>1, <2>1 DEF FootpathsFrom
    <3> QED BY <1>2, <3>1
  <2>2. \A w \in liveRoutes.walks[query.origin] :
          [from |-> query.origin, depart |-> query.dep, to |-> w.to, secs |-> w.secs] \in walks'
      BY <1>1, <1>2 DEF FootpathsFrom
  <2>3. \A u : SetOut(0, u)' = IF u = query.origin THEN query.dep ELSE Never
      BY <1>1 DEF SetOut
  <2>4. \A w \in walks' : w.depart = SetOut(k, w.from)'
      BY <1>1, <2>1, <2>3 DEF SetOut
  <2>5. ASSUME NEW r \in 0..0, NEW u \in Stations, SetOut(r, u)' # Never, NEW w \in liveRoutes.walks[u]
        PROVE  /\ r = k'
               /\ [from |-> u, depart |-> SetOut(r, u), to |-> w.to, secs |-> w.secs]' \in walks'
    <3>1. r = 0
        OBVIOUS
    <3>2. u = query.origin /\ SetOut(r, u)' = query.dep
        BY <2>3, <2>5, <3>1
    <3> QED BY <1>1, <2>2, <2>5, <3>1, <3>2
  <2> QED BY <1>1, <2>4, <2>5 DEF WalksInv
<1>5. NewsInv' /\ TimesInv'
    BY <1>1, <1>2 DEF NewsInv, TimesInv, NoEntries
<1> QED BY <1>3, <1>4, <1>5

LEMMA OthersFrontier ==
    ASSUME FrontierInv, Untied', Searching',
           Cancel \/ Finish \/ SwapRoutes \/ SwapSignals \/ UNCHANGED vars
    PROVE  RidesInv' /\ PendingInv' /\ AboardInv' /\ WalksInv' /\ NewsInv' /\ TimesInv'
<1>1. UNCHANGED <<query, net, signals, phase, k, tau, journal, preWalk, improved, queue, ride, walks>>
    BY DEF Cancel, Finish, SwapRoutes, SwapSignals, Publish, vars, inputVars, labelVars, loopVars,
           Searching
<1>2. Searching /\ Untied
    BY <1>1 DEF Searching, Untied
<1>3. /\ \A r, n, i, a : CanRide(r, n, i, a)' <=> CanRide(r, n, i, a)
      /\ \A r, s, t : RideCovered(r, s, t)' <=> RideCovered(r, s, t)
      /\ \A r, s, t : Covered(r, s, t)' <=> Covered(r, s, t)
      /\ \A r, u : SetOut(r, u)' = SetOut(r, u)
      /\ \A r, s : NewsOf(r, s)' <=> NewsOf(r, s)
      /\ \A r, s, e : News(r, s, e)' <=> News(r, s, e)
    BY <1>1 DEF CanRide, TripUsable, Allowed, CanBoard, ReadyAt, RideCovered, Reached, WalkedIn,
                SetOut, Covered, NewsOf, News, Carried
<1>4. RidesInv' /\ WalksInv' /\ NewsInv' /\ TimesInv'
    BY <1>1, <1>2, <1>3 DEF FrontierInv, RidesInv, WalksInv, NewsInv, TimesInv, WalkedIn, Carried
<1>5. (PendingInv <=> PendingInv') /\ (AboardInv <=> AboardInv')
  <2>1. First(queue)' = First(queue) /\ Route' = Route
      BY <1>1 DEF Route, First
  <2>2. PICK j, m : j = k - 1 /\ m = First(queue).route
      OBVIOUS
  <2>3. \A i, a : CanRide(j, m, i, a)' <=> CanRide(j, m, i, a)
      BY <1>3
  <2>4. Aboard(ride)' <=> Aboard(ride)
      BY <1>1, <2>1, <2>2, <2>3 DEF Aboard
  <2>5. \A n, i, a, b : Pending(n, i, a, b)' <=> Pending(n, i, a, b)
      BY <1>1, <2>1 DEF Pending
  <2> QED BY <1>1, <1>3, <2>1, <2>4, <2>5 DEF PendingInv, AboardInv
<1> QED BY <1>2, <1>4, <1>5 DEF FrontierInv

LEMMA NextKeepsFrontier ==
    ASSUME \A n \in NewTimetables : Measured(n) /\ TravelsForward(n),
           FrontierInv, JournalInv', [Next]_vars
    PROVE  FrontierInv'
<1>1. (net' = net \/ net' = liveRoutes) /\ (liveRoutes' = liveRoutes \/ liveRoutes' \in NewTimetables)
    BY DEF Next, SearchStep, Search, WalkFootpath, NextRound, Cancel, ScanStop, ScanTripStop,
           EndScan, Finish, SwapRoutes, SwapSignals, Publish, liveVars, inputVars, vars
<1>2. NetInv'
    BY <1>1 DEF FrontierInv, NetInv
<1>3. ASSUME Searching', Untied'
      PROVE  RidesInv' /\ PendingInv' /\ AboardInv' /\ WalksInv' /\ NewsInv' /\ TimesInv'
  <2>1. CASE Search
    <3>1. phase' = "walk"
        BY <1>3, <2>1 DEF Search, Searching
    <3> QED BY <2>1, <3>1, SearchFrontier
  <2>2. CASE Cancel \/ Finish \/ SwapRoutes \/ SwapSignals \/ UNCHANGED vars
      BY <1>3, <2>2, OthersFrontier
  <2>3. CASE WalkFootpath \/ NextRound \/ ScanStop \/ ScanTripStop \/ EndScan
    <3>1. Untied
        BY <1>3, <2>3 DEF WalkFootpath, NextRound, ScanStop, ScanTripStop, EndScan, inputVars, Untied
    <3>2. CASE WalkFootpath
      <4>1. phase' = "walk"
          BY <3>2 DEF WalkFootpath
      <4> QED BY <3>1, <3>2, <4>1, WalkFootpathFrontier DEF PendingInv, AboardInv
    <3> QED BY <2>3, <3>1, <3>2, NextRoundFrontier, ScansFrontier, EndScanFrontier
  <2> QED BY <2>1, <2>2, <2>3 DEF Next, SearchStep
<1> QED BY <1>2, <1>3 DEF FrontierInv

(* Every buffer that is published comes from a reload, and no vehicle in   *)
(* it arrives before it has left.  The gate before the database only looks *)
(* at each stop's own times and at the order of the departures             *)
(* (ingestion.go:23-57), so the second half is asked of the data.          *)
ReloadedForward ==
    \A n \in Timetables \cup NewTimetables :
        TravelsForward(n) /\ \E db : n = ReloadRouteArrays(db)

LEMMA LoadedIsMeasured ==
    ASSUME ReloadedForward, NEW n \in Timetables \cup NewTimetables
    PROVE  Measured(n) /\ TravelsForward(n)
<1>1. PICK db : n = ReloadRouteArrays(db)
    BY DEF ReloadedForward
<1>2. ASSUME NEW r \in DOMAIN n.routes, n.routes[r].fifo
      PROVE  NoOvertaking(n.routes[r])
  <2>1. WellFormedRoute(n.routes[r])
      BY RaptorAssumption DEF RaptorAssumption, WellFormed
  <2>2. n.routes[r].fifo = ComputeFIFO(n.routes[r].trips)
      BY <1>1, RoutesAreMeasured
  <2>3. ComputeFIFO(n.routes[r].trips) <=> NoOvertaking(n.routes[r])
      BY <2>1, NeighboursSuffice
  <2> QED BY <1>2, <2>2, <2>3, Zenon
<1>3. ASSUME NEW s \in Stations, NEW w \in n.walks[s]
      PROVE  w.to # s
  <2>1. n.walks[s] = CloseFootpaths(Direct(db.footpaths))[s]
      BY <1>1 DEF ReloadRouteArrays
  <2>2. \E t \in Stations \ {s} : w.to = t
      BY <1>3, <2>1 DEF CloseFootpaths
  <2> QED BY <2>2
<1> QED BY <1>2, <1>3 DEF ReloadedForward, Measured

LEMMA FrontierInvariant == ASSUME ReloadedForward PROVE Spec => []FrontierInv
<1>1. \A n \in Timetables \cup NewTimetables : Measured(n) /\ TravelsForward(n)
    BY LoadedIsMeasured
<1>2. Init => (JournalInv => FrontierInv)
    BY <1>1 DEF Init, FrontierInv, NetInv, Searching
<1>3. JournalInv' /\ FrontierInv /\ [Next]_vars => FrontierInv'
    BY <1>1, NextKeepsFrontier
<1> QED BY <1>2, <1>3, JournalInvariant, PTL DEF Spec

(***************************************************************************)
(* The levels of the reference                                             *)
(***************************************************************************)

(* A set of times after some time has an earliest one. *)
LEMMA MinOfTimes ==
    ASSUME NEW S \in SUBSET Int, S # {}, NEW lo \in Int, \A t \in S : t >= lo
    PROVE  Min(S) \in S /\ \A t \in S : Min(S) <= t
<1>1. PICK T : T = {t - lo : t \in S}
    OBVIOUS
<1>2. T \in SUBSET Nat /\ T # {}
  <2>1. ASSUME NEW t \in S PROVE t - lo \in Nat
      BY <2>1
  <2> QED BY <1>1, <2>1
<1>3. Min(T) \in T /\ \A x \in T : Min(T) <= x
    BY <1>2, MinIsLeast
<1>4. PICK m \in S : Min(T) = m - lo
    BY <1>1, <1>3
<1>5. \A t \in S : m <= t
  <2> TAKE t \in S
  <2>1. t - lo \in T
      BY <1>1
  <2> QED BY <1>3, <1>4, <2>1
<1> QED BY <1>5 DEF Min

Label == [time: Int \cup {Never}, transit: BOOLEAN]
Level == [Stations -> Label]

Arrived(l, t) == l.time # Never /\ l.time <= t

(* A passenger with label l gets to stop a of trip x in time. *)
InTime(l, x, a) ==
    Labelled(l) /\ x.trip.dep[a] >= l.time + (IF l.transit THEN TransferSeconds ELSE 0)

(* A vehicle that a passenger with these labels can board gets to s at t.  *)
RideTo(labels, trips, s, t) ==
    \E x \in trips : \E a, b \in DOMAIN x.stops :
        a < b /\ InTime(labels[x.stops[a]], x, a) /\ x.stops[b] = s /\ x.trip.arr[b] = t

(* The first ride that improves u arrives at m. *)
FirstRide(labels, trips, u, m) ==
    /\ RideTo(labels, trips, u, m) /\ Beats(m, labels[u].time)
    /\ \A t \in Int : RideTo(labels, trips, u, t) => m <= t

WalkTo(labels, trips, s, t) ==
    \E u \in Stations, m \in Int :
        /\ FirstRide(labels, trips, u, m)
        /\ \E w \in net.walks[u] : w.to = s /\ t = m + w.secs

TripsOK(trips) ==
    \A x \in trips : \A a, b \in DOMAIN x.stops :
        /\ x.stops[a] \in Stations /\ x.trip.dep[a] \in Int /\ x.trip.arr[b] \in Int
        /\ a < b => x.trip.dep[a] <= x.trip.arr[b]

NotBefore(labels, lo) == \A s \in Stations : Labelled(labels[s]) => labels[s].time >= lo

LEMMA RidesAreLater ==
    ASSUME NEW labels \in Level, NEW trips, TripsOK(trips), NEW s, NEW t,
           RideTo(labels, trips, s, t)
    PROVE  /\ s \in Stations /\ t \in Int
           /\ \A lo \in Int : NotBefore(labels, lo) => t >= lo
<1> SUFFICES ASSUME NEW x \in trips, NEW a \in DOMAIN x.stops, NEW b \in DOMAIN x.stops, a < b,
                    InTime(labels[x.stops[a]], x, a), x.stops[b] = s, x.trip.arr[b] = t
             PROVE  /\ s \in Stations /\ t \in Int
                    /\ \A lo \in Int : NotBefore(labels, lo) => t >= lo
    BY DEF RideTo
<1>3. /\ x.stops[a] \in Stations /\ x.stops[b] \in Stations
      /\ x.trip.dep[a] \in Int /\ x.trip.arr[b] \in Int /\ x.trip.dep[a] <= x.trip.arr[b]
    BY DEF TripsOK
<1>4. PICK l : l = labels[x.stops[a]]
    OBVIOUS
<1>5. l \in Label /\ InTime(l, x, a)
    BY <1>3, <1>4 DEF Level
<1>6. l.time \in Int /\ x.trip.dep[a] >= l.time
    BY <1>3, <1>5, RaptorAssumption DEF InTime, Labelled, Label, RaptorAssumption
<1>7. \A lo \in Int : NotBefore(labels, lo) => l.time >= lo
    BY <1>3, <1>4, <1>5 DEF NotBefore, InTime
<1> QED BY <1>3, <1>6, <1>7

(* What a level makes of the one before. *)
Improved(labels, trips, s, l) ==
    /\ Labelled(l) /\ Beats(l.time, labels[s].time)
    /\ \/ l.transit /\ RideTo(labels, trips, s, l.time)
       \/ ~l.transit /\ WalkTo(labels, trips, s, l.time) /\ ~RideTo(labels, trips, s, l.time)

LEMMA NextLevelIs ==
    ASSUME WellFormed(net), NEW labels \in Level, NEW trips, TripsOK(trips),
           NEW lo \in Int, NotBefore(labels, lo), NEW next, next = NextLevel(labels, trips)
    PROVE  /\ next \in Level /\ NotBefore(next, lo)
           /\ \A s \in Stations :
                /\ next[s] = labels[s] \/ Improved(labels, trips, s, next[s])
                /\ Labelled(labels[s]) => Arrived(next[s], labels[s].time)
                /\ \A t \in Int : RideTo(labels, trips, s, t) \/ WalkTo(labels, trips, s, t)
                                  => Arrived(next[s], t)
<1> DEFINE rides ==
             UNION {{<<x.stops[pq[2]], x.trip.arr[pq[2]]>> :
                       pq \in {pq \in (DOMAIN x.stops) \X (DOMAIN x.stops) :
                                 /\ pq[1] < pq[2]
                                 /\ Labelled(labels[x.stops[pq[1]]])
                                 /\ x.trip.dep[pq[1]] >= labels[x.stops[pq[1]]].time +
                                      IF labels[x.stops[pq[1]]].transit THEN TransferSeconds ELSE 0}}
                    : x \in trips}
           ridden == [s \in Stations |-> {r[2] : r \in {x \in rides : x[1] = s}}]
           mid == [s \in Stations |-> IF Earlier(ridden[s], labels[s])
                                      THEN [time |-> Min(ridden[s]), transit |-> TRUE]
                                      ELSE labels[s]]
           sources == {s \in Stations : Earlier(ridden[s], labels[s])}
           walked == [s \in Stations |->
                        UNION {{mid[u].time + w.secs : w \in {x \in net.walks[u] : x.to = s}}
                                 : u \in sources}]
<1>6. next = [s \in Stations |-> IF Earlier(walked[s], mid[s])
                                 THEN [time |-> Min(walked[s]), transit |-> FALSE]
                                 ELSE mid[s]]
    BY DEF NextLevel
<1> HIDE DEF rides, ridden, mid, sources, walked
<1>7. ASSUME NEW s \in Stations, NEW t
      PROVE  <<s, t>> \in rides <=> RideTo(labels, trips, s, t)
  <2>1. ASSUME <<s, t>> \in rides PROVE RideTo(labels, trips, s, t)
    <3>1. PICK x \in trips : \E pq \in (DOMAIN x.stops) \X (DOMAIN x.stops) :
              /\ <<s, t>> = <<x.stops[pq[2]], x.trip.arr[pq[2]]>>
              /\ pq[1] < pq[2] /\ InTime(labels[x.stops[pq[1]]], x, pq[1])
        BY <2>1 DEF rides, InTime
    <3> QED BY <3>1 DEF RideTo
  <2>2. ASSUME RideTo(labels, trips, s, t) PROVE <<s, t>> \in rides
    <3> SUFFICES ASSUME NEW x \in trips, NEW a \in DOMAIN x.stops, NEW b \in DOMAIN x.stops,
                        a < b, InTime(labels[x.stops[a]], x, a), x.stops[b] = s,
                        x.trip.arr[b] = t
                 PROVE  <<s, t>> \in rides
        BY <2>2 DEF RideTo
    <3>1. PICK pq : pq = <<a, b>>
        OBVIOUS
    <3>2. /\ pq \in (DOMAIN x.stops) \X (DOMAIN x.stops) /\ pq[1] = a /\ pq[2] = b
        BY <3>1
    <3> QED BY <3>2 DEF rides, InTime
  <2> QED BY <2>1, <2>2
<1>8. \A z \in rides : z = <<z[1], z[2]>>
    BY DEF rides
<1>9. ASSUME NEW s \in Stations
      PROVE  /\ ridden[s] \in SUBSET Int /\ (\A t \in ridden[s] : t >= lo)
             /\ \A t : t \in ridden[s] <=> RideTo(labels, trips, s, t)
  <2>1. \A t : t \in ridden[s] <=> <<s, t>> \in rides
      BY <1>8 DEF ridden
  <2>2. \A t : t \in ridden[s] <=> RideTo(labels, trips, s, t)
      BY <1>7, <2>1
  <2> QED BY <2>2, RidesAreLater
<1>10. ASSUME NEW s \in Stations
       PROVE  /\ mid[s] \in Label /\ (Labelled(mid[s]) => mid[s].time >= lo)
              /\ s \in sources => FirstRide(labels, trips, s, mid[s].time) /\ mid[s].time \in Int
              /\ s \in sources <=> mid[s] # labels[s]
              /\ s \in sources <=> \E m \in Int : FirstRide(labels, trips, s, m)
              /\ s \in sources => mid[s].transit = TRUE
              /\ s \notin sources => mid[s] = labels[s]
              /\ Labelled(labels[s]) => Arrived(mid[s], labels[s].time)
              /\ \A t \in ridden[s] : Arrived(mid[s], t)
  <2>1. PICK m : m = Min(ridden[s])
      OBVIOUS
  <2>2. ridden[s] # {} => m \in ridden[s] /\ m \in Int /\ m >= lo /\ \A t \in ridden[s] : m <= t
      BY <1>9, <2>1, MinOfTimes
  <2>3. labels[s] \in Label /\ (Labelled(labels[s]) => labels[s].time >= lo) /\ Never \notin Int
      BY TimetableAssumption DEF Level, NotBefore, TimetableAssumption
  <2>4. CASE Earlier(ridden[s], labels[s])
    <3>1. mid[s] = [time |-> m, transit |-> TRUE] /\ s \in sources /\ ridden[s] # {}
        BY <2>1, <2>4 DEF Earlier, mid, sources
    <3>2. mid[s].time = m /\ mid[s].transit = TRUE /\ Beats(m, labels[s].time)
        BY <2>1, <2>4, <3>1 DEF Earlier, Beats, Labelled
    <3>3. FirstRide(labels, trips, s, m)
        BY <1>9, <2>2, <3>1, <3>2 DEF FirstRide
    <3>4. mid[s] # labels[s]
        BY <2>2, <2>3, <3>1, <3>2 DEF Beats, Label
    <3>5. mid[s] \in Label /\ Labelled(mid[s])
        BY <2>2, <2>3, <3>1, <3>2 DEF Label, Labelled
    <3>6. (Labelled(labels[s]) => Arrived(mid[s], labels[s].time))
          /\ \A t \in ridden[s] : Arrived(mid[s], t)
        BY <2>2, <2>3, <3>1, <3>2 DEF Arrived, Labelled, Beats, Label
    <3> QED BY <2>2, <3>1, <3>2, <3>3, <3>4, <3>5, <3>6
  <2>5. CASE ~Earlier(ridden[s], labels[s])
    <3>1. mid[s] = labels[s] /\ s \notin sources
        BY <2>5 DEF mid, sources
    <3>2. ASSUME NEW n \in Int, FirstRide(labels, trips, s, n) PROVE FALSE
      <4>1. n \in ridden[s] /\ Beats(n, labels[s].time)
          BY <1>9, <3>2 DEF FirstRide
      <4>2. n <= m /\ m <= n
          BY <1>9, <2>2, <3>2, <4>1 DEF FirstRide
      <4> QED BY <2>1, <2>2, <2>3, <2>5, <4>1, <4>2 DEF Earlier, Beats, Labelled, Label
    <3>3. \A t \in ridden[s] : Arrived(mid[s], t)
        BY <1>9, <2>1, <2>2, <2>3, <2>5, <3>1 DEF Earlier, Arrived, Labelled, Label
    <3>4. Labelled(labels[s]) => Arrived(mid[s], labels[s].time)
        BY <2>3, <3>1 DEF Labelled, Arrived, Label
    <3> QED BY <2>3, <3>1, <3>2, <3>3, <3>4
  <2> QED BY <2>4, <2>5
<1>11. ASSUME NEW s \in Stations, NEW t
       PROVE  t \in walked[s] <=> WalkTo(labels, trips, s, t)
  <2>1. t \in walked[s] <=> \E u \in sources : \E w \in net.walks[u] : w.to = s /\ t = mid[u].time + w.secs
      BY DEF walked
  <2>2. ASSUME NEW u \in Stations, NEW m \in Int, FirstRide(labels, trips, u, m)
        PROVE  u \in sources /\ mid[u].time = m
    <3>1. u \in sources /\ FirstRide(labels, trips, u, mid[u].time) /\ mid[u].time \in Int
        BY <1>10, <2>2
    <3> QED BY <2>2, <3>1 DEF FirstRide
  <2>3. \A u \in sources : u \in Stations /\ mid[u].time \in Int
                            /\ FirstRide(labels, trips, u, mid[u].time)
      BY <1>10 DEF sources
  <2>4. t \in walked[s] => WalkTo(labels, trips, s, t)
      BY <2>1, <2>3 DEF WalkTo
  <2>5. WalkTo(labels, trips, s, t) => t \in walked[s]
      BY <2>1, <2>2 DEF WalkTo
  <2> QED BY <2>4, <2>5
<1>12. ASSUME NEW s \in Stations
       PROVE  walked[s] \in SUBSET Int /\ \A t \in walked[s] : t >= lo
  <2>1. ASSUME NEW t \in walked[s] PROVE t \in Int /\ t >= lo
    <3>1. PICK u \in sources : \E w \in net.walks[u] : t = mid[u].time + w.secs
        BY <2>1 DEF walked
    <3>2. u \in Stations /\ mid[u].time \in Int /\ mid[u].time >= lo
        BY <1>10, TimetableAssumption, <3>1 DEF sources, Labelled, TimetableAssumption
    <3>3. \A w \in net.walks[u] : w.secs \in Nat
        BY <3>2 DEF WellFormed
    <3> QED BY <3>1, <3>2, <3>3
  <2> QED BY <2>1
<1>13. ASSUME NEW s \in Stations
       PROVE  /\ next[s] \in Label /\ (Labelled(next[s]) => next[s].time >= lo)
              /\ next[s] = labels[s] \/ Improved(labels, trips, s, next[s])
              /\ Labelled(labels[s]) => Arrived(next[s], labels[s].time)
              /\ \A t \in ridden[s] \cup walked[s] : Arrived(next[s], t)
  <2>1. PICK m : m = Min(walked[s])
      OBVIOUS
  <2>2. walked[s] # {} => m \in walked[s] /\ m \in Int /\ m >= lo /\ \A t \in walked[s] : m <= t
      BY <1>12, <2>1, MinOfTimes
  <2>3. /\ mid[s] \in Label /\ labels[s] \in Label /\ Never \notin Int
        /\ ridden[s] \in SUBSET Int
      BY <1>9, <1>10, TimetableAssumption DEF Level, TimetableAssumption
  <2>4. CASE Earlier(walked[s], mid[s])
    <3>1. next[s] = [time |-> m, transit |-> FALSE] /\ walked[s] # {}
        BY <1>6, <2>1, <2>4 DEF Earlier
    <3>2. next[s].time = m /\ next[s].transit = FALSE /\ Beats(m, mid[s].time)
          /\ next[s] \in Label /\ Labelled(next[s])
        BY <2>1, <2>2, <2>3, <2>4, <3>1 DEF Earlier, Beats, Labelled, Label
    <3>0. ASSUME NEW t \in Int, Arrived(mid[s], t) PROVE m < t
      <4>1. mid[s].time \in Int /\ mid[s].time <= t /\ m \in Int /\ m < mid[s].time
          BY <2>2, <2>3, <3>0, <3>1, <3>2 DEF Arrived, Beats, Label
      <4> QED BY <3>0, <4>1
    <3>3. \A t \in ridden[s] : m < t
        BY <1>10, <2>3, <3>0
    <3>4. ~RideTo(labels, trips, s, m)
        BY <1>9, <2>2, <3>1, <3>3
    <3>5. Beats(m, labels[s].time)
        BY <1>10, <2>3, <3>0 DEF Beats, Label, Labelled
    <3>6. WalkTo(labels, trips, s, m)
        BY <1>11, <2>2, <3>1
    <3>7. \A t \in ridden[s] \cup walked[s] : Arrived(next[s], t)
        BY <2>2, <2>3, <3>1, <3>2, <3>3 DEF Arrived, Labelled
    <3>8. Labelled(labels[s]) => Arrived(next[s], labels[s].time)
        BY <2>2, <2>3, <3>1, <3>2, <3>5 DEF Arrived, Labelled, Beats, Label
    <3> QED BY <2>2, <3>1, <3>2, <3>4, <3>5, <3>6, <3>7, <3>8 DEF Improved
  <2>5. CASE ~Earlier(walked[s], mid[s])
    <3>1. next[s] = mid[s]
        BY <1>6, <2>5
    <3>2. \A t \in walked[s] : Arrived(mid[s], t)
        BY <1>12, <2>1, <2>2, <2>3, <2>5 DEF Earlier, Arrived, Labelled, Label
    <3>3. mid[s] # labels[s] => Improved(labels, trips, s, mid[s])
      <4>1. mid[s] # labels[s] => /\ FirstRide(labels, trips, s, mid[s].time)
                                  /\ mid[s].time \in Int /\ mid[s].transit = TRUE
          BY <1>10
      <4> QED BY <2>3, <4>1 DEF Improved, FirstRide, Labelled
    <3> QED BY <1>10, <3>1, <3>2, <3>3
  <2> QED BY <2>4, <2>5
<1>14. next \in Level /\ NotBefore(next, lo)
  <2>1. next = [s \in Stations |-> next[s]]
      BY <1>6
  <2> QED BY <1>13, <2>1 DEF Level, NotBefore
<1> QED BY <1>9, <1>11, <1>13, <1>14

(***************************************************************************)
(* Labels of a round agree with a level of the reference                   *)
(***************************************************************************)

Below(l, d) == Labelled(l) /\ Beats(l.time, d)

(* Levels agree on the arrival at the destination and on what is earlier.  *)
Agree(A, B) ==
    /\ A[query.dest].time = B[query.dest].time
    /\ \A s \in Stations :
         Below(A[s], A[query.dest].time) \/ Below(B[s], A[query.dest].time) => A[s] = B[s]

Near(B, s, t) == Arrived(B[s], t) \/ Arrived(B[query.dest], t)

(* What a round makes of the labels A: it tries every ride and the walks   *)
(* after those that are news, and what it adds are such rides and walks.   *)
(* W holds the stations it has walked to.                                  *)
Follows(A, B, W, trips) ==
    /\ \A s \in Stations : Labelled(A[s]) => Arrived(B[s], A[s].time)
    /\ \A s \in Stations, t \in Int : RideTo(A, trips, s, t) =>
         \/ Arrived(B[query.dest], t)
         \/ /\ Arrived(B[s], t)
            /\ B[s].time = t => s \notin W
            /\ Arrived(A[s], t) \/ \A w \in net.walks[s] : Near(B, w.to, t + w.secs)
    /\ \A s \in Stations :
         \/ A[s] = B[s] /\ s \notin W
         \/ /\ Labelled(B[s]) /\ Beats(B[s].time, A[s].time)
            /\ Beats(B[s].time, A[query.dest].time)
            /\ \/ B[s].transit /\ RideTo(A, trips, s, B[s].time)
               \/ /\ ~B[s].transit /\ s \in W
                  /\ \E u \in Stations, m \in Int :
                       /\ RideTo(A, trips, u, m) /\ Beats(m, A[u].time)
                       /\ Beats(m, A[query.dest].time)
                       /\ \E w \in net.walks[u] : w.to = s /\ B[s].time = m + w.secs

LEMMA RidesAgree ==
    ASSUME NEW A \in Level, NEW B \in Level, NEW trips, TripsOK(trips),
           NEW d \in Int \cup {Never}, \A s \in Stations : Below(A[s], d) => A[s] = B[s],
           NEW s, NEW t, RideTo(A, trips, s, t)
    PROVE  RideTo(B, trips, s, t) \/ (d # Never /\ d <= t)
<1> SUFFICES ASSUME NEW x \in trips, NEW a \in DOMAIN x.stops, NEW b \in DOMAIN x.stops, a < b,
                    InTime(A[x.stops[a]], x, a), x.stops[b] = s, x.trip.arr[b] = t,
                    ~(d # Never /\ d <= t)
             PROVE  RideTo(B, trips, s, t)
    BY DEF RideTo
<1>1. PICK u : u = x.stops[a]
    OBVIOUS
<1>2. u \in Stations /\ x.trip.dep[a] \in Int /\ t \in Int /\ x.trip.dep[a] <= t
    BY <1>1 DEF TripsOK
<1>3. A[u] \in Label /\ InTime(A[u], x, a)
    BY <1>1, <1>2 DEF Level
<1>4. Labelled(A[u]) /\ A[u].time \in Int /\ x.trip.dep[a] >= A[u].time
    BY <1>2, <1>3, RaptorAssumption DEF InTime, Labelled, Label, RaptorAssumption
<1>5. Below(A[u], d)
    BY <1>2, <1>4, TimetableAssumption DEF Below, Beats, TimetableAssumption
<1>6. InTime(B[u], x, a)
    BY <1>2, <1>3, <1>5
<1> QED BY <1>1, <1>6 DEF RideTo

LEMMA StepAgrees ==
    ASSUME WellFormed(net), query.dest \in Stations, NEW trips, TripsOK(trips),
           NEW prev \in Level, NEW A \in Level, NEW B \in Level, NEW W, NEW lo \in Int,
           NotBefore(prev, lo), Agree(prev, A), Follows(A, B, W, trips),
           NEW next, next = NextLevel(prev, trips)
    PROVE  Agree(next, B)
<1>1. PICK d, e : d = A[query.dest].time /\ e = B[query.dest].time
    OBVIOUS
<1>2. /\ next \in Level
      /\ \A s \in Stations :
           /\ next[s] = prev[s] \/ Improved(prev, trips, s, next[s])
           /\ Labelled(prev[s]) => Arrived(next[s], prev[s].time)
           /\ \A t \in Int : RideTo(prev, trips, s, t) \/ WalkTo(prev, trips, s, t)
                             => Arrived(next[s], t)
    BY NextLevelIs
<1>3. /\ d \in Int \cup {Never} /\ e \in Int \cup {Never} /\ Never \notin Int
      /\ d # Never => e # Never /\ e <= d
      /\ \A s \in Stations : /\ prev[s] \in Label /\ A[s] \in Label /\ B[s] \in Label
                             /\ next[s] \in Label
    BY <1>1, <1>2, TimetableAssumption
       DEF Level, Label, Follows, Labelled, Arrived, TimetableAssumption
<1>4. /\ prev[query.dest].time = d
      /\ \A s \in Stations : Below(prev[s], d) \/ Below(A[s], d) => prev[s] = A[s]
    BY <1>1 DEF Agree
<1>5. ASSUME NEW s, NEW t, RideTo(prev, trips, s, t)
      PROVE  /\ s \in Stations /\ t \in Int
             /\ RideTo(A, trips, s, t) \/ Arrived(B[query.dest], t)
  <2>1. s \in Stations /\ t \in Int
      BY <1>5, RidesAreLater
  <2>2. RideTo(A, trips, s, t) \/ (d # Never /\ d <= t)
      BY <1>3, <1>4, <1>5, RidesAgree
  <2> QED BY <1>1, <1>3, <2>1, <2>2 DEF Arrived
<1>6. ASSUME NEW s, NEW t, RideTo(A, trips, s, t), Beats(t, d)
      PROVE  RideTo(prev, trips, s, t) /\ s \in Stations /\ t \in Int
  <2>1. s \in Stations /\ t \in Int
      BY <1>6, RidesAreLater
  <2>2. RideTo(prev, trips, s, t) \/ (d # Never /\ d <= t)
      BY <1>3, <1>4, <1>6, RidesAgree
  <2> QED BY <1>3, <1>6, <2>1, <2>2 DEF Beats
(* An entry that is news to A is news to the level. *)
<1>7. ASSUME NEW s \in Stations, NEW t \in Int, Beats(t, A[s].time), Beats(t, d)
      PROVE  Beats(t, prev[s].time)
    BY <1>3, <1>4, <1>7 DEF Below, Beats, Labelled, Label
(* What the level reaches, the round has covered. *)
<1>8. ASSUME NEW s \in Stations, Labelled(next[s])
      PROVE  Near(B, s, next[s].time)
  <2>1. PICK t : t = next[s].time
      OBVIOUS
  <2>2. t \in Int
      BY <1>3, <1>8, <2>1 DEF Label, Labelled
  <2>3. CASE next[s] = prev[s]
    <3>1. CASE Below(prev[s], d)
      <4>1. Labelled(A[s]) /\ A[s].time = t
          BY <1>4, <1>8, <2>1, <2>3, <3>1
      <4> QED BY <2>1, <4>1 DEF Follows, Near
    <3>2. CASE ~Below(prev[s], d)
        BY <1>1, <1>3, <1>8, <2>1, <2>2, <2>3, <3>2 DEF Below, Beats, Near, Arrived
    <3> QED BY <3>1, <3>2
  <2>4. CASE RideTo(prev, trips, s, t)
      BY <1>5, <2>1, <2>2, <2>4 DEF Follows, Near
  <2>5. CASE WalkTo(prev, trips, s, t)
    <3>1. PICK u \in Stations, m \in Int :
              /\ FirstRide(prev, trips, u, m)
              /\ \E w \in net.walks[u] : w.to = s /\ t = m + w.secs
        BY <2>5 DEF WalkTo
    <3>2. PICK w \in net.walks[u] : w.to = s /\ t = m + w.secs
        BY <3>1
    <3>3. m <= t
        BY <2>2, <3>1, <3>2 DEF WellFormed
    <3>4. CASE Arrived(B[query.dest], m)
        BY <1>1, <1>3, <2>1, <2>2, <3>3, <3>4 DEF Near, Arrived
    <3>5. CASE ~Arrived(B[query.dest], m)
      <4>1. RideTo(A, trips, u, m) /\ Beats(m, prev[u].time)
          BY <1>5, <3>1, <3>5 DEF FirstRide
      <4>2. \/ Arrived(A[u], m)
            \/ \A x \in net.walks[u] : Near(B, x.to, m + x.secs)
          BY <3>5, <4>1 DEF Follows
      <4>3. CASE Arrived(A[u], m)
        <5>1. Below(A[u], d)
            BY <1>1, <1>3, <3>5, <4>3 DEF Below, Beats, Arrived, Labelled, Label
        <5> QED BY <1>3, <1>4, <4>1, <4>3, <5>1 DEF Beats, Arrived, Label
      <4> QED BY <2>1, <3>2, <4>2, <4>3
    <3> QED BY <3>4, <3>5
  <2> QED BY <1>2, <2>1, <2>3, <2>4, <2>5 DEF Improved
(* What the round has found, the level reaches. *)
<1>9. ASSUME NEW s \in Stations, Below(B[s], e) \/ s = query.dest, Labelled(B[s])
      PROVE  Arrived(next[s], B[s].time)
  <2>1. PICK t : t = B[s].time
      OBVIOUS
  <2>2. t \in Int
      BY <1>3, <1>9, <2>1 DEF Label, Labelled
  <2>3. CASE A[s] = B[s]
    <3>1. prev[s].time = t
      <4>1. CASE s = query.dest
          BY <1>1, <1>4, <2>1, <2>3, <4>1
      <4>2. CASE s # query.dest
        <5>1. Below(A[s], d)
            BY <1>3, <1>9, <2>1, <2>2, <2>3, <4>2 DEF Below, Beats, Labelled
        <5> QED BY <1>4, <2>1, <2>3, <5>1
      <4> QED BY <4>1, <4>2
    <3> QED BY <1>2, <1>3, <2>1, <2>2, <3>1 DEF Labelled
  <2>4. CASE RideTo(A, trips, s, t) /\ Beats(t, d)
      BY <1>2, <1>6, <2>1, <2>4
  <2>5. CASE \E u \in Stations, m \in Int :
                /\ RideTo(A, trips, u, m) /\ Beats(m, A[u].time) /\ Beats(m, d)
                /\ \E w \in net.walks[u] : w.to = s /\ t = m + w.secs
    <3>1. PICK u \in Stations, m \in Int :
                /\ RideTo(A, trips, u, m) /\ Beats(m, A[u].time) /\ Beats(m, d)
                /\ \E w \in net.walks[u] : w.to = s /\ t = m + w.secs
        BY <2>5
    <3>2. PICK w \in net.walks[u] : w.to = s /\ t = m + w.secs
        BY <3>1
    <3>3. RideTo(prev, trips, u, m) /\ Beats(m, prev[u].time)
        BY <1>6, <1>7, <3>1
    <3>4. PICK R : R = {x \in Int : RideTo(prev, trips, u, x)}
        OBVIOUS
    <3>5. R \in SUBSET Int /\ m \in R /\ \A x \in R : x >= lo
        BY <3>3, <3>4, RidesAreLater
    <3>6. PICK n : n = Min(R)
        OBVIOUS
    <3>7. n \in R /\ \A x \in R : n <= x
        BY <3>5, <3>6, MinOfTimes
    <3>8. n <= m /\ n \in Int /\ m \in Int
        BY <3>5, <3>7
    <3>9. Beats(n, prev[u].time)
        BY <1>3, <3>3, <3>8 DEF Beats, Label
    <3>10. FirstRide(prev, trips, u, n)
        BY <3>4, <3>7, <3>9 DEF FirstRide
    <3>11. w.secs \in Nat
        BY DEF WellFormed
    <3>12. PICK o : o = n + w.secs
        OBVIOUS
    <3>13. WalkTo(prev, trips, s, o) /\ o \in Int /\ o <= t
        BY <3>2, <3>8, <3>10, <3>11, <3>12 DEF WalkTo
    <3>14. Arrived(next[s], o)
        BY <1>2, <3>13
    <3> QED BY <1>3, <2>1, <2>2, <3>13, <3>14 DEF Arrived, Label
  <2> QED BY <1>1, <2>1, <2>3, <2>4, <2>5 DEF Follows
<1>10. next[query.dest].time = e
  <2>1. Labelled(next[query.dest]) => e # Never /\ e <= next[query.dest].time
      BY <1>1, <1>8 DEF Near, Arrived
  <2>2. e # Never => Labelled(next[query.dest]) /\ next[query.dest].time <= e
      BY <1>1, <1>9 DEF Labelled, Arrived
  <2> QED BY <1>3, <2>1, <2>2 DEF Labelled, Label
<1>11. ASSUME NEW s \in Stations, Below(next[s], e) \/ Below(B[s], e)
       PROVE  next[s].time = B[s].time /\ Below(B[s], e) /\ B[s].time \in Int
  <2>1. CASE Below(B[s], e)
    <3>1. Arrived(next[s], B[s].time) /\ Labelled(next[s])
        BY <1>9, <2>1 DEF Below, Arrived, Labelled
    <3>2. Near(B, s, next[s].time)
        BY <1>8, <3>1
    <3> QED BY <1>1, <1>3, <2>1, <3>1, <3>2 DEF Near, Arrived, Below, Beats, Labelled, Label
  <2>2. CASE Below(next[s], e)
    <3>1. Near(B, s, next[s].time)
        BY <1>8, <2>2 DEF Below
    <3>2. Arrived(B[s], next[s].time)
        BY <1>1, <1>3, <2>2, <3>1 DEF Near, Arrived, Below, Beats, Labelled, Label
    <3>3. Below(B[s], e)
        BY <1>3, <2>2, <3>2 DEF Below, Beats, Arrived, Labelled, Label
    <3> QED BY <2>1, <3>3
  <2> QED BY <1>11, <2>1, <2>2
<1>12. ASSUME NEW s \in Stations, next[s].time = B[s].time, Below(B[s], e), B[s].time \in Int
       PROVE  next[s] = B[s]
  <2>1. PICK t : t = B[s].time
      OBVIOUS
  <2>2. t \in Int /\ Beats(t, e) /\ next[s].time = t /\ ~Arrived(B[query.dest], t)
      BY <1>1, <1>3, <1>12, <2>1 DEF Below, Beats, Arrived
  <2>3. next[s] = [time |-> t, transit |-> next[s].transit] /\ B[s] = [time |-> t, transit |-> B[s].transit]
        /\ next[s].transit \in BOOLEAN /\ B[s].transit \in BOOLEAN
      BY <1>3, <2>1, <2>2 DEF Label
  <2>4. CASE A[s] = B[s]
    <3>1. Below(A[s], d)
        BY <1>3, <1>12, <2>1, <2>2, <2>4 DEF Below, Beats
    <3>2. prev[s] = B[s]
        BY <1>4, <2>4, <3>1
    <3>3. ~Beats(t, prev[s].time)
        BY <2>1, <2>2, <1>3, <3>2 DEF Beats
    <3> QED BY <1>2, <2>2, <3>2, <3>3 DEF Improved
  <2>5. CASE Beats(t, A[s].time) /\ Beats(t, d) /\ B[s].transit /\ RideTo(A, trips, s, t)
    <3>1. RideTo(prev, trips, s, t) /\ Beats(t, prev[s].time)
        BY <1>6, <1>7, <2>2, <2>5
    <3>2. next[s] # prev[s]
        BY <1>3, <2>2, <3>1 DEF Beats
    <3>3. next[s].transit
        BY <1>2, <2>2, <3>1, <3>2 DEF Improved
    <3> QED BY <2>3, <2>5, <3>3
  <2>6. CASE Beats(t, A[s].time) /\ Beats(t, d) /\ ~B[s].transit /\ s \in W
    <3>1. Beats(t, prev[s].time)
        BY <1>7, <2>2, <2>6
    <3>2. next[s] # prev[s]
        BY <1>3, <2>2, <3>1 DEF Beats
    <3>3. ~RideTo(prev, trips, s, t)
        BY <1>5, <2>1, <2>2, <2>6 DEF Follows
    <3>4. ~next[s].transit
        BY <1>2, <2>2, <3>2, <3>3 DEF Improved
    <3> QED BY <2>3, <2>6, <3>4
  <2> QED BY <1>1, <2>1, <2>4, <2>5, <2>6 DEF Follows
<1> QED BY <1>1, <1>10, <1>11, <1>12 DEF Agree

(***************************************************************************)
(* What the rounds have made of the labels when the search is over         *)
(***************************************************************************)

RoundLevel(r) == [s \in Stations |-> [time |-> tau[r][s],
                                      transit |-> journal[r][s].kind = "transit"]]

OfferedTrips == {t \in AllTrips : Offered(t.trip)}

AtEnd == FrontierInv /\ RoundOver /\ Untied

LEMMA EndTypes ==
    ASSUME AtEnd
    PROVE  /\ TypeOK /\ LabelsJustified /\ TraceInv /\ JournalInv /\ Searching
           /\ WellFormed(net) /\ Measured(net) /\ TravelsForward(net)
           /\ k \in Nat /\ k <= MaxRounds /\ MaxRounds \in Nat /\ MaxRounds # 0
           /\ TransferSeconds \in Nat
           /\ query.origin \in Stations /\ query.dest \in Stations /\ query.dep \in Int
           /\ \A r \in 0..k : \A s \in Stations :
                /\ tau[r][s] \in Int \cup {Never}
                /\ journal[r][s] \in Entry \cup {NoEntry}
                /\ preWalk[r][s] \in Entry \cup {NoEntry}
                /\ Justified(r, s) /\ Traced(r, s)
           /\ Never \notin Int
<1>1. /\ TypeOK /\ LabelsJustified /\ TraceInv /\ Searching /\ JournalInv
      /\ WellFormed(net) /\ Measured(net) /\ TravelsForward(net)
    BY DEF AtEnd, FrontierInv, JournalInv, SearchInv, TypeOK, RoundOver, Searching, NetInv
<1>2. ASSUME NEW r \in 0..k, NEW s \in Stations
      PROVE  /\ tau[r][s] \in Int \cup {Never}
             /\ journal[r][s] \in Entry \cup {NoEntry}
             /\ preWalk[r][s] \in Entry \cup {NoEntry}
             /\ Justified(r, s) /\ Traced(r, s)
  <2>1. tau[r][s] \in Int \cup {Never} /\ journal[r][s] \in Entry \cup {NoEntry}
      BY <1>1, <1>2, Types
  <2>2. preWalk[r][s] \in Entry \cup {NoEntry}
      BY <1>1, <1>2 DEF TypeOK
  <2>3. Justified(r, s)
      BY <1>1, <1>2 DEF LabelsJustified, Justified
  <2>4. Traced(r, s)
      BY <1>1, <1>2 DEF TraceInv
  <2> QED BY <2>1, <2>2, <2>3, <2>4
<1> QED BY <1>1, <1>2, Types, RaptorAssumption DEF RaptorAssumption

(* Every ride and every walk of the rounds is covered. *)
LEMMA EndCovered ==
    ASSUME AtEnd
    PROVE  /\ \A r \in 1..k : \A n \in DOMAIN net.routes : \A i \in DOMAIN net.routes[n].trips :
                \A a, b \in DOMAIN net.routes[n].stops :
                    a < b /\ CanRide(r-1, n, i, a) =>
                        RideCovered(r, net.routes[n].stops[b], net.routes[n].trips[i].arr[b])
           /\ \A r \in 0..k : \A u \in Stations : SetOut(r, u) # Never =>
                \A w \in net.walks[u] : Covered(r, w.to, SetOut(r, u) + w.secs)
           /\ NewsInv /\ TimesInv
BY DEF AtEnd, FrontierInv, RoundOver, Searching, RidesInv, WalksInv

LEMMA LevelOfRound ==
    ASSUME AtEnd, NEW r \in 0..k
    PROVE  /\ RoundLevel(r) \in Level /\ NotBefore(RoundLevel(r), query.dep)
           /\ \A s \in Stations : /\ RoundLevel(r)[s].time = tau[r][s]
                                  /\ RoundLevel(r)[s].transit <=> journal[r][s].kind = "transit"
<1>1. \A s \in Stations : tau[r][s] # Never => tau[r][s] >= query.dep
    BY EndCovered DEF TimesInv
<1>2. \A s \in Stations : tau[r][s] \in Int \cup {Never}
    BY EndTypes
<1> QED BY <1>1, <1>2 DEF RoundLevel, Level, Label, NotBefore, Labelled

LEMMA OfferedOK ==
    ASSUME WellFormed(net), TravelsForward(net)
    PROVE  TripsOK(OfferedTrips)
<1> SUFFICES ASSUME NEW n \in DOMAIN net.routes, NEW i \in DOMAIN net.routes[n].trips,
                    NEW x, x = [stops |-> net.routes[n].stops, trip |-> net.routes[n].trips[i]],
                    NEW a \in DOMAIN x.stops, NEW b \in DOMAIN x.stops
             PROVE  /\ x.stops[a] \in Stations /\ x.trip.dep[a] \in Int /\ x.trip.arr[b] \in Int
                    /\ a < b => x.trip.dep[a] <= x.trip.arr[b]
    BY DEF TripsOK, OfferedTrips, AllTrips
<1>1. /\ net.routes[n].trips[i].dep[a] \in Int /\ net.routes[n].trips[i].arr[b] \in Int
      /\ net.routes[n].stops[a] \in Stations
    BY RouteTypes
<1> QED BY <1>1 DEF TravelsForward

(* A ride that the labels of a round allow is one the next round scans,    *)
(* and the other way round for the entries of the journal.                 *)
LEMMA RideIsScanned ==
    ASSUME AtEnd, NEW r \in 0..k, NEW s, NEW t, RideTo(RoundLevel(r), OfferedTrips, s, t)
    PROVE  \E n \in DOMAIN net.routes : \E i \in DOMAIN net.routes[n].trips :
             \E a, b \in DOMAIN net.routes[n].stops :
               /\ a < b /\ CanRide(r, n, i, a)
               /\ net.routes[n].stops[b] = s /\ net.routes[n].trips[i].arr[b] = t
<1>1. PICK x \in OfferedTrips : \E a, b \in DOMAIN x.stops :
          a < b /\ InTime(RoundLevel(r)[x.stops[a]], x, a) /\ x.stops[b] = s /\ x.trip.arr[b] = t
    BY DEF RideTo
<1>2. PICK n \in DOMAIN net.routes : \E i \in DOMAIN net.routes[n].trips :
          x = [stops |-> net.routes[n].stops, trip |-> net.routes[n].trips[i]]
    BY <1>1 DEF OfferedTrips, AllTrips
<1>3. PICK i \in DOMAIN net.routes[n].trips :
          x = [stops |-> net.routes[n].stops, trip |-> net.routes[n].trips[i]]
    BY <1>2
<1>4. PICK a \in DOMAIN net.routes[n].stops, b \in DOMAIN net.routes[n].stops :
          /\ a < b /\ InTime(RoundLevel(r)[net.routes[n].stops[a]], x, a)
          /\ net.routes[n].stops[b] = s /\ net.routes[n].trips[i].arr[b] = t
    BY <1>1, <1>2, <1>3
<1>5. PICK u : u = net.routes[n].stops[a]
    OBVIOUS
<1>6. u \in Stations /\ net.routes[n].trips[i].key \in Int \X Int
    BY <1>5, EndTypes, RouteTypes
<1>7. tau[r][u] # Never /\ net.routes[n].trips[i].dep[a] >= ReadyAt(r, u)
  <2>1. InTime(RoundLevel(r)[u], x, a) /\ x.trip = net.routes[n].trips[i]
      BY <1>2, <1>3, <1>4, <1>5
  <2> QED BY <1>6, <2>1, LevelOfRound DEF InTime, Labelled, ReadyAt
<1>8. TripUsable(net.routes[n].trips[i])
  <2>1. PICK y : y = net.routes[n].trips[i]
      OBVIOUS
  <2>2. Offered(y) /\ y.key \in Int \X Int
      BY <1>1, <1>2, <1>3, <1>6, <2>1 DEF OfferedTrips
  <2>3. y.key[2] \in Allowed
    <3>1. query.day \in Int /\ WindowDays \in Nat
        BY EndTypes, RaptorAssumption DEF TypeOK, RaptorAssumption
    <3> QED BY <2>2, <3>1 DEF Offered, Allowed
  <2>4. CanBoard(y.key)
      BY <2>2 DEF Offered, CanBoard
  <2> QED BY <2>1, <2>3, <2>4 DEF TripUsable
<1> QED BY <1>4, <1>5, <1>7, <1>8 DEF CanRide

LEMMA EntryIsRide ==
    ASSUME AtEnd, NEW r \in 0..k, NEW s, NEW e \in Entry, RealRide(e, s),
           tau[r][e.from] # Never, e.dep >= ReadyAt(r, e.from)
    PROVE  RideTo(RoundLevel(r), OfferedTrips, s, e.arr)
<1>1. PICK x \in AllTrips :
          /\ Offered(x.trip)
          /\ \E a, b \in DOMAIN x.stops :
               /\ a < b /\ x.stops[a] = e.from /\ x.stops[b] = s
               /\ x.trip.dep[a] = e.dep /\ x.trip.arr[b] = e.arr
    BY DEF RealRide
<1>2. x \in OfferedTrips
    BY <1>1 DEF OfferedTrips
<1>3. PICK a \in DOMAIN x.stops, b \in DOMAIN x.stops :
          /\ a < b /\ x.stops[a] = e.from /\ x.stops[b] = s
          /\ x.trip.dep[a] = e.dep /\ x.trip.arr[b] = e.arr
    BY <1>1
<1>4. e.from \in Stations
    BY DEF Entry
<1>5. InTime(RoundLevel(r)[e.from], x, a)
    BY <1>3, <1>4, LevelOfRound DEF InTime, Labelled, ReadyAt
<1> QED BY <1>2, <1>3, <1>5 DEF RideTo

(* A walk of a later round sets out when a vehicle has arrived. *)
LEMMA WalkSetsOut ==
    ASSUME AtEnd, NEW r \in 1..k, NEW u \in Stations, NEW dep \in Int, dep = SetOut(r, u)
    PROVE  /\ preWalk[r][u] \in Entry /\ preWalk[r][u] # NoEntry
           /\ preWalk[r][u].arr = dep /\ preWalk[r][u].kind = "transit"
           /\ News(r, u, preWalk[r][u])
           /\ RideTo(RoundLevel(r-1), OfferedTrips, u, dep)
<1>1. PICK p : p = preWalk[r][u]
    OBVIOUS
<1>2. r \in 0..k /\ r # 0 /\ r - 1 \in 0..k
    BY EndTypes
<1>3. p # NoEntry /\ p.arr = dep
    BY <1>1, <1>2, EndTypes DEF SetOut
<1>4. p \in Entry /\ Traced(r, u)
    BY <1>1, <1>2, <1>3, EndTypes
<1>5. News(r, u, p)
    BY <1>1, <1>3, EndCovered DEF NewsInv, NewsOf
<1>6. /\ p.kind = "transit" /\ RealRide(p, u) /\ tau[p.fromRound][p.from] # Never
      /\ p.dep >= ReadyAt(p.fromRound, p.from)
    BY <1>1, <1>3, <1>4 DEF Traced
<1>7. p.fromRound = r - 1
    BY <1>5, <1>6 DEF News
<1>8. RideTo(RoundLevel(r-1), OfferedTrips, u, p.arr)
    BY <1>2, <1>4, <1>6, <1>7, EntryIsRide
<1> QED BY <1>1, <1>3, <1>4, <1>5, <1>6, <1>8

Walked(r) == {s \in Stations : WalkedIn(r, s)}

LEMMA RoundFollows ==
    ASSUME AtEnd, NEW r \in 1..k
    PROVE  Follows(RoundLevel(r-1), RoundLevel(r), Walked(r), OfferedTrips)
<1>1. r \in 0..k /\ r - 1 \in 0..k /\ r # 0 /\ k \in Nat
    BY EndTypes
<1>2. PICK A, B : A = RoundLevel(r-1) /\ B = RoundLevel(r)
    OBVIOUS
<1>3. /\ A \in Level /\ B \in Level
      /\ \A s \in Stations : /\ A[s].time = tau[r-1][s] /\ B[s].time = tau[r][s]
                             /\ A[s] = RoundLevel(r-1)[s] /\ B[s] = RoundLevel(r)[s]
                             /\ B[s].transit <=> journal[r][s].kind = "transit"
    BY <1>1, <1>2, LevelOfRound
<1>4. ASSUME NEW s \in Stations
      PROVE  \/ A[s] = B[s] /\ s \notin Walked(r) /\ tau[r-1][s] = tau[r][s]
             \/ /\ News(r, s, journal[r][s]) /\ journal[r][s] \in Entry
                /\ tau[r][s] = journal[r][s].arr
  <2>1. CASE Carried(r, s)
    <3>1. A[s] = B[s] /\ tau[r-1][s] = tau[r][s]
        BY <1>2, <2>1 DEF Carried, RoundLevel
    <3>2. ~WalkedIn(r, s)
      <4>1. journal[r-1][s] \in Entry \cup {NoEntry} /\ Justified(r-1, s)
          BY <1>1, EndTypes
      <4>2. CASE journal[r-1][s] = NoEntry
          BY <2>1, <4>2 DEF Carried, WalkedIn, NoEntry
      <4>3. CASE journal[r-1][s] # NoEntry /\ journal[r-1][s].kind = "walk"
        <5>1. journal[r-1][s].fromRound <= r - 1 /\ journal[r-1][s].fromRound \in Nat
            BY <4>1, <4>3 DEF Justified, Entry
        <5> QED BY <1>1, <2>1, <5>1 DEF Carried, WalkedIn
      <4>4. CASE journal[r-1][s].kind # "walk"
          BY <2>1, <4>4 DEF Carried, WalkedIn
      <4> QED BY <4>2, <4>3, <4>4
    <3> QED BY <3>1, <3>2 DEF Walked
  <2>2. CASE News(r, s, journal[r][s])
    <3>1. journal[r][s] # NoEntry /\ Justified(r, s)
        BY <1>1, <2>2, EndTypes DEF News
    <3>2. journal[r][s] \in Entry /\ tau[r][s] = journal[r][s].arr
        BY <1>1, <3>1, EndTypes DEF Justified
    <3> QED BY <2>2, <3>2
  <2> QED BY <2>1, <2>2, EndCovered DEF NewsInv, NewsOf
<1>5. ASSUME NEW s \in Stations, Labelled(A[s])
      PROVE  Arrived(B[s], A[s].time)
  <2>1. A[s].time \in Int /\ tau[r-1][s] # Never /\ tau[r][s] \in Int \cup {Never}
      BY <1>1, <1>3, <1>5, EndTypes DEF Labelled, Level, Label
  <2>2. CASE tau[r-1][s] = tau[r][s]
      BY <1>3, <2>1, <2>2 DEF Arrived
  <2>3. CASE News(r, s, journal[r][s]) /\ journal[r][s] \in Entry /\ tau[r][s] = journal[r][s].arr
    <3>1. tau[r][s] < tau[r-1][s] /\ tau[r][s] \in Int
        BY <2>1, <2>3 DEF News, Beats, Entry
    <3> QED BY <1>3, <2>1, <3>1, EndTypes DEF Arrived
  <2> QED BY <1>4, <2>2, <2>3
<1>6. ASSUME NEW s \in Stations, NEW t \in Int, RideTo(A, OfferedTrips, s, t)
      PROVE  \/ Arrived(B[query.dest], t)
             \/ /\ Arrived(B[s], t)
                /\ B[s].time = t => s \notin Walked(r)
                /\ Arrived(A[s], t) \/ \A w \in net.walks[s] : Near(B, w.to, t + w.secs)
  <2>1. RideCovered(r, s, t)
    <3>1. PICK n \in DOMAIN net.routes : \E i \in DOMAIN net.routes[n].trips :
             \E a, b \in DOMAIN net.routes[n].stops :
               /\ a < b /\ CanRide(r-1, n, i, a)
               /\ net.routes[n].stops[b] = s /\ net.routes[n].trips[i].arr[b] = t
        BY <1>1, <1>2, <1>6, RideIsScanned
    <3> QED BY <3>1, EndCovered
  <2>2. CASE Reached(r, query.dest, t)
      BY <1>3, <2>2, EndTypes DEF Reached, Arrived
  <2>3. CASE /\ Reached(r, s, t)
             /\ tau[r][s] = t => ~WalkedIn(r, s)
             /\ \/ Reached(r-1, s, t)
                \/ net.walks[s] = {}
                \/ SetOut(r, s) # Never /\ SetOut(r, s) <= t
    <3>1. Arrived(B[s], t) /\ (B[s].time = t => s \notin Walked(r))
        BY <1>3, <2>3 DEF Reached, Arrived, Walked
    <3>2. CASE Reached(r-1, s, t)
        BY <1>3, <3>1, <3>2 DEF Reached, Arrived
    <3>3. CASE net.walks[s] = {}
        BY <3>1, <3>3
    <3>4. CASE SetOut(r, s) # Never /\ SetOut(r, s) <= t
      <4>1. SetOut(r, s) \in Int
        <5>1. preWalk[r][s] \in Entry \cup {NoEntry}
            BY <1>1, EndTypes
        <5> QED BY <1>1, <3>4, <5>1 DEF SetOut, Entry
      <4>2. ASSUME NEW w \in net.walks[s]
            PROVE  Near(B, w.to, t + w.secs)
        <5>1. w.to \in Stations /\ w.secs \in Nat
            BY EndTypes DEF WellFormed
        <5>2. Covered(r, w.to, SetOut(r, s) + w.secs)
            BY <1>1, <3>4, EndCovered
        <5>3. /\ tau[r][w.to] \in Int \cup {Never} /\ tau[r][query.dest] \in Int \cup {Never}
              /\ SetOut(r, s) + w.secs <= t + w.secs
              /\ SetOut(r, s) + w.secs \in Int /\ t + w.secs \in Int
            BY <1>1, <3>4, <4>1, <5>1, EndTypes
        <5> QED BY <1>3, <5>1, <5>2, <5>3, EndTypes DEF Covered, Reached, Near, Arrived
      <4> QED BY <3>1, <4>2
    <3> QED BY <2>3, <3>2, <3>3, <3>4
  <2> QED BY <2>1, <2>2, <2>3 DEF RideCovered
<1>7. ASSUME NEW s \in Stations, News(r, s, journal[r][s]), journal[r][s] \in Entry,
             tau[r][s] = journal[r][s].arr
      PROVE  /\ Labelled(B[s]) /\ Beats(B[s].time, A[s].time)
             /\ Beats(B[s].time, A[query.dest].time)
             /\ \/ B[s].transit /\ RideTo(A, OfferedTrips, s, B[s].time)
                \/ /\ ~B[s].transit /\ s \in Walked(r)
                   /\ \E u \in Stations, m \in Int :
                        /\ RideTo(A, OfferedTrips, u, m) /\ Beats(m, A[u].time)
                        /\ Beats(m, A[query.dest].time)
                        /\ \E w \in net.walks[u] : w.to = s /\ B[s].time = m + w.secs
  <2>1. PICK e : e = journal[r][s]
      OBVIOUS
  <2>2. /\ e \in Entry /\ e.kind \in {"transit", "walk"} /\ e # NoEntry
        /\ B[s].time = e.arr /\ e.arr \in Int /\ e.from \in Stations
        /\ Beats(e.arr, A[s].time) /\ Beats(e.arr, A[query.dest].time)
        /\ Justified(r, s) /\ Traced(r, s)
      BY <1>1, <1>3, <1>7, <2>1, EndTypes DEF News, Entry
  <2>3. Labelled(B[s])
      BY <2>2, EndTypes DEF Labelled
  <2>4. CASE e.kind = "transit"
    <3>1. /\ e.fromRound = r - 1 /\ RealRide(e, s)
          /\ tau[e.fromRound][e.from] # Never /\ e.dep >= ReadyAt(e.fromRound, e.from)
        BY <1>7, <2>1, <2>2, <2>4 DEF News, Traced, Justified
    <3>2. RideTo(A, OfferedTrips, s, e.arr)
        BY <1>1, <1>2, <2>2, <3>1, EntryIsRide
    <3> QED BY <1>3, <2>1, <2>2, <2>3, <2>4, <3>2
  <2>5. CASE e.kind = "walk"
    <3>1. e.fromRound = r /\ e.dep = SetOut(r, e.from) /\ e.dep \in Int
        BY <1>7, <2>1, <2>2, <2>5 DEF News, Entry
    <3>2. s \in Walked(r) /\ ~B[s].transit
        BY <1>3, <2>1, <2>5, <3>1 DEF Walked, WalkedIn
    <3>3. PICK u, m : u = e.from /\ m = e.dep
        OBVIOUS
    <3>4. /\ u \in Stations /\ m \in Int /\ preWalk[r][u].arr = m
          /\ RideTo(A, OfferedTrips, u, m) /\ News(r, u, preWalk[r][u])
        BY <1>2, <2>2, <3>1, <3>3, WalkSetsOut
    <3>5. Beats(m, A[u].time) /\ Beats(m, A[query.dest].time)
        BY <1>3, <3>4, EndTypes DEF News
    <3>6. \E w \in net.walks[u] : w.to = s /\ e.arr = m + w.secs
        BY <2>1, <2>2, <2>5, <3>3 DEF Justified
    <3> QED BY <2>2, <2>3, <3>2, <3>4, <3>5, <3>6
  <2> QED BY <2>2, <2>4, <2>5
<1>8. ASSUME NEW s \in Stations
      PROVE  \/ A[s] = B[s] /\ s \notin Walked(r)
             \/ /\ Labelled(B[s]) /\ Beats(B[s].time, A[s].time)
                /\ Beats(B[s].time, A[query.dest].time)
                /\ \/ B[s].transit /\ RideTo(A, OfferedTrips, s, B[s].time)
                   \/ /\ ~B[s].transit /\ s \in Walked(r)
                      /\ \E u \in Stations, m \in Int :
                           /\ RideTo(A, OfferedTrips, u, m) /\ Beats(m, A[u].time)
                           /\ Beats(m, A[query.dest].time)
                           /\ \E w \in net.walks[u] : w.to = s /\ B[s].time = m + w.secs
    BY <1>4, <1>7
<1>9. Follows(A, B, Walked(r), OfferedTrips)
    BY <1>5, <1>6, <1>8 DEF Follows
<1> QED BY <1>2, <1>9

(* When nothing was improved any more, another round would change nothing. *)
LEMMA LastRoundFollows ==
    ASSUME AtEnd, improved = {}
    PROVE  Follows(RoundLevel(k), RoundLevel(k), {}, OfferedTrips)
<1>1. k # 0
  <2>1. CASE k = 0
    <3>1. 0 \in 0..k
        BY <2>1
    <3>2. tau[0][query.origin] = Never
        BY <2>1, EndCovered, EndTypes DEF NewsInv
    <3>3. journal[0][query.origin] = NoEntry
        BY <3>1, EndCovered DEF TimesInv
    <3>4. Justified(0, query.origin)
        BY <3>1, EndTypes
    <3> QED BY <3>2, <3>3, <3>4, EndTypes DEF Justified
  <2> QED BY <2>1
<1>2. k \in 1..k /\ k \in 0..k /\ k - 1 \in 0..k
    BY <1>1, EndTypes
<1>3. \A s \in Stations : Carried(k, s)
    BY <1>2, EndCovered DEF NewsInv
<1>4. PICK A : A = RoundLevel(k)
    OBVIOUS
<1>5. A = RoundLevel(k-1) /\ A \in Level
  <2>1. A \in Level
      BY <1>2, <1>4, LevelOfRound
  <2>2. \A s \in Stations : tau[k][s] = tau[k-1][s] /\ journal[k][s] = journal[k-1][s]
      BY <1>3 DEF Carried
  <2>3. A = RoundLevel(k-1)
      BY <1>4, <2>2 DEF RoundLevel
  <2> QED BY <2>1, <2>3
<1>6. Follows(A, A, Walked(k), OfferedTrips)
    BY <1>2, <1>4, <1>5, RoundFollows
<1>7. Follows(A, A, {}, OfferedTrips)
    BY <1>6 DEF Follows
<1> QED BY <1>4, <1>7

(***************************************************************************)
(* The levels that BestArrivals reads                                      *)
(***************************************************************************)

StartLevel ==
    [s \in Stations |->
       LET from0 == {query.dep + w.secs : w \in {x \in net.walks[query.origin] : x.to = s}}
       IN  [time |-> IF s = query.origin THEN query.dep
                     ELSE IF from0 = {} THEN Never ELSE Min(from0),
            transit |-> FALSE]]

Levels == {l \in Level : NotBefore(l, query.dep)}

LevelsOf(f) ==
    /\ f \in [0..MaxRounds -> Levels]
    /\ f[0] = StartLevel
    /\ \A r \in 1..MaxRounds : f[r] = NextLevel(f[r-1], OfferedTrips)

LEMMA StartIs ==
    ASSUME TypeOK
    PROVE  /\ StartLevel \in Levels
           /\ StartLevel[query.origin] = [time |-> query.dep, transit |-> FALSE]
           /\ \A s \in Stations \ {query.origin} :
                /\ StartLevel[s] = [time |-> StartLevel[s].time, transit |-> FALSE]
                /\ StartLevel[s].time # Never =>
                     \E w \in net.walks[query.origin] :
                       w.to = s /\ StartLevel[s].time = query.dep + w.secs
                /\ \A w \in net.walks[query.origin] :
                     w.to = s => Arrived(StartLevel[s], query.dep + w.secs)
<1>1. /\ query.origin \in Stations /\ query.dep \in Int /\ WellFormed(net) /\ Never \notin Int
    BY RaptorAssumption, TimetableAssumption DEF TypeOK, RaptorAssumption, TimetableAssumption
<1> DEFINE from0(s) == {query.dep + w.secs : w \in {x \in net.walks[query.origin] : x.to = s}}
<1>2. ASSUME NEW s \in Stations
      PROVE  /\ from0(s) \in SUBSET Int
             /\ \A t \in from0(s) : t >= query.dep
             /\ from0(s) # {} => Min(from0(s)) \in from0(s) /\ \A t \in from0(s) : Min(from0(s)) <= t
  <2>1. \A w \in net.walks[query.origin] : w.secs \in Nat
      BY <1>1 DEF WellFormed
  <2>2. from0(s) \in SUBSET Int /\ \A t \in from0(s) : t >= query.dep
      BY <1>1, <2>1
  <2> HIDE DEF from0
  <2>3. from0(s) # {} => Min(from0(s)) \in from0(s) /\ \A t \in from0(s) : Min(from0(s)) <= t
      BY <1>1, <2>2, MinOfTimes
  <2> QED BY <2>2, <2>3
<1>3. StartLevel = [s \in Stations |-> [time |-> IF s = query.origin THEN query.dep
                                                 ELSE IF from0(s) = {} THEN Never ELSE Min(from0(s)),
                                        transit |-> FALSE]]
    BY DEF StartLevel
<1>4. \A s \in Stations : \A t : t \in from0(s) <=>
          \E w \in net.walks[query.origin] : w.to = s /\ t = query.dep + w.secs
    OBVIOUS
<1> HIDE DEF from0
<1>5. ASSUME NEW s \in Stations
      PROVE  /\ StartLevel[s] = [time |-> StartLevel[s].time, transit |-> FALSE]
             /\ StartLevel[s].time = IF s = query.origin THEN query.dep
                                     ELSE IF from0(s) = {} THEN Never ELSE Min(from0(s))
             /\ StartLevel[s] \in Label
             /\ StartLevel[s].time # Never => StartLevel[s].time >= query.dep
  <2>1. StartLevel[s].time \in Int \cup {Never}
      BY <1>1, <1>2, <1>3
  <2>2. /\ StartLevel[s] = [time |-> StartLevel[s].time, transit |-> FALSE]
        /\ StartLevel[s].time = IF s = query.origin THEN query.dep
                                ELSE IF from0(s) = {} THEN Never ELSE Min(from0(s))
      BY <1>3
  <2>3. StartLevel[s] \in Label
    <3>1. PICK t : t = StartLevel[s].time
        OBVIOUS
    <3>2. [time |-> t, transit |-> FALSE] \in Label
        BY <2>1, <3>1 DEF Label
    <3> QED BY <2>2, <3>1, <3>2
  <2>4. StartLevel[s].time # Never => StartLevel[s].time >= query.dep
      BY <1>1, <1>2, <2>2
  <2> QED BY <2>2, <2>3, <2>4
<1>6. StartLevel \in Levels
  <2>1. StartLevel = [s \in Stations |-> StartLevel[s]]
      BY <1>3
  <2> QED BY <1>5, <2>1 DEF Levels, Level, NotBefore, Labelled
<1>7. ASSUME NEW s \in Stations \ {query.origin}
      PROVE  /\ StartLevel[s].time # Never =>
                  \E w \in net.walks[query.origin] :
                    w.to = s /\ StartLevel[s].time = query.dep + w.secs
             /\ \A w \in net.walks[query.origin] :
                  w.to = s => Arrived(StartLevel[s], query.dep + w.secs)
  <2>1. CASE from0(s) = {}
      BY <1>4, <1>5, <2>1
  <2>2. CASE from0(s) # {}
    <3>1. StartLevel[s].time \in from0(s) /\ \A t \in from0(s) : StartLevel[s].time <= t
        BY <1>2, <1>5, <2>2
    <3> QED BY <1>1, <1>2, <1>4, <3>1 DEF Arrived
  <2> QED BY <2>1, <2>2
<1> QED BY <1>1, <1>5, <1>6, <1>7

(* The recursive function of the reference exists and is what it says. *)
LEMMA LevelsExist ==
    TypeOK /\ TravelsForward(net) =>
        \E f : LevelsOf(f) /\ BestArrivals = [r \in 0..MaxRounds |-> f[r][query.dest]]
<1> SUFFICES ASSUME TypeOK, TravelsForward(net)
             PROVE  \E f : LevelsOf(f) /\ BestArrivals = [r \in 0..MaxRounds |-> f[r][query.dest]]
    OBVIOUS
<1>1. WellFormed(net) /\ query.dep \in Int /\ MaxRounds \in Nat
    BY RaptorAssumption DEF TypeOK, RaptorAssumption
<1>2. TripsOK(OfferedTrips)
    BY <1>1, OfferedOK
<1>3. StartLevel \in Levels
    BY StartIs
<1>4. PICK T : T = OfferedTrips
    OBVIOUS
<1>5. ASSUME NEW l \in Levels
      PROVE  NextLevel(l, T) \in Levels
  <2>1. NextLevel(l, T) \in Level /\ NotBefore(NextLevel(l, T), query.dep)
    <3>1. PICK next : next = NextLevel(l, T)
        OBVIOUS
    <3>2. next \in Level /\ NotBefore(next, query.dep)
        BY <1>1, <1>2, <1>4, <3>1, NextLevelIs DEF Levels
    <3> QED BY <3>1, <3>2
  <2> QED BY <2>1 DEF Levels
<1>6. PICK F : F = [l \in Levels |-> NextLevel(l, T)]
    OBVIOUS
<1>7. F \in [Levels -> Levels]
    BY <1>5, <1>6
<1>8. PICK N \in Nat : N = MaxRounds
    BY <1>1
<1>10. PICK first : first = StartLevel
    OBVIOUS
<1>9. PICK f \in [0..N -> Levels] : /\ f[0] = StartLevel
                                    /\ \A n \in 1..N : f[n] = F[f[n-1]]
  <2>1. PICK f : Turns(Levels, StartLevel, F, N, f)
      BY <1>3, <1>7, <1>8, LoopRuns
  <2> QED BY <2>1 DEF Turns
<1> DEFINE Is(g) == g = [r \in 0..MaxRounds |-> IF r = 0 THEN StartLevel
                                                ELSE NextLevel(g[r-1], OfferedTrips)]
           level == CHOOSE g : Is(g)
<1>11. Is(f)
  <2>1. ASSUME NEW r \in 0..N
        PROVE  f[r] = IF r = 0 THEN first ELSE NextLevel(f[r-1], T)
    <3>1. CASE r = 0
        BY <1>9, <1>10, <3>1
    <3>2. CASE r # 0
      <4>1. r \in 1..N /\ r - 1 \in 0..N
          BY <1>1, <1>8, <3>2
      <4>2. f[r-1] \in Levels /\ f[r] = F[f[r-1]]
          BY <1>9, <4>1
      <4> QED BY <1>6, <3>2, <4>2
    <3> QED BY <3>1, <3>2
  <2>2. f = [r \in 0..N |-> IF r = 0 THEN first ELSE NextLevel(f[r-1], T)]
      BY <2>1
  <2> QED BY <1>4, <1>8, <1>10, <2>2
<1>12. Is(level)
    BY <1>11
<1>13. BestArrivals = [r \in 0..MaxRounds |-> level[r][query.dest]]
    BY DEF BestArrivals, StartLevel, OfferedTrips
<1> HIDE DEF level
<1>14. level = [r \in 0..N |-> IF r = 0 THEN first ELSE NextLevel(level[r-1], T)]
    BY <1>4, <1>8, <1>10, <1>12
<1>15. /\ level[0] = first
       /\ \A r \in 1..N : level[r] = NextLevel(level[r-1], T)
  <2>1. ASSUME NEW g, g = [r \in 0..N |-> IF r = 0 THEN first ELSE NextLevel(level[r-1], T)]
        PROVE  g[0] = first /\ \A r \in 1..N : g[r] = NextLevel(level[r-1], T)
      BY <1>1, <1>8, <2>1
  <2> QED BY <1>14, <2>1
<1>16. \A r \in 0..N : level[r] \in Levels
  <2> DEFINE P == {r \in 0..N : level[r] \in Levels}
  <2>1. 0 \in P
      BY <1>1, <1>3, <1>10, <1>15
  <2>2. ASSUME NEW r \in 1..N, r-1 \in P PROVE r \in P
      BY <1>5, <1>15, <2>2
  <2> HIDE DEF P
  <2>3. \A r \in 0..N : r \in P
      BY <1>1, <1>8, <2>1, <2>2, Induct
  <2> QED BY <2>3 DEF P
<1>17. level \in [0..N -> Levels]
    BY <1>14, <1>16
<1> QED BY <1>4, <1>8, <1>10, <1>13, <1>15, <1>17 DEF LevelsOf

LEMMA LevelsAreUnique ==
    ASSUME NEW f, NEW g, LevelsOf(f), LevelsOf(g)
    PROVE  f = g
<1>1. MaxRounds \in Nat
    BY RaptorAssumption DEF RaptorAssumption
<1> DEFINE P == {r \in 0..MaxRounds : f[r] = g[r]}
<1>2. 0 \in P
    BY <1>1 DEF LevelsOf
<1>3. ASSUME NEW r \in 1..MaxRounds, r-1 \in P PROVE r \in P
    BY <1>3 DEF LevelsOf
<1>4. \A r \in 0..MaxRounds : r \in P
  <2> HIDE DEF P
  <2> QED BY <1>1, <1>2, <1>3, Induct
<1>5. \A r \in 0..MaxRounds : f[r] = g[r]
    BY <1>4
<1>6. /\ f = [r \in 0..MaxRounds |-> f[r]]
      /\ g = [r \in 0..MaxRounds |-> g[r]]
    BY DEF LevelsOf
<1> QED BY <1>5, <1>6

LEMMA SameLabel ==
    ASSUME NEW x \in Label, NEW y \in Label, x.time = y.time, x.transit <=> y.transit
    PROVE  x = y
<1>1. x.transit = y.transit
    BY DEF Label
<1> QED BY <1>1 DEF Label

LEMMA StartAgrees ==
    ASSUME AtEnd, query.origin # query.dest
    PROVE  Agree(StartLevel, RoundLevel(0))
<1>1. 0 \in 0..k
    BY EndTypes
<1>2. PICK A, B, d : A = StartLevel /\ B = RoundLevel(0) /\ d = A[query.dest].time
    OBVIOUS
<1>3. /\ d \in Int \cup {Never} /\ Never \notin Int
      /\ query.dest \in Stations \ {query.origin} /\ query.origin \in Stations /\ query.dep \in Int
      /\ \A s \in Stations : /\ A[s] \in Label /\ B[s] \in Label
                             /\ A[s].time \in Int \cup {Never} /\ ~A[s].transit
                             /\ B[s].time = tau[0][s]
                             /\ B[s].transit <=> journal[0][s].kind = "transit"
      /\ A[query.origin].time = query.dep
      /\ \A s \in Stations \ {query.origin} :
           /\ A[s].time # Never => \E w \in net.walks[query.origin] :
                                     w.to = s /\ A[s].time = query.dep + w.secs
           /\ \A w \in net.walks[query.origin] :
                w.to = s => A[s].time # Never /\ A[s].time <= query.dep + w.secs
  <2>1. A \in Level /\ B \in Level
      BY <1>1, <1>2, StartIs, LevelOfRound, EndTypes DEF Levels
  <2>2. \A s \in Stations : /\ B[s].time = tau[0][s]
                            /\ B[s].transit <=> journal[0][s].kind = "transit"
      BY <1>1, <1>2, LevelOfRound
  <2>3. /\ query.dest \in Stations \ {query.origin} /\ query.origin \in Stations
        /\ query.dep \in Int /\ TypeOK /\ Never \notin Int
      BY EndTypes
  <2>4. /\ A[query.origin] = [time |-> query.dep, transit |-> FALSE]
        /\ \A s \in Stations \ {query.origin} :
             /\ A[s] = [time |-> A[s].time, transit |-> FALSE]
             /\ A[s].time # Never => \E w \in net.walks[query.origin] :
                                       w.to = s /\ A[s].time = query.dep + w.secs
             /\ \A w \in net.walks[query.origin] : w.to = s => Arrived(A[s], query.dep + w.secs)
      BY <1>2, <2>3, StartIs
  <2>5. \A s \in Stations : ~A[s].transit
    <3> TAKE s \in Stations
    <3>1. CASE s = query.origin
        BY <2>4, <3>1
    <3>2. CASE s # query.origin
      <4>1. A[s] = [time |-> A[s].time, transit |-> FALSE]
          BY <2>4, <3>2
      <4>2. PICK t : t = A[s].time
          OBVIOUS
      <4> QED BY <4>1, <4>2
    <3> QED BY <3>1, <3>2
  <2> QED BY <1>2, <2>1, <2>2, <2>3, <2>4, <2>5 DEF Level, Label, Arrived
(* What round 0 holds: the origin and the walks from it. *)
<1>4. B[query.origin].time = query.dep /\ ~B[query.origin].transit
  <2>1. journal[0][query.origin] = NoEntry /\ Justified(0, query.origin)
      BY <1>1, EndCovered, EndTypes DEF TimesInv
  <2> QED BY <1>3, <2>1 DEF Justified, NoEntry
<1>5. ASSUME NEW s \in Stations \ {query.origin}
      PROVE  /\ ~(journal[0][s].kind = "transit")
             /\ tau[0][s] # Never => \E w \in net.walks[query.origin] :
                                       w.to = s /\ tau[0][s] = query.dep + w.secs
  <2>1. Justified(0, s) /\ journal[0][s] \in Entry \cup {NoEntry}
      BY <1>1, EndTypes
  <2>2. CASE journal[0][s] = NoEntry
      BY <2>1, <2>2 DEF Justified, NoEntry
  <2>3. CASE journal[0][s] # NoEntry
    <3>1. /\ journal[0][s].kind = "walk" /\ journal[0][s].from = query.origin
          /\ journal[0][s].dep = query.dep
        BY <2>3, EndCovered DEF NewsInv, WalkedIn
    <3> QED BY <2>1, <2>3, <3>1 DEF Justified
  <2> QED BY <2>2, <2>3
<1>6. \A w \in net.walks[query.origin] : Covered(0, w.to, query.dep + w.secs)
  <2>1. SetOut(0, query.origin) = query.dep /\ query.dep # Never
      BY <1>3 DEF SetOut
  <2> QED BY <1>1, <1>3, <2>1, EndCovered
<1>7. \A w \in net.walks[query.origin] : w.to \in Stations /\ w.secs \in Nat
    BY <1>3, EndTypes DEF WellFormed
<1>8. \A s \in Stations : tau[0][s] \in Int \cup {Never}
    BY <1>1, EndTypes
<1>9. tau[0][query.dest] = d
  <2>1. tau[0][query.dest] # Never => d # Never /\ d <= tau[0][query.dest]
      BY <1>2, <1>3, <1>5
  <2>2. d # Never => tau[0][query.dest] # Never /\ tau[0][query.dest] <= d
      BY <1>2, <1>3, <1>6, <1>7 DEF Covered, Reached
  <2> QED BY <1>3, <1>8, <2>1, <2>2
<1>10. ASSUME NEW s \in Stations, Below(A[s], d) \/ Below(B[s], d)
       PROVE  A[s] = B[s]
  <2>1. CASE s = query.origin
      BY <1>3, <1>4, <2>1, SameLabel
  <2>2. CASE s # query.origin
    <3>1. PICK x, y : x = A[s].time /\ y = tau[0][s]
        OBVIOUS
    <3>2. y # Never => x # Never /\ x <= y
        BY <1>3, <1>5, <2>2, <3>1
    <3>3. x # Never /\ Beats(x, d) => y # Never /\ y <= x
      <4> SUFFICES ASSUME x # Never, Beats(x, d) PROVE y # Never /\ y <= x
          OBVIOUS
      <4>1. PICK w \in net.walks[query.origin] : w.to = s /\ x = query.dep + w.secs
          BY <1>3, <2>2, <3>1
      <4>2. Covered(0, s, x)
          BY <1>6, <4>1
      <4> QED BY <1>3, <1>8, <1>9, <3>1, <4>2 DEF Covered, Reached, Beats
    <3>4. x \in Int \cup {Never} /\ y \in Int \cup {Never}
        BY <1>3, <1>8, <3>1
    <3>5. (x # Never /\ Beats(x, d)) \/ (y # Never /\ Beats(y, d))
      <4>1. B[s].time = y
          BY <1>3, <3>1
      <4> QED BY <1>10, <3>1, <4>1 DEF Below, Labelled
    <3>6. x = y
        BY <1>3, <3>2, <3>3, <3>4, <3>5 DEF Beats
    <3>7. A[s].time = B[s].time
        BY <1>3, <3>1, <3>6
    <3>8. A[s].transit <=> B[s].transit
        BY <1>3, <1>5, <2>2
    <3>9. A[s] \in Label /\ B[s] \in Label
        BY <1>3
    <3> QED BY <3>7, <3>8, <3>9, SameLabel
  <2> QED BY <2>1, <2>2
<1>11. Agree(A, B)
    BY <1>2, <1>3, <1>9, <1>10 DEF Agree
<1> QED BY <1>2, <1>11

(* The arrival of every level is that of its round, or of the last one. *)
RoundOf(r) == IF r <= k THEN r ELSE k

LEMMA BestAreRounds ==
    ASSUME AtEnd, ~MoreRounds, query.origin # query.dest, NEW r \in 0..MaxRounds
    PROVE  BestArrivals[r].time = tau[RoundOf(r)][query.dest]
<1>1. TypeOK /\ TravelsForward(net) /\ WellFormed(net)
      /\ k \in Nat /\ k <= MaxRounds /\ MaxRounds \in Nat
      /\ query.dest \in Stations /\ query.dep \in Int
    BY EndTypes
<1>2. PICK f : LevelsOf(f) /\ BestArrivals = [n \in 0..MaxRounds |-> f[n][query.dest]]
    BY <1>1, LevelsExist
<1> DEFINE P == {n \in 0..MaxRounds : Agree(f[n], RoundLevel(RoundOf(n)))}
<1>3. 0 \in P
  <2>1. RoundOf(0) = 0 /\ f[0] = StartLevel
      BY <1>1, <1>2 DEF RoundOf, LevelsOf
  <2>2. Agree(StartLevel, RoundLevel(0))
      BY StartAgrees
  <2> QED BY <1>1, <2>1, <2>2
<1>4. TripsOK(OfferedTrips)
    BY <1>1, OfferedOK
<1>5. ASSUME NEW n \in 1..MaxRounds, n-1 \in P
      PROVE  n \in P
  <2>1. PICK m, l, A, B : /\ m = f[n-1] /\ l = f[n]
                          /\ A = RoundLevel(RoundOf(n-1)) /\ B = RoundLevel(RoundOf(n))
      OBVIOUS
  <2>2. /\ n - 1 \in 0..MaxRounds /\ RoundOf(n-1) \in 0..k /\ RoundOf(n) \in 0..k
        /\ n <= k => RoundOf(n) = n /\ RoundOf(n-1) = n - 1 /\ n \in 1..k
        /\ n > k => RoundOf(n) = k /\ RoundOf(n-1) = k
      BY <1>1 DEF RoundOf
  <2>3. /\ m \in Level /\ NotBefore(m, query.dep) /\ l = NextLevel(m, OfferedTrips)
      BY <1>2, <2>1, <2>2 DEF LevelsOf, Levels
  <2>4. A \in Level /\ B \in Level
      BY <2>1, <2>2, LevelOfRound
  <2>5. Agree(m, A)
      BY <1>5, <2>1
  <2>6. \E W : Follows(A, B, W, OfferedTrips)
    <3>1. CASE n <= k
      <4>1. Follows(RoundLevel(n-1), RoundLevel(n), Walked(n), OfferedTrips)
          BY <2>2, <3>1, RoundFollows
      <4> QED BY <2>1, <2>2, <3>1, <4>1
    <3>2. CASE n > k
      <4>1. improved = {}
          BY <1>1, <3>2 DEF MoreRounds
      <4>2. Follows(RoundLevel(k), RoundLevel(k), {}, OfferedTrips)
          BY <4>1, LastRoundFollows
      <4> QED BY <2>1, <2>2, <3>2, <4>2
    <3> QED BY <1>1, <3>1, <3>2
  <2>7. Agree(l, B)
      BY <1>1, <1>4, <2>3, <2>4, <2>5, <2>6, StepAgrees
  <2> QED BY <2>1, <2>7
<1>6. r \in P
  <2> HIDE DEF P
  <2> QED BY <1>1, <1>3, <1>5, Induct
<1>7. Agree(f[r], RoundLevel(RoundOf(r)))
    BY <1>6
<1>10. f[r][query.dest].time = RoundLevel(RoundOf(r))[query.dest].time
    BY <1>7 DEF Agree
<1>8. RoundOf(r) \in 0..k
    BY <1>1 DEF RoundOf
<1>9. RoundLevel(RoundOf(r))[query.dest].time = tau[RoundOf(r)][query.dest]
    BY <1>1, <1>8, LevelOfRound
<1> QED BY <1>2, <1>9, <1>10

(***************************************************************************)
(* buildPath finds a journey for every round that improves the arrival     *)
(***************************************************************************)

LEMMA RidesTakeTime ==
    ASSUME WellFormed(net), TravelsForward(net), NEW e, NEW s, RealRide(e, s)
    PROVE  e.dep <= e.arr
<1>1. PICK x \in AllTrips : \E a, b \in DOMAIN x.stops :
          a < b /\ x.trip.dep[a] = e.dep /\ x.trip.arr[b] = e.arr
    BY DEF RealRide
<1>2. PICK n \in DOMAIN net.routes : \E i \in DOMAIN net.routes[n].trips :
          x = [stops |-> net.routes[n].stops, trip |-> net.routes[n].trips[i]]
    BY <1>1 DEF AllTrips
<1>3. PICK i \in DOMAIN net.routes[n].trips :
          x = [stops |-> net.routes[n].stops, trip |-> net.routes[n].trips[i]]
    BY <1>2
<1>4. \E a, b \in DOMAIN net.routes[n].stops :
          a < b /\ net.routes[n].trips[i].dep[a] = e.dep /\ net.routes[n].trips[i].arr[b] = e.arr
    BY <1>1, <1>3
<1> QED BY <1>4 DEF TravelsForward

(* Who boards with a label that a round only carried over could have done  *)
(* so a round earlier: a ride that is news was boarded with news.          *)
LEMMA BoardedIsNews ==
    ASSUME AtEnd, NEW r \in 2..k, NEW s \in Stations, NEW e \in Entry, News(r, s, e),
           RealRide(e, s), tau[r-1][e.from] # Never, e.dep >= ReadyAt(r-1, e.from)
    PROVE  News(r-1, e.from, journal[r-1][e.from])
<1>1. PICK q, u, t : q = r - 1 /\ u = e.from /\ t = e.arr
    OBVIOUS
<1>2. /\ q \in 1..k /\ q \in 0..k /\ q - 1 \in 0..k /\ u \in Stations /\ t \in Int
      /\ query.dest \in Stations
    BY <1>1, EndTypes DEF Entry
<1> SUFFICES ASSUME Carried(q, u) PROVE FALSE
    BY <1>1, <1>2, EndCovered DEF NewsInv, NewsOf
<1>3. tau[q-1][u] # Never /\ e.dep >= ReadyAt(q-1, u)
    BY <1>1 DEF Carried, ReadyAt
<1>4. RideTo(RoundLevel(q-1), OfferedTrips, s, t)
    BY <1>1, <1>2, <1>3, EntryIsRide
<1>5. Arrived(RoundLevel(q)[query.dest], t) \/ Arrived(RoundLevel(q)[s], t)
  <2>1. Follows(RoundLevel(q-1), RoundLevel(q), Walked(q), OfferedTrips)
      BY <1>2, RoundFollows
  <2> QED BY <1>2, <1>4, <2>1 DEF Follows
<1>6. /\ RoundLevel(q)[query.dest].time = tau[q][query.dest]
      /\ RoundLevel(q)[s].time = tau[q][s]
      /\ tau[q][s] \in Int \cup {Never} /\ tau[q][query.dest] \in Int \cup {Never}
    BY <1>2, LevelOfRound, EndTypes
<1>7. Beats(t, tau[q][s]) /\ Beats(t, tau[q][query.dest])
    BY <1>1 DEF News
<1> QED BY <1>2, <1>5, <1>6, <1>7, EndTypes DEF Arrived, Beats

LEMMA TransitLegsInFront ==
    ASSUME NEW legs \in Seq(Leg), NEW l \in Leg
    PROVE  /\ TransitLegs(legs) \in Nat
           /\ TransitLegs(<<l>> \o legs) = TransitLegs(legs) + IF l.kind = "transit" THEN 1 ELSE 0
<1>1. PICK t : t = <<l>> \o legs
    OBVIOUS
<1>2. PICK n \in Nat : n = Len(legs)
    OBVIOUS
<1>3. /\ DOMAIN legs = 1..n /\ DOMAIN t = 1..n+1 /\ t[1] = l
      /\ \A i \in 1..n : t[i+1] = legs[i]
    BY <1>1, <1>2
<1>4. PICK S, T, U : /\ S = {i \in 1..n : legs[i].kind = "transit"}
                     /\ T = {i \in 1..n+1 : t[i].kind = "transit"}
                     /\ U = {i \in 2..n+1 : t[i].kind = "transit"}
    OBVIOUS
<1>5. TransitLegs(legs) = Cardinality(S) /\ TransitLegs(t) = Cardinality(T)
    BY <1>3, <1>4 DEF TransitLegs
<1>6. IsFiniteSet(S) /\ Cardinality(S) \in Nat
  <2>1. IsFiniteSet(1..n) /\ S \subseteq 1..n
      BY <1>4, FS_Interval
  <2> QED BY <2>1, FS_Subset, FS_CardinalityType
<1>7. IsFiniteSet(U) /\ Cardinality(U) = Cardinality(S)
  <2>1. PICK f : f = [i \in S |-> i + 1]
      OBVIOUS
  <2>2. \A i \in S : i \in 1..n /\ i + 1 \in U /\ f[i] = i + 1
      BY <1>3, <1>4, <2>1
  <2>3. \A j \in U : j - 1 \in S /\ f[j-1] = j
    <3> TAKE j \in U
    <3>1. j \in 2..n+1 /\ j - 1 \in 1..n /\ t[(j-1)+1] = legs[j-1] /\ (j-1)+1 = j
        BY <1>3, <1>4
    <3>2. j - 1 \in S
        BY <1>4, <3>1
    <3> QED BY <2>2, <3>1, <3>2
  <2>4. f \in Bijection(S, U)
    <3>1. f \in [S -> U]
        BY <2>1, <2>2
    <3>2. \A a, b \in S : f[a] = f[b] => a = b
        BY <2>2
    <3>3. \A j \in U : \E i \in S : f[i] = j
        BY <2>3
    <3> QED BY <3>1, <3>2, <3>3 DEF Bijection, Injection, Surjection, IsInjective
  <2>5. ExistsBijection(S, U)
      BY <2>4 DEF ExistsBijection
  <2> QED BY <1>6, <2>5, FS_Bijection
<1>8. CASE l.kind = "transit"
  <2>1. T = U \cup {1} /\ 1 \notin U
      BY <1>3, <1>4, <1>8
  <2>2. Cardinality(T) = Cardinality(U) + 1
      BY <1>7, <2>1, FS_AddElement
  <2> QED BY <1>1, <1>5, <1>6, <1>7, <1>8, <2>2
<1>9. CASE l.kind # "transit"
  <2>1. T = U
      BY <1>3, <1>4, <1>9
  <2> QED BY <1>1, <1>5, <1>6, <1>7, <1>9, <2>1
<1> QED BY <1>8, <1>9

JoinedLegs(legs) ==
    /\ legs \in Seq(Leg)
    /\ \A i \in DOMAIN legs : legs[i].dep <= legs[i].arr
    /\ \A i \in 2..Len(legs) : legs[i-1].to = legs[i].from /\ legs[i-1].arr <= legs[i].dep

(* On the way back from what round r found: the label it stands at is news *)
(* of its round, the legs join and reach the destination, and nothing of   *)
(* an earlier round was visited.                                           *)
BackFinds(r, b) ==
    /\ b \in [at: Stations, round: 0..r, legs: Seq(Leg),
              visited: SUBSET (Nat \X Stations), broken: BOOLEAN]
    /\ ~b.broken
    /\ b.round >= 1 => News(b.round, b.at, journal[b.round][b.at])
    /\ tau[b.round][b.at] # Never
    /\ TransitLegs(b.legs) + b.round = r
    /\ JoinedLegs(b.legs)
    /\ b.legs = <<>> => b.round = r /\ b.at = query.dest
    /\ b.legs # <<>> =>
         /\ b.legs[1].from = b.at
         /\ b.legs[Len(b.legs)].to = query.dest
         /\ b.legs[Len(b.legs)].arr = tau[r][query.dest]
         /\ b.legs[1].kind = "transit" => b.legs[1].dep >= ReadyAt(b.round, b.at)
         /\ b.legs[1].kind = "walk" => b.legs[1].dep = SetOut(b.round, b.at) /\ b.legs[1].to # b.at
    /\ \A v \in b.visited :
         /\ v[1] >= b.round
         /\ v[1] = b.round => b.legs # <<>> /\ b.legs[1].kind = "walk" /\ v[2] = b.legs[1].to

LEMMA EntryToFollow ==
    ASSUME AtEnd, NEW r \in 0..k, NEW b, BackFinds(r, b), b.at # query.origin,
           NEW q, q = b.round, NEW s, s = b.at, NEW e, e = EntryBefore(b)
    PROVE  /\ journal[q][s] # NoEntry /\ e \in Entry /\ e.kind \in {"transit", "walk"}
           /\ e.kind = "transit" => /\ q >= 1 /\ e.fromRound = q - 1
                                    /\ News(q, s, e) /\ RealRide(e, s)
                                    /\ tau[q-1][e.from] # Never
                                    /\ e.dep >= ReadyAt(q-1, e.from)
           /\ e.kind = "walk" => /\ ~(b.legs # <<>> /\ b.legs[1].kind = "walk")
                                 /\ e.fromRound = q /\ tau[q][e.from] # Never
                                 /\ e.dep = SetOut(q, e.from)
                                 /\ \E w \in net.walks[e.from] : w.to = s /\ e.arr = e.dep + w.secs
           /\ b.legs = <<>> => e.arr = tau[q][s]
           /\ b.legs # <<>> => e.arr <= b.legs[1].dep
<1>1. /\ q \in 0..k /\ k \in Nat /\ s \in Stations /\ b.legs \in Seq(Leg)
      /\ tau[q][s] # Never /\ tau[q][s] \in Int \cup {Never}
      /\ q >= 1 => q \in 1..k /\ News(q, s, journal[q][s])
  <2>1. r \in 0..k /\ k \in Nat /\ q \in 0..r /\ s \in Stations /\ b.legs \in Seq(Leg)
        /\ tau[q][s] # Never /\ (q >= 1 => News(q, s, journal[q][s]))
      BY EndTypes DEF BackFinds
  <2> QED BY <2>1, EndTypes
<1>2. PICK j, p, m : j = journal[q][s] /\ p = preWalk[q][s] /\ m = b.legs[1]
    OBVIOUS
<1>3. /\ j \in Entry \cup {NoEntry} /\ Justified(q, s) /\ Traced(q, s)
    BY <1>1, <1>2, EndTypes
<1>4. j # NoEntry
    BY <1>1, <1>2, <1>3 DEF Justified, News
<1>5. j \in Entry /\ j.kind \in {"transit", "walk"} /\ tau[q][s] = j.arr /\ j.arr \in Int
    BY <1>2, <1>3, <1>4 DEF Justified, Entry
<1>6. b.legs # <<>> => Head(b.legs) = m /\ m \in Leg
    BY <1>1, <1>2
<1>7. e = IF b.legs # <<>> /\ m.kind = "walk" /\ j.kind = "walk" /\ p # NoEntry /\ p.arr <= m.dep
          THEN p ELSE j
    BY <1>2, <1>6 DEF EntryBefore
<1>8. CASE b.legs # <<>> /\ m.kind = "walk"
  <2>1. m.dep = SetOut(q, s) /\ m.dep \in Int
      BY <1>2, <1>6, <1>8 DEF BackFinds, Leg
  <2>2. q \in 1..k
      BY <1>1, <2>1, EndTypes DEF SetOut
  <2>3. /\ p \in Entry /\ p # NoEntry /\ p.arr = m.dep /\ p.kind = "transit" /\ News(q, s, p)
      BY <1>1, <1>2, <2>1, <2>2, WalkSetsOut
  <2>4. j = p \/ j.kind = "walk"
      BY <1>1, <1>2, <2>2, <2>3, EndCovered DEF NewsInv, NewsOf, WalkedIn
  <2>5. e = p
      BY <1>7, <1>8, <2>1, <2>3, <2>4
  <2>6. p.fromRound = q - 1
      BY <2>3 DEF News
  <2>7. RealRide(p, s) /\ tau[q-1][p.from] # Never /\ p.dep >= ReadyAt(q-1, p.from)
      BY <1>2, <1>3, <2>3, <2>6 DEF Traced
  <2>8. /\ e \in Entry /\ e.kind = "transit" /\ e.fromRound = q - 1 /\ News(q, s, e)
        /\ RealRide(e, s) /\ tau[q-1][e.from] # Never /\ e.dep >= ReadyAt(q-1, e.from)
      BY <2>3, <2>5, <2>6, <2>7
  <2>9. b.legs # <<>> /\ e.arr <= b.legs[1].dep /\ q >= 1
      BY <1>2, <1>8, <2>1, <2>2, <2>3, <2>5
  <2> QED BY <1>2, <1>4, <2>8, <2>9
<1>9. CASE ~(b.legs # <<>> /\ m.kind = "walk")
  <2>1. e = j
      BY <1>7, <1>9
  <2>2. b.legs # <<>> => e.arr <= m.dep
    <3> SUFFICES ASSUME b.legs # <<>> PROVE e.arr <= m.dep
        OBVIOUS
    <3>1. m.kind = "transit" /\ m.dep \in Int
        BY <1>6, <1>9 DEF Leg
    <3>2. m.dep >= ReadyAt(q, s)
        BY <1>2, <3>1 DEF BackFinds
    <3> QED BY <1>5, <2>1, <3>1, <3>2, EndTypes DEF ReadyAt
  <2>3. CASE q = 0
    <3>1. j.kind = "walk" /\ j.fromRound = 0 /\ j.from = query.origin /\ j.dep = query.dep
        BY <1>1, <1>2, <1>4, <2>3, EndCovered DEF NewsInv, WalkedIn
    <3>2. tau[0][j.from] # Never /\ \E w \in net.walks[j.from] : w.to = s /\ j.arr = j.dep + w.secs
        BY <1>2, <1>3, <1>4, <2>3, <3>1 DEF Justified
    <3>3. SetOut(0, j.from) = j.dep
        BY <3>1 DEF SetOut
    <3> QED BY <1>2, <1>4, <1>5, <1>9, <2>1, <2>2, <2>3, <3>1, <3>2, <3>3
  <2>4. CASE q # 0 /\ j.kind = "transit"
    <3>1. News(q, s, j) /\ j.fromRound = q - 1 /\ q >= 1
        BY <1>1, <1>2, <2>4 DEF News
    <3>2. RealRide(j, s) /\ tau[q-1][j.from] # Never /\ j.dep >= ReadyAt(q-1, j.from)
        BY <1>2, <1>3, <1>4, <2>4, <3>1 DEF Traced, Justified
    <3> QED BY <1>2, <1>4, <1>5, <2>1, <2>2, <2>4, <3>1, <3>2
  <2>5. CASE q # 0 /\ j.kind = "walk"
    <3>1. j.fromRound = q /\ j.dep = SetOut(q, j.from)
        BY <1>1, <1>2, <2>5 DEF News
    <3>2. tau[q][j.from] # Never /\ \E w \in net.walks[j.from] : w.to = s /\ j.arr = j.dep + w.secs
        BY <1>2, <1>3, <1>4, <2>5, <3>1 DEF Justified
    <3> QED BY <1>2, <1>4, <1>5, <1>9, <2>1, <2>2, <2>5, <3>1, <3>2
  <2> QED BY <1>5, <2>3, <2>4, <2>5
<1> QED BY <1>8, <1>9

(* What is left of the way back: two legs for each round at most. *)
LegsLeft(b) == 2 * b.round + IF b.legs # <<>> /\ b.legs[1].kind = "walk" THEN 0 ELSE 1

(* The entry leads to another station, and to news of an earlier round or  *)
(* of the same one before its footpaths.                                   *)
LEMMA EntryLeadsOn ==
    ASSUME AtEnd, NEW r \in 0..k, NEW b, BackFinds(r, b), b.at # query.origin,
           NEW q, q = b.round, NEW s, s = b.at, NEW e, e = EntryBefore(b)
    PROVE  /\ e.from # s /\ e.dep <= e.arr /\ e.from \in Stations
           /\ e.fromRound \in 0..r
           /\ tau[e.fromRound][e.from] # Never
           /\ e.fromRound >= 1 => News(e.fromRound, e.from, journal[e.fromRound][e.from])
<1>1. /\ q \in 0..r /\ r \in 0..k /\ k \in Nat /\ s \in Stations
      /\ WellFormed(net) /\ Measured(net) /\ TravelsForward(net)
    BY EndTypes DEF BackFinds
<1>2. /\ e \in Entry /\ e.kind \in {"transit", "walk"}
      /\ e.from \in Stations /\ e.dep \in Int /\ e.arr \in Int
    BY EntryToFollow DEF Entry
<1>3. CASE e.kind = "transit"
  <2>1. /\ q >= 1 /\ e.fromRound = q - 1 /\ News(q, s, e) /\ RealRide(e, s)
        /\ tau[q-1][e.from] # Never /\ e.dep >= ReadyAt(q-1, e.from)
      BY <1>3, EntryToFollow
  <2>2. e.dep <= e.arr
      BY <1>1, <2>1, RidesTakeTime
  <2>3. e.from # s
    <3> SUFFICES ASSUME e.from = s PROVE FALSE
        OBVIOUS
    <3>1. tau[q-1][s] \in Int /\ TransferSeconds \in Nat
        BY <1>1, <2>1, EndTypes
    <3>2. e.dep >= tau[q-1][s]
        BY <1>2, <2>1, <3>1 DEF ReadyAt
    <3> QED BY <1>2, <2>1, <2>2, <3>1, <3>2 DEF News, Beats
  <2>4. q - 1 >= 1 => News(q-1, e.from, journal[q-1][e.from])
    <3> SUFFICES ASSUME q - 1 >= 1 PROVE News(q-1, e.from, journal[q-1][e.from])
        OBVIOUS
    <3>1. q \in 2..k
        BY <1>1
    <3> QED BY <1>1, <1>2, <2>1, <3>1, BoardedIsNews
  <2> QED BY <1>1, <1>2, <2>1, <2>2, <2>3, <2>4
<1>4. CASE e.kind = "walk"
  <2>1. /\ e.fromRound = q /\ tau[q][e.from] # Never /\ e.dep = SetOut(q, e.from)
        /\ \E w \in net.walks[e.from] : w.to = s /\ e.arr = e.dep + w.secs
      BY <1>4, EntryToFollow
  <2>2. PICK w \in net.walks[e.from] : w.to = s /\ e.arr = e.dep + w.secs
      BY <2>1
  <2>3. e.from # s /\ w.secs \in Nat
      BY <1>1, <1>2, <2>2 DEF Measured, WellFormed
  <2>4. q >= 1 => News(q, e.from, journal[q][e.from])
    <3> SUFFICES ASSUME q >= 1 PROVE News(q, e.from, journal[q][e.from])
        OBVIOUS
    <3>1. PICK u, d : u = e.from /\ d = e.dep
        OBVIOUS
    <3>2. q \in 1..k /\ u \in Stations /\ d \in Int /\ d = SetOut(q, u)
        BY <1>1, <1>2, <2>1, <3>1
    <3>3. preWalk[q][u] # NoEntry
        BY <3>2, WalkSetsOut
    <3> QED BY <3>1, <3>2, <3>3, EndCovered DEF NewsInv, NewsOf
  <2> QED BY <1>1, <1>2, <2>1, <2>2, <2>3, <2>4
<1> QED BY <1>2, <1>3, <1>4

LEMMA BackOneLegFinds ==
    ASSUME AtEnd, NEW r \in 0..k, NEW b, BackFinds(r, b), b.at # query.origin,
           NEW c, c = BackOneLeg(b)
    PROVE  BackFinds(r, c) /\ LegsLeft(c) < LegsLeft(b)
<1>1. PICK q, s, e : q = b.round /\ s = b.at /\ e = EntryBefore(b)
    OBVIOUS
<1>2. /\ journal[q][s] # NoEntry /\ e \in Entry /\ e.kind \in {"transit", "walk"}
      /\ e.kind = "transit" => q >= 1 /\ e.fromRound = q - 1 /\ e.dep >= ReadyAt(q-1, e.from)
      /\ e.kind = "walk" => /\ ~(b.legs # <<>> /\ b.legs[1].kind = "walk")
                            /\ e.fromRound = q /\ e.dep = SetOut(q, e.from)
      /\ b.legs = <<>> => e.arr = tau[q][s]
      /\ b.legs # <<>> => e.arr <= b.legs[1].dep
    BY <1>1, EntryToFollow
<1>3. /\ e.from # s /\ e.dep <= e.arr /\ e.from \in Stations /\ e.fromRound \in 0..r
      /\ tau[e.fromRound][e.from] # Never
      /\ e.fromRound >= 1 => News(e.fromRound, e.from, journal[e.fromRound][e.from])
    BY <1>1, EntryLeadsOn
<1>4. /\ b \in [at: Stations, round: 0..r, legs: Seq(Leg),
                visited: SUBSET (Nat \X Stations), broken: BOOLEAN]
      /\ ~b.broken /\ q \in 0..r /\ s \in Stations /\ r \in Nat /\ b.legs \in Seq(Leg)
      /\ TransitLegs(b.legs) + q = r /\ JoinedLegs(b.legs)
      /\ b.legs = <<>> => q = r /\ s = query.dest
      /\ b.legs # <<>> => /\ b.legs[1].from = s /\ b.legs[Len(b.legs)].to = query.dest
                          /\ b.legs[Len(b.legs)].arr = tau[r][query.dest]
                          /\ b.legs[1].kind = "walk" => b.legs[1].to # s
      /\ \A v \in b.visited :
           /\ v[1] >= q
           /\ v[1] = q => b.legs # <<>> /\ b.legs[1].kind = "walk" /\ v[2] = b.legs[1].to
    BY <1>1, EndTypes DEF BackFinds
<1>5. <<q, s>> \notin b.visited
    BY <1>4
<1>6. PICK l : l = LegOf(e, s)
    OBVIOUS
<1>7. /\ l \in Leg /\ l.kind = e.kind /\ l.from = e.from /\ l.to = s /\ l.dep = e.dep /\ l.arr = e.arr
      /\ l.dep \in Int /\ l.arr \in Int
    BY <1>2, <1>4, <1>6 DEF LegOf, Leg, Entry
<1>8. PICK t, v : t = <<l>> \o b.legs /\ v = b.visited \cup {<<q, s>>}
    OBVIOUS
<1>9. c = [b EXCEPT !.at = e.from, !.round = e.fromRound, !.legs = t, !.visited = v]
  <2>1. BackOneLeg(b) = [b EXCEPT !.at = e.from, !.round = e.fromRound,
                                  !.legs = <<l>> \o @, !.visited = @ \cup {<<q, s>>}]
      BY <1>1, <1>2, <1>3, <1>4, <1>5, <1>6 DEF BackOneLeg
  <2> QED BY <1>4, <1>8, <2>1
<1>10. t \in Seq(Leg) /\ v \in SUBSET (Nat \X Stations)
    BY <1>4, <1>7, <1>8
<1>11. /\ c \in [at: Stations, round: 0..r, legs: Seq(Leg),
                 visited: SUBSET (Nat \X Stations), broken: BOOLEAN]
       /\ ~c.broken /\ c.at = e.from /\ c.round = e.fromRound /\ c.legs = t /\ c.visited = v
    BY <1>3, <1>4, <1>9, <1>10
<1>12. PICK n \in Nat : n = Len(b.legs)
    BY <1>4
<1>13. /\ t # <<>> /\ Len(t) = n + 1 /\ t[1] = l /\ DOMAIN t = 1..n+1
       /\ \A i \in 2..n+1 : t[i] = b.legs[i-1]
    BY <1>4, <1>7, <1>8, <1>12
<1>14. b.legs = <<>> <=> n = 0
    BY <1>4, <1>12
<1>15. JoinedLegs(t)
  <2>1. ASSUME NEW i \in 1..n+1 PROVE t[i].dep <= t[i].arr
    <3>1. CASE i = 1
        BY <1>3, <1>7, <1>13, <3>1
    <3>2. CASE i # 1
      <4>1. i - 1 \in DOMAIN b.legs /\ t[i] = b.legs[i-1]
          BY <1>4, <1>12, <1>13, <3>2
      <4> QED BY <1>4, <4>1 DEF JoinedLegs
    <3> QED BY <3>1, <3>2
  <2>2. ASSUME NEW i \in 2..n+1 PROVE t[i-1].to = t[i].from /\ t[i-1].arr <= t[i].dep
    <3>1. CASE i = 2
      <4>1. b.legs # <<>> /\ t[2] = b.legs[1]
          BY <1>13, <1>14, <2>2, <3>1
      <4> QED BY <1>2, <1>4, <1>7, <1>13, <3>1, <4>1
    <3>2. CASE i # 2
      <4>1. i - 1 \in 2..Len(b.legs) /\ t[i] = b.legs[i-1] /\ t[i-1] = b.legs[(i-1)-1]
          BY <1>12, <1>13, <2>2, <3>2
      <4> QED BY <1>4, <4>1 DEF JoinedLegs
    <3> QED BY <3>1, <3>2
  <2> QED BY <1>10, <1>13, <2>1, <2>2 DEF JoinedLegs
<1>16. t[Len(t)].to = query.dest /\ t[Len(t)].arr = tau[r][query.dest]
  <2>1. CASE n = 0
      BY <1>2, <1>4, <1>7, <1>13, <1>14, <2>1
  <2>2. CASE n # 0
    <3>1. t[n+1] = b.legs[n]
        BY <1>13, <2>2
    <3> QED BY <1>4, <1>12, <1>13, <1>14, <2>2, <3>1
  <2> QED BY <2>1, <2>2
<1>17. TransitLegs(t) + e.fromRound = r
  <2>1. /\ TransitLegs(b.legs) \in Nat
        /\ TransitLegs(t) = TransitLegs(b.legs) + IF l.kind = "transit" THEN 1 ELSE 0
      BY <1>4, <1>7, <1>8, TransitLegsInFront
  <2> QED BY <1>2, <1>4, <1>7, <2>1
<1>18. ASSUME NEW x \in v
       PROVE  /\ x[1] >= e.fromRound
              /\ x[1] = e.fromRound => t # <<>> /\ t[1].kind = "walk" /\ x[2] = t[1].to
  <2>1. x \in b.visited \/ x = <<q, s>>
      BY <1>8
  <2>2. x[1] \in Nat
      BY <1>10
  <2>3. CASE e.kind = "transit"
      BY <1>2, <1>4, <2>1, <2>2, <2>3
  <2>4. CASE e.kind = "walk"
      BY <1>2, <1>4, <1>7, <1>13, <2>1, <2>2, <2>4
  <2> QED BY <1>2, <2>3, <2>4
<1>19. BackFinds(r, c)
  <2>1. t[1].kind = "transit" => t[1].dep >= ReadyAt(e.fromRound, e.from)
      BY <1>2, <1>7, <1>13
  <2>2. t[1].kind = "walk" => t[1].dep = SetOut(e.fromRound, e.from) /\ t[1].to # e.from
      BY <1>2, <1>3, <1>7, <1>13
  <2>3. t[1].from = e.from
      BY <1>7, <1>13
  <2> QED BY <1>3, <1>11, <1>13, <1>15, <1>16, <1>17, <1>18, <2>1, <2>2, <2>3 DEF BackFinds
<1>20. LegsLeft(c) < LegsLeft(b)
  <2>1. LegsLeft(c) = 2 * e.fromRound + IF e.kind = "walk" THEN 0 ELSE 1
      BY <1>7, <1>11, <1>13 DEF LegsLeft
  <2>2. LegsLeft(b) = 2 * q + IF b.legs # <<>> /\ b.legs[1].kind = "walk" THEN 0 ELSE 1
      BY <1>1 DEF LegsLeft
  <2> QED BY <1>2, <1>3, <1>4, <2>1, <2>2
<1> QED BY <1>19, <1>20

LEMMA BacktrackFinds ==
    ASSUME AtEnd, query.origin # query.dest, NEW r \in 0..k,
           tau[r][query.dest] # Never, r >= 1 => News(r, query.dest, journal[r][query.dest]),
           NEW legs, legs = Backtrack(r)
    PROVE  ValidPath(legs) /\ TransitLegs(legs) = r /\ legs \in Seq(Leg)
           /\ legs[Len(legs)].arr = tau[r][query.dest]
<1> DEFINE steps == 2 * (MaxRounds + 1) + 3
           first == [at |-> query.dest, round |-> r, legs |-> <<>>,
                     visited |-> {}, broken |-> FALSE]
           back == CHOOSE f : f = [n \in 0..steps |-> Turn(f, first, n)]
           P == {n \in 0..steps : /\ BackFinds(r, back[n])
                                  /\ back[n].at = query.origin \/ LegsLeft(back[n]) + n <= 2 * r + 1}
<1>1. /\ steps \in Nat /\ k \in Nat /\ r \in Nat /\ r <= MaxRounds /\ steps > 2 * r + 1
      /\ query.dest \in Stations /\ query.origin \in Stations /\ query.dep \in Int
    BY EndTypes
<1>2. legs = IF back[steps].broken \/ back[steps].at # query.origin
             THEN <<>> ELSE back[steps].legs
    BY DEF Backtrack, Turn
<1>3. BackFinds(r, first) /\ LegsLeft(first) <= 2 * r + 1
  <2>1. TransitLegs(<<>>) = 0
    <3>1. {i \in DOMAIN <<>> : <<>>[i].kind = "transit"} = {}
        OBVIOUS
    <3> QED BY <3>1, FS_EmptySet DEF TransitLegs
  <2>2. JoinedLegs(<<>>)
      BY DEF JoinedLegs
  <2>3. LegsLeft(first) <= 2 * r + 1
      BY <1>1 DEF LegsLeft
  <2>4. first \in [at: Stations, round: 0..r, legs: Seq(Leg),
                   visited: SUBSET (Nat \X Stations), broken: BOOLEAN]
      BY <1>1
  <2> QED BY <1>1, <2>1, <2>2, <2>3, <2>4 DEF BackFinds
<1> HIDE DEF steps, first
<1>4. back = [n \in 0..steps |-> Turn(back, first, n)]
    BY <1>1, TurnsExist
<1> HIDE DEF back
<1>5. \A n \in 0..steps : back[n] = Turn(back, first, n)
    BY <1>4, Zenon
<1>6. 0 \in P
  <2>1. back[0] = first
      BY <1>1, <1>5 DEF Turn
  <2>2. LegsLeft(back[0]) + 0 <= 2 * r + 1
    <3>1. LegsLeft(first) + 0 <= 2 * r + 1
      <4>1. LegsLeft(first) \in Int
          BY <1>1 DEF LegsLeft, first
      <4> QED BY <1>3, <4>1
    <3> QED BY <2>1, <3>1
  <2> QED BY <1>1, <1>3, <2>1, <2>2
<1>7. ASSUME NEW n \in 1..steps, n-1 \in P PROVE n \in P
  <2>1. PICK b, c : b = back[n-1] /\ c = back[n]
      OBVIOUS
  <2>2. n - 1 \in 0..steps /\ n \in 0..steps /\ n # 0
      BY <1>1
  <2>3. c = BackOneLeg(b)
      BY <1>5, <2>1, <2>2 DEF Turn
  <2>4. BackFinds(r, b) /\ (b.at = query.origin \/ LegsLeft(b) + (n-1) <= 2 * r + 1)
      BY <1>7, <2>1
  <2>5. CASE b.at = query.origin
    <3>1. c = b
        BY <2>3, <2>5 DEF BackOneLeg
    <3> QED BY <2>1, <2>2, <2>4, <2>5, <3>1
  <2>6. CASE b.at # query.origin
    <3>1. BackFinds(r, c) /\ LegsLeft(c) < LegsLeft(b)
        BY <2>3, <2>4, <2>6, BackOneLegFinds
    <3>2. LegsLeft(c) \in Int /\ LegsLeft(b) \in Int
      <4>1. b.round \in 0..r /\ c.round \in 0..r
          BY <2>4, <3>1 DEF BackFinds
      <4> QED BY <1>1, <4>1 DEF LegsLeft
    <3>3. LegsLeft(c) + n <= 2 * r + 1
        BY <1>1, <2>2, <2>4, <2>6, <3>1, <3>2
    <3> QED BY <2>1, <2>2, <3>1, <3>3
  <2> QED BY <2>5, <2>6
<1>8. steps \in P
  <2> HIDE DEF P
  <2> QED BY <1>1, <1>6, <1>7, Induct
<1>9. PICK b : b = back[steps]
    OBVIOUS
<1>10. BackFinds(r, b) /\ (b.at = query.origin \/ LegsLeft(b) + steps <= 2 * r + 1)
    BY <1>8, <1>9
<1>11. b.at = query.origin
  <2>1. LegsLeft(b) \in Nat
      BY <1>10 DEF LegsLeft, BackFinds
  <2> QED BY <1>1, <1>10, <2>1
<1>12. legs = b.legs
    BY <1>2, <1>9, <1>10, <1>11 DEF BackFinds
<1>13. b.round = 0
  <2> SUFFICES ASSUME b.round # 0 PROVE FALSE
      OBVIOUS
  <2>1. b.round \in 0..k /\ b.round >= 1
      BY <1>1, <1>10 DEF BackFinds
  <2>2. journal[b.round][query.origin] # NoEntry
      BY <1>10, <1>11, <2>1 DEF BackFinds, News
  <2> QED BY <2>1, <2>2, EndCovered DEF TimesInv
<1>14. /\ legs # <<>> /\ legs \in Seq(Leg) /\ JoinedLegs(legs) /\ TransitLegs(legs) \in Nat
       /\ TransitLegs(legs) + 0 = r
       /\ legs[1].from = query.origin /\ legs[Len(legs)].to = query.dest
       /\ legs[Len(legs)].arr = tau[r][query.dest]
       /\ legs[1].kind = "transit" => legs[1].dep >= ReadyAt(0, query.origin)
       /\ legs[1].kind = "walk" => legs[1].dep = SetOut(0, query.origin)
       /\ tau[0][query.origin] # Never
  <2>1. /\ legs # <<>> /\ legs \in Seq(Leg) /\ JoinedLegs(legs) /\ TransitLegs(legs) + 0 = r
        /\ tau[0][query.origin] # Never
      BY <1>10, <1>11, <1>12, <1>13 DEF BackFinds
  <2>2. TransitLegs(legs) \in Nat
    <3>1. Len(legs) \in Nat /\ DOMAIN legs = 1..Len(legs)
        BY <2>1
    <3>2. IsFiniteSet({i \in DOMAIN legs : legs[i].kind = "transit"})
      <4>1. IsFiniteSet(1..Len(legs))
          BY <3>1, FS_Interval
      <4> QED BY <3>1, <4>1, FS_Subset
    <3> QED BY <3>2, FS_CardinalityType DEF TransitLegs
  <2> QED BY <1>10, <1>11, <1>12, <1>13, <2>1, <2>2 DEF BackFinds
<1>15. legs[1].dep >= query.dep
  <2>1. legs[1] \in Leg
      BY <1>14
  <2>2. CASE legs[1].kind = "walk"
      BY <1>1, <1>14, <2>2 DEF SetOut
  <2>3. CASE legs[1].kind = "transit"
    <3>1. 0 \in 0..k
        BY <1>1
    <3>2. tau[0][query.origin] \in Int /\ tau[0][query.origin] >= query.dep
        BY <1>1, <1>14, <3>1, EndCovered, EndTypes DEF TimesInv
    <3>3. ReadyAt(0, query.origin) >= query.dep /\ ReadyAt(0, query.origin) \in Int
        BY <1>1, <3>2, EndTypes DEF ReadyAt
    <3>4. legs[1].dep \in Int
        BY <2>1 DEF Leg
    <3>5. legs[1].dep >= ReadyAt(0, query.origin)
        BY <1>14, <2>3
    <3> QED BY <1>1, <3>3, <3>4, <3>5
  <2> QED BY <2>1, <2>2, <2>3 DEF Leg
<1>16. ASSUME NEW i \in DOMAIN legs PROVE legs[i].arr >= legs[i].dep
  <2>1. legs[i] \in Leg
      BY <1>14
  <2>2. legs[i].arr \in Int /\ legs[i].dep \in Int
      BY <2>1 DEF Leg
  <2> QED BY <1>14, <2>2 DEF JoinedLegs
<1>17. ASSUME NEW i \in 2..Len(legs)
       PROVE  legs[i-1].to = legs[i].from /\ legs[i].dep >= legs[i-1].arr
  <2>1. i \in DOMAIN legs /\ i - 1 \in DOMAIN legs
      BY <1>14
  <2>2. legs[i] \in Leg /\ legs[i-1] \in Leg
      BY <1>14, <2>1
  <2>3. legs[i].dep \in Int /\ legs[i-1].arr \in Int
      BY <2>2 DEF Leg
  <2> QED BY <1>14, <2>3 DEF JoinedLegs
<1>18. TransitLegs(legs) = r
    BY <1>1, <1>14
<1>19. ValidPath(legs)
    BY <1>1, <1>14, <1>15, <1>16, <1>17, <1>18 DEF ValidPath
<1> QED BY <1>14, <1>18, <1>19

(***************************************************************************)
(* extract keeps what the reference keeps                                  *)
(***************************************************************************)

Values(p) == <<p.arr, p.transfers>>

(* The two filters of extract, on journeys and on pairs of values. *)
Top(pareto) == {p \in pareto : TopK = 0 \/ Cardinality({q \in pareto : q.arr < p.arr}) < TopK}
Pareto(found) == {p \in found : \A q \in found : q.arr < p.arr => p.transfers < q.transfers}
ValuesTop(front) == {p \in front : TopK = 0 \/ Cardinality({q \in front : q[1] < p[1]}) < TopK}
ValuesPareto(pairs) == {p \in pairs : \A q \in pairs : q[1] < p[1] => p[2] < q[2]}

(* The filters of extract look at arrivals and transfers only, and no two  *)
(* journeys arrive at the same time.                                       *)
LEMMA SameFrontier ==
    ASSUME NEW found, IsFiniteSet(found), \A p, q \in found : p.arr = q.arr => p = q,
           NEW pairs, pairs = {Values(p) : p \in found},
           NEW pareto, pareto = Pareto(found),
           NEW front, front = ValuesPareto(pairs)
    PROVE  {Values(p) : p \in Top(pareto)} = ValuesTop(front)
<1> USE DEF Pareto, ValuesPareto
<1>1. \A p : Values(p)[1] = p.arr /\ Values(p)[2] = p.transfers
    BY DEF Values
<1>2. \A x : x \in pairs <=> \E p \in found : x = Values(p)
    OBVIOUS
<1>3. ASSUME NEW p \in found
      PROVE  p \in pareto <=> Values(p) \in front
  <2>1. p \in pareto <=> \A q \in found : q.arr < p.arr => p.transfers < q.transfers
      OBVIOUS
  <2>2. Values(p) \in front <=> \A x \in pairs : x[1] < p.arr => p.transfers < x[2]
      BY <1>1, <1>2
  <2>3. (\A x \in pairs : x[1] < p.arr => p.transfers < x[2]) <=>
        (\A q \in found : q.arr < p.arr => p.transfers < q.transfers)
    <3>1. (\A q \in found : q.arr < p.arr => p.transfers < q.transfers) =>
          \A x \in pairs : x[1] < p.arr => p.transfers < x[2]
        BY <1>1, <1>2
    <3>2. ASSUME \A x \in pairs : x[1] < p.arr => p.transfers < x[2], NEW q \in found, q.arr < p.arr
          PROVE  p.transfers < q.transfers
      <4>1. Values(q) \in pairs
          BY <1>2
      <4> QED BY <1>1, <3>2, <4>1
    <3> QED BY <3>1, <3>2
  <2> QED BY <2>1, <2>2, <2>3
<1>4. \A x : x \in front <=> \E p \in pareto : x = Values(p)
  <2>1. \A x \in front : x \in pairs
      OBVIOUS
  <2>2. \A p \in pareto : p \in found
      OBVIOUS
  <2> QED BY <1>2, <1>3, <2>1, <2>2
<1>5. ASSUME NEW p \in found
      PROVE  Cardinality({q \in pareto : q.arr < p.arr}) = Cardinality({x \in front : x[1] < p.arr})
  <2>1. PICK S, X : S = {q \in pareto : q.arr < p.arr} /\ X = {x \in front : x[1] < p.arr}
      OBVIOUS
  <2>2. IsFiniteSet(S)
    <3>1. S \subseteq found
        BY <2>1
    <3> QED BY <3>1, FS_Subset
  <2>3. PICK f : f = [q \in S |-> Values(q)]
      OBVIOUS
  <2>4. f \in [S -> X]
    <3>1. \A q \in S : Values(q) \in X
        BY <1>1, <1>4, <2>1
    <3> QED BY <2>3, <3>1
  <2>5. \A a, b \in S : f[a] = f[b] => a = b
    <3> SUFFICES ASSUME NEW a \in S, NEW b \in S, f[a] = f[b] PROVE a = b
        OBVIOUS
    <3>1. Values(a) = Values(b) /\ a \in found /\ b \in found
        BY <2>1, <2>3
    <3>2. a.arr = b.arr
        BY <1>1, <3>1
    <3> QED BY <3>1, <3>2
  <2>6. \A x \in X : \E q \in S : f[q] = x
    <3> SUFFICES ASSUME NEW x \in X PROVE \E q \in S : f[q] = x
        OBVIOUS
    <3>1. PICK q \in pareto : x = Values(q)
        BY <1>4, <2>1
    <3>2. q \in S
        BY <1>1, <2>1, <3>1
    <3> QED BY <2>3, <3>1, <3>2
  <2>7. ExistsBijection(S, X)
      BY <2>4, <2>5, <2>6 DEF ExistsBijection, Bijection, Injection, Surjection, IsInjective
  <2> QED BY <2>1, <2>2, <2>7, FS_Bijection
<1> DEFINE top == {p \in pareto : TopK = 0 \/ Cardinality({q \in pareto : q.arr < p.arr}) < TopK}
           refTop == {p \in front : TopK = 0 \/ Cardinality({q \in front : q[1] < p[1]}) < TopK}
<1>6. ASSUME NEW p \in pareto
      PROVE  p \in top <=> Values(p) \in refTop
  <2>1. PICK x : x = Values(p)
      OBVIOUS
  <2>2. x \in front /\ x[1] = p.arr /\ p \in found
      BY <1>1, <1>4, <2>1
  <2>3. Cardinality({q \in pareto : q.arr < p.arr}) = Cardinality({y \in front : y[1] < x[1]})
      BY <1>5, <2>2
  <2>4. PICK n : n = Cardinality({q \in pareto : q.arr < p.arr})
      OBVIOUS
  <2>5. p \in top <=> (TopK = 0 \/ n < TopK)
      BY <2>4
  <2>6. x \in refTop <=> (TopK = 0 \/ n < TopK)
      BY <2>2, <2>3, <2>4
  <2> QED BY <2>1, <2>5, <2>6
<1>7. \A p \in top : p \in pareto
    OBVIOUS
<1>8. \A x \in refTop : x \in front
    OBVIOUS
<1> HIDE DEF top, refTop
<1>9. \A x : x \in {Values(p) : p \in top} <=> \E p \in top : x = Values(p)
    OBVIOUS
<1>10. \A x : x \in {Values(p) : p \in top} <=> x \in refTop
    BY <1>4, <1>6, <1>7, <1>8, <1>9
<1>11. {Values(p) : p \in top} = refTop
    BY <1>10
<1> QED BY <1>11 DEF top, refTop, Top, ValuesTop

(* Rounds that bring an earlier arrival at the destination. *)
Useful(r) ==
    /\ tau[r][query.dest] # Never
    /\ \A j \in 0..r-1 : Beats(tau[r][query.dest], tau[j][query.dest])

LEMMA ArrivalsImprove ==
    ASSUME AtEnd
    PROVE  \A j \in 0..k :
             /\ \A i \in 0..j : tau[i][query.dest] # Never =>
                  tau[j][query.dest] # Never /\ tau[j][query.dest] <= tau[i][query.dest]
             /\ tau[j][query.dest] # Never =>
                  \E b \in 0..j : Useful(b) /\ tau[b][query.dest] = tau[j][query.dest]
             /\ Useful(j) /\ j >= 1 => News(j, query.dest, journal[j][query.dest])
<1>1. k \in Nat /\ query.dest \in Stations /\ Never \notin Int
      /\ \A j \in 0..k : tau[j][query.dest] \in Int \cup {Never}
    BY EndTypes
<1>2. PICK T : T = [j \in 0..k |-> tau[j][query.dest]]
    OBVIOUS
<1>3. /\ \A j \in 0..k : T[j] \in Int \cup {Never} /\ tau[j][query.dest] = T[j]
    BY <1>1, <1>2
<1>4. \A j \in 0..k : Useful(j) <=> T[j] # Never /\ \A i \in 0..j-1 : Beats(T[j], T[i])
  <2> TAKE j \in 0..k
  <2>1. \A i \in 0..j-1 : i \in 0..k
      BY <1>1
  <2> QED BY <1>3, <2>1 DEF Useful
<1>5. \A j \in 1..k : T[j] = T[j-1]
                      \/ /\ News(j, query.dest, journal[j][query.dest])
                         /\ T[j] # Never /\ Beats(T[j], T[j-1])
  <2> TAKE j \in 1..k
  <2>1. j \in 0..k /\ j - 1 \in 0..k
      BY <1>1
  <2>2. CASE Carried(j, query.dest)
      BY <1>3, <2>1, <2>2 DEF Carried
  <2>3. CASE News(j, query.dest, journal[j][query.dest])
    <3>1. journal[j][query.dest] # NoEntry /\ Justified(j, query.dest)
          /\ journal[j][query.dest] \in Entry \cup {NoEntry}
        BY <1>1, <2>1, <2>3, EndTypes DEF News
    <3>2. T[j] = journal[j][query.dest].arr /\ T[j] \in Int
        BY <1>3, <2>1, <3>1 DEF Justified, Entry
    <3> QED BY <1>1, <1>3, <2>1, <2>3, <3>2 DEF News
  <2> QED BY <1>1, <2>2, <2>3, EndCovered DEF NewsInv, NewsOf
<1> DEFINE P == {j \in 0..k :
             /\ \A i \in 0..j : T[i] # Never => T[j] # Never /\ T[j] <= T[i]
             /\ T[j] # Never => \E b \in 0..j : Useful(b) /\ T[b] = T[j]}
<1>6. 0 \in P
  <2>1. 0 \in 0..k /\ \A i \in 0..0 : i = 0
      BY <1>1
  <2>2. T[0] # Never => Useful(0)
      BY <1>4, <2>1
  <2> QED BY <1>3, <2>1, <2>2
<1>7. ASSUME NEW j \in 1..k, j-1 \in P PROVE j \in P
  <2>1. j \in 0..k /\ j - 1 \in 0..k /\ \A i \in 0..j : i \in 0..j-1 \/ i = j
      BY <1>1
  <2>2. /\ \A i \in 0..j-1 : T[i] # Never => T[j-1] # Never /\ T[j-1] <= T[i]
        /\ T[j-1] # Never => \E b \in 0..j-1 : Useful(b) /\ T[b] = T[j-1]
      BY <1>7
  <2>3. \A i \in 0..j-1 : T[i] \in Int \cup {Never} /\ i \in 0..k
      BY <1>1, <1>3
  <2>4. T[j] \in Int \cup {Never} /\ T[j-1] \in Int \cup {Never}
      BY <1>3, <2>1
  <2>5. CASE T[j] = T[j-1]
    <3>1. \A i \in 0..j : T[i] # Never => T[j] # Never /\ T[j] <= T[i]
        BY <1>1, <2>1, <2>2, <2>4, <2>5
    <3>2. T[j] # Never => \E b \in 0..j : Useful(b) /\ T[b] = T[j]
      <4>1. \A b \in 0..j-1 : b \in 0..j
          OBVIOUS
      <4> QED BY <2>2, <2>5, <4>1
    <3> QED BY <2>1, <3>1, <3>2
  <2>6. CASE T[j] # Never /\ Beats(T[j], T[j-1])
    <3>1. \A i \in 0..j-1 : Beats(T[j], T[i])
        BY <1>1, <2>2, <2>3, <2>4, <2>6 DEF Beats
    <3>2. Useful(j) /\ j \in 0..j
        BY <1>4, <2>1, <2>6, <3>1
    <3>3. \A i \in 0..j : T[i] # Never => T[j] # Never /\ T[j] <= T[i]
        BY <1>1, <2>1, <2>3, <2>4, <2>6, <3>1 DEF Beats
    <3> QED BY <2>1, <3>2, <3>3
  <2> QED BY <1>5, <2>5, <2>6
<1>8. \A j \in 0..k : j \in P
  <2> HIDE DEF P
  <2> QED BY <1>1, <1>6, <1>7, Induct
<1>9. ASSUME NEW j \in 0..k, Useful(j), j >= 1
      PROVE  News(j, query.dest, journal[j][query.dest])
  <2>1. j \in 1..k /\ j - 1 \in 0..j-1 /\ j - 1 \in 0..k
      BY <1>1, <1>9
  <2>2. T[j] # Never /\ Beats(T[j], T[j-1])
      BY <1>4, <1>9, <2>1
  <2>3. T[j] # T[j-1]
      BY <1>1, <1>3, <2>1, <2>2 DEF Beats
  <2> QED BY <1>5, <2>1, <2>3
<1>10. ASSUME NEW j \in 0..k
       PROVE  /\ \A i \in 0..j : tau[i][query.dest] # Never =>
                   tau[j][query.dest] # Never /\ tau[j][query.dest] <= tau[i][query.dest]
              /\ tau[j][query.dest] # Never =>
                   \E b \in 0..j : Useful(b) /\ tau[b][query.dest] = tau[j][query.dest]
  <2>1. \A i \in 0..j : i \in 0..k
      BY <1>1
  <2>2. j \in P
      BY <1>8
  <2> QED BY <1>3, <2>1, <2>2
<1> QED BY <1>9, <1>10

UsefulRounds == {r \in 0..k : Useful(r)}

TransfersOf(r) == IF r = 0 THEN 0 ELSE r - 1

(* The fingerprint tells a vehicle from a walk. *)
LEMMA FingerprintCounts ==
    ASSUME AtEnd, NEW f, NEW g, GoodLegs(f), GoodLegs(g), Fingerprint(f) = Fingerprint(g)
    PROVE  TransitLegs(f) = TransitLegs(g)
<1> DEFINE Trace(h) == [i \in DOMAIN h |-> <<h[i].from, h[i].to,
                                             IF h[i].kind = "transit" THEN h[i].key[1] ELSE Never>>]
<1>1. ASSUME NEW h, GoodLegs(h)
      PROVE  /\ DOMAIN Fingerprint(h) = DOMAIN h
             /\ \A i \in DOMAIN h : h[i].kind = "transit" <=> Fingerprint(h)[i][3] # Never
  <2>1. Fingerprint(h) = Trace(h)
      BY DEF Fingerprint
  <2>2. \A i \in DOMAIN h : Trace(h)[i][3] = IF h[i].kind = "transit" THEN h[i].key[1] ELSE Never
      OBVIOUS
  <2>3. ASSUME NEW i \in DOMAIN h, h[i].kind = "transit"
        PROVE  h[i].key[1] \in Int
    <3>1. RealRide(h[i], h[i].to)
        BY <1>1, <2>3 DEF GoodLegs, RealLeg
    <3>2. PICK x \in AllTrips : x.trip.key = h[i].key
        BY <3>1 DEF RealRide
    <3>3. x.trip.key \in Int \X Int
      <4>1. PICK n \in DOMAIN net.routes : \E j \in DOMAIN net.routes[n].trips :
                x = [stops |-> net.routes[n].stops, trip |-> net.routes[n].trips[j]]
          BY <3>2 DEF AllTrips
      <4> QED BY <4>1, EndTypes, RouteTypes
    <3> QED BY <3>2, <3>3
  <2>4. DOMAIN Trace(h) = DOMAIN h
      OBVIOUS
  <2> HIDE DEF Trace
  <2> QED BY <2>1, <2>2, <2>3, <2>4, EndTypes
<1>2. {i \in DOMAIN f : f[i].kind = "transit"} = {i \in DOMAIN g : g[i].kind = "transit"}
    BY <1>1
<1> QED BY <1>2 DEF TransitLegs

(* What buildPath and ValidatePath make of a useful round. *)
LEMMA UsefulJourney ==
    ASSUME AtEnd, query.origin # query.dest, NEW r \in UsefulRounds
    PROVE  /\ ValidPath(Backtrack(r)) /\ TransitLegs(Backtrack(r)) = r
           /\ Journey(Backtrack(r)).arr = tau[r][query.dest]
           /\ Journey(Backtrack(r)).transfers = TransfersOf(r)
<1>1. r \in 0..k /\ k \in Nat /\ Useful(r) /\ tau[r][query.dest] # Never
    BY EndTypes DEF UsefulRounds, Useful
<1>2. r >= 1 => News(r, query.dest, journal[r][query.dest])
    BY <1>1, ArrivalsImprove
<1>3. PICK legs : legs = Backtrack(r)
    OBVIOUS
<1>4. ValidPath(legs) /\ TransitLegs(legs) = r /\ legs[Len(legs)].arr = tau[r][query.dest]
    BY <1>1, <1>2, <1>3, BacktrackFinds
<1>5. Journey(legs).arr = tau[r][query.dest] /\ Journey(legs).transfers = TransfersOf(r)
    BY <1>1, <1>4 DEF Journey, TransfersOf
<1> QED BY <1>3, <1>4, <1>5

LEMMA UsefulDiffer ==
    ASSUME AtEnd, NEW a \in UsefulRounds, NEW b \in UsefulRounds
    PROVE  /\ tau[a][query.dest] \in Int
           /\ tau[a][query.dest] = tau[b][query.dest] => a = b
<1>1. /\ a \in 0..k /\ b \in 0..k /\ k \in Nat /\ Useful(a) /\ Useful(b) /\ query.dest \in Stations
      /\ tau[a][query.dest] \in Int /\ tau[b][query.dest] \in Int
    BY EndTypes DEF UsefulRounds, Useful
<1>2. a < b => tau[b][query.dest] < tau[a][query.dest]
    BY <1>1, EndTypes DEF Useful, Beats
<1>3. b < a => tau[a][query.dest] < tau[b][query.dest]
    BY <1>1, EndTypes DEF Useful, Beats
<1> QED BY <1>1, <1>2, <1>3

LEMMA ExtractUseful ==
    ASSUME AtEnd, query.origin # query.dest, Extract
    PROVE  answer' = Top(Pareto({Journey(Backtrack(r)) : r \in UsefulRounds}))
<1> DEFINE labelled == {r \in 0..k : tau[r][query.dest] # Never}
           built    == {r \in labelled : ValidPath(Backtrack(r))}
           earlier(r) == \A b \in built : b < r => tau[r][query.dest] < tau[b][query.dest]
           kept     == {r \in built : earlier(r)}
           trace(r) == Fingerprint(Backtrack(r))
           found    == {Journey(Backtrack(r)) :
                          r \in {b \in kept : \A a \in kept : a < b => trace(a) # trace(b)}}
           pareto   == {q \in found : \A o \in found : o.arr < q.arr => q.transfers < o.transfers}
           inTop(q) == TopK = 0 \/ Cardinality({o \in pareto : o.arr < q.arr}) < TopK
<1>1. answer' = {q \in pareto : inTop(q)}
    BY DEF Extract
<1>2. kept = UsefulRounds
  <2>1. ASSUME NEW r \in UsefulRounds PROVE r \in kept
    <3>1. r \in 0..k /\ Useful(r) /\ tau[r][query.dest] # Never
        BY DEF UsefulRounds, Useful
    <3>2. ValidPath(Backtrack(r))
        BY UsefulJourney
    <3>3. earlier(r)
      <4> SUFFICES ASSUME NEW b \in built, b < r PROVE tau[r][query.dest] < tau[b][query.dest]
          OBVIOUS
      <4>1. b \in 0..r-1 /\ tau[b][query.dest] # Never
          BY <3>1, EndTypes
      <4> QED BY <3>1, <4>1 DEF Useful, Beats
    <3> HIDE DEF earlier
    <3> QED BY <3>1, <3>2, <3>3
  <2>2. ASSUME NEW r \in kept PROVE r \in UsefulRounds
    <3>1. r \in 0..k /\ tau[r][query.dest] # Never /\ earlier(r) /\ k \in Nat /\ r \in Nat
        BY EndTypes
    <3>2. ASSUME NEW j \in 0..r-1 PROVE Beats(tau[r][query.dest], tau[j][query.dest])
      <4> SUFFICES ASSUME tau[j][query.dest] # Never
                   PROVE  tau[r][query.dest] < tau[j][query.dest]
          BY DEF Beats
      <4>1. j \in 0..k
          BY <3>1
      <4>2. PICK b \in 0..j : Useful(b) /\ tau[b][query.dest] = tau[j][query.dest]
          BY <4>1, ArrivalsImprove
      <4>3. b \in UsefulRounds /\ b < r
          BY <3>1, <4>1, <4>2 DEF UsefulRounds
      <4>4. b \in built
          BY <2>1, <4>3
      <4> HIDE DEF built
      <4> QED BY <3>1, <4>2, <4>3, <4>4
    <3> QED BY <3>1, <3>2 DEF UsefulRounds, Useful
  <2> HIDE DEF kept
  <2> QED BY <2>1, <2>2
<1>3. ASSUME NEW a \in UsefulRounds, NEW b \in UsefulRounds, a < b
      PROVE  trace(a) # trace(b)
  <2>1. a \in 0..k /\ b \in 0..k /\ a # b
      BY <1>3, EndTypes DEF UsefulRounds
  <2>2. GoodLegs(Backtrack(a)) /\ GoodLegs(Backtrack(b))
      BY <2>1, EndTypes, BacktrackGood
  <2>3. TransitLegs(Backtrack(a)) = a /\ TransitLegs(Backtrack(b)) = b
      BY UsefulJourney
  <2>4. PICK f, g : f = Backtrack(a) /\ g = Backtrack(b)
      OBVIOUS
  <2>5. Fingerprint(f) # Fingerprint(g)
      BY <2>1, <2>2, <2>3, <2>4, FingerprintCounts
  <2> QED BY <2>4, <2>5
<1> HIDE DEF trace, kept
<1>4. {b \in kept : \A a \in kept : a < b => trace(a) # trace(b)} = UsefulRounds
    BY <1>2, <1>3
<1>5. found = {Journey(Backtrack(r)) : r \in UsefulRounds}
    BY <1>4
<1> HIDE DEF found
<1> QED BY <1>1, <1>5 DEF Top, Pareto

UsefulValues == {<<tau[r][query.dest], TransfersOf(r)>> : r \in UsefulRounds}

LEMMA ReferenceUseful ==
    ASSUME AtEnd, ~MoreRounds, query.origin # query.dest
    PROVE  ReferenceFrontier = ValuesTop(ValuesPareto(UsefulValues))
<1> DEFINE best0 == BestArrivals
           useful == {r \in 0..MaxRounds : /\ Labelled(best0[r])
                                           /\ \A j \in 0..r-1 : Earlier({best0[r].time}, best0[j])}
           pairs0 == {<<best0[r].time, IF r = 0 THEN 0 ELSE r - 1>> : r \in useful}
           pareto == {p \in pairs0 : \A q \in pairs0 : q[1] < p[1] => p[2] < q[2]}
<1>1. ReferenceFrontier =
        {p \in pareto : TopK = 0 \/ Cardinality({q \in pareto : q[1] < p[1]}) < TopK}
    BY DEF ReferenceFrontier
<1> HIDE DEF best0
<1>2. k \in Nat /\ k <= MaxRounds /\ MaxRounds \in Nat /\ query.dest \in Stations /\ Never \notin Int
    BY EndTypes
<1>3. \A r \in 0..MaxRounds : best0[r].time = tau[RoundOf(r)][query.dest]
    BY BestAreRounds DEF best0
<1>4. PICK T : T = [r \in 0..MaxRounds |-> tau[RoundOf(r)][query.dest]]
    OBVIOUS
<1>5. \A r \in 0..MaxRounds : T[r] \in Int \cup {Never} /\ best0[r].time = T[r]
  <2> TAKE r \in 0..MaxRounds
  <2>1. RoundOf(r) \in 0..k
      BY <1>2 DEF RoundOf
  <2>2. tau[RoundOf(r)][query.dest] \in Int \cup {Never}
      BY <1>2, <2>1, EndTypes
  <2> QED BY <1>3, <1>4, <2>2
<1>6. ASSUME NEW r \in 0..MaxRounds
      PROVE  r \in useful <=> T[r] # Never /\ \A j \in 0..r-1 : Beats(T[r], T[j])
  <2>1. \A j \in 0..r-1 : j \in 0..MaxRounds
      BY <1>2
  <2>2. ASSUME T[r] # Never, NEW j \in 0..r-1
        PROVE  Earlier({best0[r].time}, best0[j]) <=> Beats(T[r], T[j])
    <3>1. PICK S, lo : lo = T[r] /\ S = {lo}
        OBVIOUS
    <3>2. lo \in Int
        BY <1>5, <2>2, <3>1
    <3>3. S \in SUBSET Int /\ S # {} /\ \A t \in S : t >= lo
        BY <3>1, <3>2
    <3>4. Min(S) \in S
        BY <3>2, <3>3, MinOfTimes
    <3>5. S = {best0[r].time} /\ Min(S) = T[r] /\ best0[j].time = T[j]
        BY <1>5, <2>1, <3>1, <3>4
    <3> QED BY <3>3, <3>5 DEF Earlier, Labelled, Beats
  <2>3. Labelled(best0[r]) <=> T[r] # Never
      BY <1>5 DEF Labelled
  <2> QED BY <2>2, <2>3
<1> HIDE DEF useful
<1>7. useful = UsefulRounds
  <2>1. ASSUME NEW r \in 0..k
        PROVE  r \in useful <=> Useful(r)
    <3>1. r \in 0..MaxRounds /\ \A j \in 0..r : j \in 0..MaxRounds /\ RoundOf(j) = j
        BY <1>2 DEF RoundOf
    <3>2. \A j \in 0..r : T[j] = tau[j][query.dest]
        BY <1>4, <3>1
    <3>3. r \in 0..r /\ \A j \in 0..r-1 : j \in 0..r
        BY <1>2
    <3> QED BY <1>6, <3>1, <3>2, <3>3 DEF Useful
  <2>2. ASSUME NEW r \in 0..MaxRounds, r > k
        PROVE  r \notin useful
    <3>1. k \in 0..r-1 /\ k \in 0..MaxRounds /\ RoundOf(r) = k /\ RoundOf(k) = k
        BY <1>2, <2>2 DEF RoundOf
    <3>2. T[r] = T[k]
        BY <1>4, <3>1
    <3>3. T[r] # Never => ~Beats(T[r], T[k])
        BY <1>5, <3>2 DEF Beats
    <3> QED BY <1>6, <3>1, <3>3
  <2>3. \A r \in useful : r \in 0..MaxRounds
      BY DEF useful
  <2>4. \A r \in 0..MaxRounds : r \in 0..k \/ r > k
      BY <1>2
  <2> QED BY <2>1, <2>2, <2>3, <2>4 DEF UsefulRounds
<1>8. \A r \in UsefulRounds : /\ best0[r].time = tau[r][query.dest]
                              /\ (IF r = 0 THEN 0 ELSE r - 1) = TransfersOf(r)
  <2> TAKE r \in UsefulRounds
  <2>1. r \in 0..MaxRounds /\ RoundOf(r) = r
      BY <1>2 DEF UsefulRounds, RoundOf
  <2> QED BY <1>3, <2>1 DEF TransfersOf
<1>9. pairs0 = UsefulValues
    BY <1>7, <1>8 DEF UsefulValues
<1> HIDE DEF pairs0
<1>10. pareto = ValuesPareto(UsefulValues)
    BY <1>9 DEF ValuesPareto
<1> HIDE DEF pareto
<1> QED BY <1>1, <1>10 DEF ValuesTop

LEMMA FinishOptimal ==
    ASSUME FrontierInv, Finish, Untied, query.origin # query.dest
    PROVE  {Values(p) : p \in answer'} = ReferenceFrontier
<1>1. AtEnd /\ ~MoreRounds /\ Extract
    BY DEF Finish, AtEnd
<1>2. PICK S, J : S = UsefulRounds /\ J = [r \in S |-> Journey(Backtrack(r))]
    OBVIOUS
<1>3. PICK found : found = {J[r] : r \in S}
    OBVIOUS
<1>4. found = {Journey(Backtrack(r)) : r \in UsefulRounds}
    BY <1>2, <1>3
<1>5. answer' = Top(Pareto(found))
    BY <1>1, <1>4, ExtractUseful
<1>6. ReferenceFrontier = ValuesTop(ValuesPareto(UsefulValues))
    BY <1>1, ReferenceUseful
<1>7. \A r \in S : J[r].arr = tau[r][query.dest] /\ J[r].transfers = TransfersOf(r)
    BY <1>1, <1>2, UsefulJourney
<1>8. \A p, q \in found : p.arr = q.arr => p = q
  <2> SUFFICES ASSUME NEW a \in S, NEW b \in S, J[a].arr = J[b].arr
               PROVE  J[a] = J[b]
      BY <1>3
  <2> QED BY <1>1, <1>2, <1>7, UsefulDiffer
<1>9. IsFiniteSet(found)
  <2>1. k \in Nat
      BY <1>1, EndTypes
  <2>2. IsFiniteSet(0..k)
      BY <2>1, FS_Interval
  <2>3. IsFiniteSet(S)
      BY <1>2, <2>2, FS_Subset DEF UsefulRounds
  <2>4. J \in [S -> found]
      BY <1>2, <1>3
  <2>5. J \in Surjection(S, found)
      BY <1>3, <2>4 DEF Surjection
  <2> QED BY <2>3, <2>5, FS_Surjection
<1>10. UsefulValues = {Values(p) : p \in found}
  <2>1. \A r \in S : Values(J[r]) = <<tau[r][query.dest], TransfersOf(r)>>
      BY <1>7 DEF Values
  <2>2. {Values(p) : p \in found} = {Values(J[r]) : r \in S}
      BY <1>3
  <2> QED BY <1>2, <2>1, <2>2 DEF UsefulValues
<1>11. PICK pairs, pareto, front : pairs = UsefulValues /\ pareto = Pareto(found) /\ front = ValuesPareto(pairs)
    OBVIOUS
<1>12. pairs = {Values(p) : p \in found}
    BY <1>10, <1>11
<1>13. {Values(p) : p \in Top(pareto)} = ValuesTop(front)
    BY <1>8, <1>9, <1>11, <1>12, SameFrontier
<1> QED BY <1>5, <1>6, <1>11, <1>13

(***************************************************************************)
(* The reference of a finished search is the reference it was answered for *)
(***************************************************************************)

LEMMA LevelsStay ==
    ASSUME UNCHANGED <<net, query, signals>>, NEW f
    PROVE  LevelsOf(f)' <=> LevelsOf(f)
<1>1. \A L, T : NextLevel(L, T)' = NextLevel(L, T)
  <2> SUFFICES ASSUME NEW L, NEW T PROVE NextLevel(L, T)' = NextLevel(L, T)
      OBVIOUS
  <2> QED BY DEF NextLevel, Earlier, Labelled
<1>2. StartLevel' = StartLevel
    BY DEF StartLevel
<1>3. OfferedTrips' = OfferedTrips
    BY DEF OfferedTrips, AllTrips, Offered
<1>4. Levels' = Levels
    BY DEF Levels, NotBefore, Labelled
<1> QED BY <1>1, <1>2, <1>3, <1>4 DEF LevelsOf

LEMMA LevelsExistNext ==
    (TypeOK /\ TravelsForward(net))' =>
        \E f : LevelsOf(f)' /\ BestArrivals' = [r \in 0..MaxRounds |-> f[r][(query.dest)']]
<1>1. (TypeOK /\ TravelsForward(net) =>
          \E f : LevelsOf(f) /\ BestArrivals = [r \in 0..MaxRounds |-> f[r][query.dest]])'
    BY LevelsExist, PTL
<1> QED BY <1>1

LEMMA ReferenceStays ==
    ASSUME UNCHANGED <<net, query, signals>>, TypeOK, TypeOK', TravelsForward(net)
    PROVE  ReferenceFrontier' = ReferenceFrontier
<1>1. PICK f : LevelsOf(f) /\ BestArrivals = [r \in 0..MaxRounds |-> f[r][query.dest]]
    BY LevelsExist
<1>2. TravelsForward(net)'
    BY DEF TravelsForward
<1>3. PICK g : LevelsOf(g)' /\ BestArrivals' = [r \in 0..MaxRounds |-> g[r][(query.dest)']]
    BY <1>2, LevelsExistNext
<1>4. LevelsOf(g)
    BY <1>3, LevelsStay
<1>5. f = g
    BY <1>1, <1>4, LevelsAreUnique
<1>6. BestArrivals' = BestArrivals
    BY <1>1, <1>3, <1>5
<1> QED BY <1>6 DEF ReferenceFrontier, Earlier, Labelled

(***************************************************************************)
(* The theorems                                                            *)
(***************************************************************************)

(* When the rounds are over (engine.go:162-221), each has brought the      *)
(* destination exactly the arrival of the reference's level with as many   *)
(* vehicles, and levels beyond the last round bring nothing more: marks,   *)
(* queue and pruning lose no improvement there.                            *)
RoundsReachLevels ==
    RoundOver /\ ~MoreRounds /\ Untied /\ query.origin # query.dest =>
        \A r \in 0..MaxRounds : BestArrivals[r].time = tau[RoundOf(r)][query.dest]

THEOREM RoundsAreLevels == ASSUME ReloadedForward PROVE Spec => []RoundsReachLevels
<1>1. FrontierInv => RoundsReachLevels
    BY BestAreRounds DEF RoundsReachLevels, AtEnd
<1> QED BY <1>1, FrontierInvariant, PTL

(* buildPath (engine.go:557) finds a journey that ValidatePath accepts for *)
(* every round that brought the destination an earlier arrival; it rides   *)
(* as many vehicles as the round and arrives when the label says, although *)
(* the labels on its way may have been overwritten since.                  *)
UsefulRoundsAreBuilt ==
    RoundOver /\ Untied /\ query.origin # query.dest =>
        \A r \in UsefulRounds :
            /\ ValidPath(Backtrack(r)) /\ TransitLegs(Backtrack(r)) = r
            /\ Journey(Backtrack(r)).arr = tau[r][query.dest]

THEOREM UsefulRoundsBecomeJourneys == ASSUME ReloadedForward PROVE Spec => []UsefulRoundsAreBuilt
<1>1. FrontierInv => UsefulRoundsAreBuilt
    BY UsefulJourney DEF UsefulRoundsAreBuilt, AtEnd
<1> QED BY <1>1, FrontierInvariant, PTL

LEMMA StepsStayOptimal ==
    ASSUME FrontierInv, FrontierInv', OptimalWithoutTies, [Next]_vars
    PROVE  OptimalWithoutTies'
<1> SUFFICES ASSUME Untied', phase' = "done",
                    net.routes' # <<>>, query.origin' # query.dest'
             PROVE  {Values(p) : p \in answer}' = ReferenceFrontier'
    BY DEF OptimalWithoutTies, FrontierIsOptimal, Untied, Values
<1>1. CASE Finish
  <2>1. UNCHANGED <<net, query, signals>>
      BY <1>1 DEF Finish, inputVars
  <2>2. Untied /\ query.origin # query.dest
      BY <2>1 DEF Untied
  <2>3. {Values(p) : p \in answer'} = ReferenceFrontier
      BY <1>1, <2>2, FinishOptimal
  <2>4. ReferenceFrontier' = ReferenceFrontier
      BY <2>1, ReferenceStays DEF FrontierInv, JournalInv, SearchInv, NetInv
  <2> QED BY <2>3, <2>4 DEF Values
<1>2. CASE UNCHANGED vars
  <2>1. UNCHANGED <<net, query, signals, phase, answer>>
      BY <1>2 DEF vars, inputVars
  <2>2. Untied /\ phase = "done" /\ net.routes # <<>> /\ query.origin # query.dest
      BY <2>1 DEF Untied
  <2>3. {Values(p) : p \in answer} = ReferenceFrontier
      BY <2>2 DEF OptimalWithoutTies, FrontierIsOptimal, Untied, Values
  <2>4. ReferenceFrontier' = ReferenceFrontier
      BY <2>1, ReferenceStays DEF FrontierInv, JournalInv, SearchInv, NetInv
  <2> QED BY <2>1, <2>3, <2>4 DEF Values
<1>3. CASE Search
    BY <1>3 DEF Search, NothingToSearch
<1>4. CASE WalkFootpath \/ NextRound \/ Cancel \/ ScanStop \/ ScanTripStop \/ EndScan
           \/ SwapRoutes \/ SwapSignals
    BY <1>4 DEF WalkFootpath, NextRound, Cancel, ScanStop, ScanTripStop, EndScan, SwapRoutes,
                SwapSignals, Publish, RoundOver, Searching
<1> QED BY <1>1, <1>2, <1>3, <1>4 DEF Next, SearchStep

(* RaptorSearch returns "a true Pareto frontier" (engine.go:116): exactly  *)
(* the arrivals and transfers of the reference's frontier, for any         *)
(* signals and any published timetables whose vehicles arrive after they   *)
(* have left, where no two trips leave a stop of their route together.     *)
(* The pruning by the destination's label, the marks, the binary search    *)
(* for the first trip and the per-trip scan of overtaking routes lose no   *)
(* journey and invent none.                                                *)
THEOREM SearchIsOptimal == ASSUME ReloadedForward PROVE Spec => []OptimalWithoutTies
<1>1. Init => OptimalWithoutTies
    BY DEF Init, OptimalWithoutTies, FrontierIsOptimal
<1>2. FrontierInv /\ FrontierInv' /\ OptimalWithoutTies /\ [Next]_vars => OptimalWithoutTies'
    BY StepsStayOptimal
<1> QED BY <1>1, <1>2, FrontierInvariant, PTL DEF Spec
===============================================================================
