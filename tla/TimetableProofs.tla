---------------------------- MODULE TimetableProofs ----------------------------
(***************************************************************************)
(* What a reload computes is what the search takes it to be, for any rows  *)
(* and any footpaths: the mark of computeFIFO compares all pairs of trips  *)
(* although it looks at neighbours only, closeFootpaths finds the shortest *)
(* walks although its queue settles each station once, and the arrays of a *)
(* route fit its stops although trips may stop elsewhere.                  *)
(***************************************************************************)
EXTENDS Timetable, FiniteSetTheorems, WellFoundedInduction, TLAPS

(***************************************************************************)
(* Numbers                                                                 *)
(***************************************************************************)

(* A nonempty set of numbers has a least one, and Min is it. *)
LEMMA MinIsLeast ==
    ASSUME NEW S \in SUBSET Nat, S # {}
    PROVE  Min(S) \in S /\ \A y \in S : Min(S) <= y
<1> DEFINE R == {ss \in Nat \X Nat : ss[1] < ss[2]}
<1>1. OpToRel(<, Nat) = R
    BY Zenon DEF OpToRel
<1>2. \A x, y \in Nat : <<y, x>> \notin R => x <= y
    OBVIOUS
<1>3. IsWellFoundedOn(R, Nat)
    BY <1>1, NatLessThanWellFounded
<1> HIDE DEF R
<1>4. \E x \in S : \A y \in S : <<y, x>> \notin R
    BY <1>3, WFMin
<1>5. \E x \in S : \A y \in S : x <= y
    BY <1>2, <1>4
<1> QED BY <1>5 DEF Min

(* Induction up to a bound, for a set of numbers. *)
LEMMA Induct ==
    ASSUME NEW N \in Nat, NEW P, 0 \in P, \A n \in 1..N : n-1 \in P => n \in P
    PROVE  \A n \in 0..N : n \in P
<1> DEFINE S == {n \in 0..N : n \notin P}
<1>1. CASE S = {}
    BY <1>1
<1>2. CASE S # {}
  <2> DEFINE m == Min(S)
  <2>1. S \in SUBSET Nat
      OBVIOUS
  <2>2. m \in S
    <3> HIDE DEF S
    <3> QED BY <1>2, <2>1, MinIsLeast
  <2>3. \A n \in S : m <= n
    <3> HIDE DEF S
    <3> QED BY <1>2, <2>1, MinIsLeast
  <2> HIDE DEF m
  <2>4. m \in 1..N /\ m-1 \notin S /\ m-1 \in 0..N
      BY <2>2, <2>3
  <2> QED BY <2>2, <2>4
<1> QED BY <1>1, <1>2

(* A finite set of integers has a least one. *)
LEMMA FiniteLeast ==
    ASSUME NEW S \in SUBSET Int, IsFiniteSet(S), S # {}
    PROVE  \E x \in S : \A y \in S : x <= y
<1>1. PICK n \in Nat : n = Cardinality(S) /\ ExistsBijection(1..n, S)
    BY FS_CardinalityType
<1>2. PICK f \in [1..n -> S] : \A y \in S : \E i \in 1..n : f[i] = y
    BY <1>1 DEF ExistsBijection, Bijection, Surjection
<1>3. n # 0
    BY <1>1, FS_EmptySet
<1> DEFINE P == {m \in 0..n : m = 0 \/ \E i \in 1..m : \A j \in 1..m : f[i] <= f[j]}
<1>4. 0 \in P
    BY <1>1
<1>5. ASSUME NEW m \in 1..n, m-1 \in P PROVE m \in P
  <2>1. \A j \in 1..m : f[j] \in Int
    <3>1. \A j \in 1..m : j \in 1..n
        BY <1>1
    <3>2. \A j \in 1..n : f[j] \in S
        BY <1>2
    <3> QED BY <3>1, <3>2
  <2>2. CASE m = 1
      BY <2>1, <2>2, <1>1
  <2>3. CASE m # 1
    <3>1. PICK i \in 1..m-1 : \A j \in 1..m-1 : f[i] <= f[j]
        BY <1>5, <2>3
    <3>2. i \in 1..m /\ m \in 1..m /\ \A j \in 1..m : j \in 1..m-1 \/ j = m
        BY <3>1
    <3>3. f[i] \in Int /\ f[m] \in Int
        BY <2>1, <3>2
    <3>4. CASE f[i] <= f[m]
      <4>1. \A j \in 1..m : f[i] <= f[j]
          BY <3>1, <3>2, <3>4
      <4> QED BY <3>2, <4>1, <1>1
    <3>5. CASE f[m] < f[i]
      <4>1. \A j \in 1..m : f[m] <= f[j]
          BY <2>1, <3>1, <3>2, <3>3, <3>5
      <4> QED BY <3>2, <4>1, <1>1
    <3> QED BY <3>3, <3>4, <3>5
  <2> QED BY <2>2, <2>3
<1>6. n \in P
  <2> HIDE DEF P
  <2> QED BY <1>1, <1>4, <1>5, Induct
<1>7. PICK i \in 1..n : \A j \in 1..n : f[i] <= f[j]
    BY <1>3, <1>6 DEF P
<1> QED BY <1>2, <1>7

(* A loop that is a recursive function: N turns of F, beginning with       *)
(* first.                                                                  *)
Turns(S, first, F, N, f) ==
    f \in [0..N -> S] /\ f[0] = first /\ \A n \in 1..N : f[n] = F[f[n-1]]

LEMMA LoopRuns ==
    ASSUME NEW S, NEW first \in S, NEW F \in [S -> S], NEW N \in Nat
    PROVE  \E f : Turns(S, first, F, N, f)
<1> DEFINE P == {m \in 0..N : \E f \in [0..m -> S] :
                    f[0] = first /\ \A n \in 1..m : f[n] = F[f[n-1]]}
<1>1. 0 \in P
  <2> DEFINE f == [i \in 0..0 |-> first]
  <2>1. f \in [0..0 -> S] /\ f[0] = first /\ \A n \in 1..0 : f[n] = F[f[n-1]]
      OBVIOUS
  <2> HIDE DEF f
  <2> QED BY <2>1
<1>2. ASSUME NEW m \in 1..N, m-1 \in P PROVE m \in P
  <2>1. PICK f \in [0..m-1 -> S] : f[0] = first /\ \A n \in 1..m-1 : f[n] = F[f[n-1]]
      BY <1>2
  <2> DEFINE g == [i \in 0..m |-> IF i = m THEN F[f[m-1]] ELSE f[i]]
  <2>2. g \in [0..m -> S] /\ g[0] = first
      BY <2>1
  <2>3. \A n \in 1..m : g[n] = F[g[n-1]]
      BY <2>1
  <2> HIDE DEF g
  <2> QED BY <2>2, <2>3
<1>3. N \in P
  <2> HIDE DEF P
  <2> QED BY <1>1, <1>2, Induct
<1>4. PICK f \in [0..N -> S] : f[0] = first /\ \A n \in 1..N : f[n] = F[f[n-1]]
    BY <1>3
<1>5. Turns(S, first, F, N, f)
    BY <1>4 DEF Turns
<1> QED BY <1>5

(***************************************************************************)
(* Overtaking                                                              *)
(***************************************************************************)

(* What a reload publishes was measured by computeFIFO. *)
LEMMA RoutesAreMeasured ==
    ASSUME NEW db, NEW r \in DOMAIN ReloadRouteArrays(db).routes
    PROVE  LET route == ReloadRouteArrays(db).routes[r]
           IN  route.fifo = ComputeFIFO(route.trips)
<1>1. ASSUME NEW rs PROVE LoadRoute(rs).fifo = ComputeFIFO(LoadRoute(rs).trips)
    BY DEF LoadRoute
<1>2. ReloadRouteArrays(db).routes = LoadRoutes(db.rows)
    BY DEF ReloadRouteArrays
<1>3. \E rs : LoadRoutes(db.rows)[r] = LoadRoute(rs)
    BY <1>2 DEF LoadRoutes
<1> QED BY <1>1, <1>2, <1>3

(* What holds of neighbours and is transitive holds of all pairs. *)
LEMMA Chain ==
    ASSUME NEW n \in Nat, NEW R,
           \A j \in 2..n : <<j-1, j>> \in R,
           \A a, b, c \in 1..n : <<a, b>> \in R /\ <<b, c>> \in R => <<a, c>> \in R,
           NEW i \in 1..n
    PROVE  \A j \in 1..n : i < j => <<i, j>> \in R
<1> DEFINE S == {j \in 1..n : i < j /\ <<i, j>> \notin R}
<1>1. CASE S = {}
    BY <1>1
<1>2. CASE S # {}
  <2> DEFINE m == Min(S)
  <2>1. S \in SUBSET Nat
      OBVIOUS
  <2>2. m \in S /\ \A j \in S : m <= j
    <3> HIDE DEF S
    <3> QED BY <1>2, <2>1, MinIsLeast
  <2> HIDE DEF m
  <2>3. m \in 2..n /\ m - 1 \in 1..n /\ m - 1 \notin S /\ <<m-1, m>> \in R /\ i <= m - 1
      BY <2>2
  <2>4. m - 1 = i \/ <<i, m-1>> \in R
      BY <2>3
  <2>5. <<i, m>> \in R
      BY <2>3, <2>4
  <2> QED BY <2>2, <2>5
<1> QED BY <1>1, <1>2

(* Comparing neighbours is comparing all pairs, and the positions of the   *)
(* first trip are those of the route.                                      *)
LEMMA NeighboursSuffice ==
    ASSUME NEW r, WellFormedRoute(r)
    PROVE  ComputeFIFO(r.trips) <=> NoOvertaking(r)
<1> DEFINE P == DOMAIN r.stops
           Trip == [key: Int \X Int, arr: [P -> Int], dep: [P -> Int]]
<1>1. \E n \in Nat : P = 1..n
  <2>1. ASSUME NEW s \in Seq(Stations) PROVE DOMAIN s = 1..Len(s) /\ Len(s) \in Nat
      OBVIOUS
  <2> QED BY <2>1 DEF WellFormedRoute
<1>2. r.trips \in Seq(Trip) /\ r.trips # <<>>
    BY DEF WellFormedRoute
<1>3. PICK T : T = r.trips
    OBVIOUS
<1>4. /\ Len(T) \in Nat /\ DOMAIN T = 1..Len(T) /\ 1 \in DOMAIN T
      /\ \A i \in DOMAIN T : T[i] \in Trip
  <2> HIDE DEF Trip
  <2> QED BY <1>2, <1>3
<1>5. \A i \in DOMAIN T : T[i].dep \in [P -> Int] /\ T[i].arr \in [P -> Int]
    BY <1>4
<1>6. ASSUME NEW i \in DOMAIN T
      PROVE  Len(T[i].dep) = Len(T[1].dep) /\ Len(T[i].arr) = Len(T[1].dep)
  <2>1. ASSUME NEW f \in [P -> Int] PROVE \A n \in Nat : P = 1..n => Len(f) = n
      OBVIOUS
  <2>2. T[i].dep \in [P -> Int] /\ T[i].arr \in [P -> Int] /\ T[1].dep \in [P -> Int]
      BY <1>4, <1>5
  <2> HIDE DEF P
  <2> QED BY <1>1, <2>1, <2>2
<1>7. DOMAIN T[1].dep = P
    BY <1>4, <1>5
<1> DEFINE Before(i, j) ==
             \A p \in P : T[i].dep[p] <= T[j].dep[p] /\ T[i].arr[p] <= T[j].arr[p]
           R == {ij \in (DOMAIN T) \X (DOMAIN T) : Before(ij[1], ij[2])}
<1>8. ComputeFIFO(T) <=> \A i \in 2..Len(T) : Before(i-1, i)
  <2> HIDE DEF P
  <2>1. \A i \in 2..Len(T) : i \in DOMAIN T /\ i-1 \in DOMAIN T
      BY <1>4
  <2>2. ASSUME NEW i \in 2..Len(T)
        PROVE  Before(i-1, i) <=> \A p \in DOMAIN T[1].dep :
                                    T[i].dep[p] >= T[i-1].dep[p] /\ T[i].arr[p] >= T[i-1].arr[p]
    <3>1. /\ T[i].dep \in [P -> Int] /\ T[i].arr \in [P -> Int]
          /\ T[i-1].dep \in [P -> Int] /\ T[i-1].arr \in [P -> Int]
        BY <1>5, <2>1
    <3> QED BY <1>7, <3>1
  <2>3. Len(T) < 2 => 2..Len(T) = {}
      BY <1>4
  <2> HIDE DEF Before
  <2> QED BY <1>6, <2>2, <2>3 DEF ComputeFIFO
<1>9. NoOvertaking(r) <=> \A i, j \in DOMAIN T : i < j => Before(i, j)
    BY <1>3 DEF NoOvertaking
<1>10. \A a, b, c \in DOMAIN T : Before(a, b) /\ Before(b, c) => Before(a, c)
  <2> HIDE DEF P
  <2> QED BY <1>5
<1> HIDE DEF Before, P, Trip
<1>11. ASSUME \A i \in 2..Len(T) : Before(i-1, i), NEW i \in DOMAIN T, NEW j \in DOMAIN T, i < j
       PROVE  Before(i, j)
  <2>1. /\ \A e \in 2..Len(T) : <<e-1, e>> \in R
        /\ \A a, b, c \in 1..Len(T) : <<a, b>> \in R /\ <<b, c>> \in R => <<a, c>> \in R
      BY <1>4, <1>10, <1>11
  <2> HIDE DEF R
  <2>2. <<i, j>> \in R
      BY <1>4, <1>11, <2>1, Chain
  <2>3. \A ij \in R : Before(ij[1], ij[2])
      BY DEF R
  <2> QED BY <2>2, <2>3
<1>12. ASSUME \A i, j \in DOMAIN T : i < j => Before(i, j), NEW i \in 2..Len(T)
       PROVE  Before(i-1, i)
  <2>1. i-1 \in DOMAIN T /\ i \in DOMAIN T /\ i-1 < i
      BY <1>4
  <2> QED BY <1>12, <2>1
<1> QED BY <1>3, <1>8, <1>9, <1>11, <1>12

(***************************************************************************)
(* The quota                                                               *)
(***************************************************************************)

StrictOrder(E, R) ==
    /\ \A e \in E : <<e, e>> \notin R
    /\ \A e, f, g \in E : <<e, f>> \in R /\ <<f, g>> \in R => <<e, g>> \in R
    /\ \A e, f \in E : e # f => <<e, f>> \in R \/ <<f, e>> \in R

(* How many come before each, and those before whom fewer than M come. *)
Rank(E, R) == [e \in E |-> Cardinality({f \in E : <<f, e>> \in R})]
FirstOf(E, R, M) == {e \in E : Rank(E, R)[e] < M}

(* In a finite set with a strict total order the ranks are the numbers up  *)
(* to its size, each once.                                                 *)
LEMMA RanksCount ==
    ASSUME NEW E, IsFiniteSet(E), NEW R, StrictOrder(E, R), NEW n \in Nat, n = Cardinality(E)
    PROVE  /\ Rank(E, R) \in Injection(E, 0..n-1)
           /\ Rank(E, R) \in Surjection(E, 0..n-1)
           /\ \A e, f \in E : <<e, f>> \in R => Rank(E, R)[e] < Rank(E, R)[f]
<1>1. PICK rank : rank = Rank(E, R)
    OBVIOUS
<1> DEFINE below(e) == {f \in E : <<f, e>> \in R}
<1>2. ASSUME NEW e \in E PROVE IsFiniteSet(below(e)) /\ Cardinality(below(e)) \in Nat
    BY FS_Subset, FS_CardinalityType
<1>3. ASSUME NEW e \in E, NEW f \in E, <<f, e>> \in R
      PROVE  Cardinality(below(f)) < Cardinality(below(e))
  <2>1. below(f) \cup {f} \in SUBSET below(e) /\ f \notin below(f)
      BY <1>3 DEF StrictOrder
  <2> HIDE DEF below
  <2>2. Cardinality(below(f) \cup {f}) = Cardinality(below(f)) + 1
      BY <1>2, <2>1, FS_AddElement
  <2>3. Cardinality(below(f) \cup {f}) <= Cardinality(below(e))
      BY <1>2, <2>1, FS_Subset
  <2> QED BY <1>2, <2>2, <2>3
<1>4. ASSUME NEW e \in E PROVE Cardinality(below(e)) \in 0..n-1
  <2>1. below(e) \in SUBSET (E \ {e})
      BY DEF StrictOrder
  <2>2. IsFiniteSet(E \ {e}) /\ Cardinality(E \ {e}) = n - 1
      BY FS_RemoveElement
  <2> HIDE DEF below
  <2>3. Cardinality(below(e)) <= n - 1
      BY <2>1, <2>2, FS_Subset
  <2> QED BY <1>2, <2>3
<1>5. rank = [e \in E |-> Cardinality(below(e))]
    BY <1>1 DEF Rank
<1>6. \A e \in E : rank[e] = Cardinality(below(e))
    BY <1>5
<1> HIDE DEF below
<1>7. rank \in Injection(E, 0..n-1)
  <2>1. rank \in [E -> 0..n-1]
      BY <1>4, <1>5
  <2>2. ASSUME NEW e \in E, NEW f \in E, e # f PROVE rank[e] # rank[f]
    <3>1. rank[e] \in Int /\ rank[f] \in Int
        BY <1>2, <1>6
    <3>2. <<e, f>> \in R \/ <<f, e>> \in R
        BY <2>2 DEF StrictOrder
    <3>3. <<e, f>> \in R => rank[e] < rank[f]
        BY <1>3, <1>6
    <3>4. <<f, e>> \in R => rank[f] < rank[e]
        BY <1>3, <1>6
    <3> QED BY <3>1, <3>2, <3>3, <3>4
  <2>3. \A e, f \in DOMAIN rank : rank[e] = rank[f] => e = f
      BY <2>1, <2>2
  <2> QED BY <2>1, <2>3 DEF Injection, IsInjective
<1>8. IsFiniteSet(0..n-1) /\ Cardinality(0..n-1) = n
  <2>1. 0 \in Int /\ n-1 \in Int /\ (IF 0 > n-1 THEN 0 ELSE (n-1)-0+1) = n
      OBVIOUS
  <2> QED BY <2>1, FS_Interval
<1>9. rank \in Surjection(E, 0..n-1)
    BY <1>7, <1>8, FS_Injection
<1>10. \A e, f \in E : <<e, f>> \in R => rank[e] < rank[f]
    BY <1>3, <1>6
<1> QED BY <1>1, <1>7, <1>9, <1>10

(* Of a finite set in a strict total order, those with fewer than M before *)
(* them are M in number if they are not all.                               *)
LEMMA FirstFew ==
    ASSUME NEW E, IsFiniteSet(E), NEW R, StrictOrder(E, R), NEW M \in Nat,
           NEW x \in E, x \notin FirstOf(E, R, M)
    PROVE  Cardinality(FirstOf(E, R, M)) = M
<1>1. PICK rank : rank = Rank(E, R)
    OBVIOUS
<1>2. PICK kept : kept = {e \in E : rank[e] < M}
    OBVIOUS
<1>3. kept = FirstOf(E, R, M)
    BY <1>1, <1>2 DEF FirstOf
<1>4. PICK n \in Nat : n = Cardinality(E)
    BY FS_CardinalityType
<1>5. rank \in Injection(E, 0..n-1) /\ rank \in Surjection(E, 0..n-1)
    BY <1>1, <1>4, RanksCount
<1>6. rank \in [E -> 0..n-1]
    BY <1>5 DEF Injection
<1>7. M <= n - 1
    BY <1>2, <1>3, <1>6
<1>8. PICK few : few = [e \in kept |-> rank[e]]
    OBVIOUS
<1>9. few \in [kept -> 0..M-1]
    BY <1>2, <1>6, <1>8
<1>10. few \in Injection(kept, 0..M-1)
    BY <1>2, <1>5, <1>8, <1>9 DEF Injection, IsInjective
<1>11. few \in Surjection(kept, 0..M-1)
  <2>1. \A i \in 0..n-1 : \E e \in E : rank[e] = i
      BY <1>5 DEF Surjection
  <2>2. \A i \in 0..M-1 : \E e \in kept : few[e] = i
      BY <1>2, <1>7, <1>8, <2>1
  <2> QED BY <1>9, <2>2 DEF Surjection
<1>12. IsFiniteSet(0..M-1) /\ Cardinality(0..M-1) = M
  <2>1. 0 \in Int /\ M-1 \in Int /\ (IF 0 > M-1 THEN 0 ELSE (M-1)-0+1) = M
      OBVIOUS
  <2> QED BY <2>1, FS_Interval
<1> QED BY <1>3, <1>10, <1>11, <1>12, FS_Injection

(* So they can be put in order, and what is in order is all of them. *)
LEMMA OrderExists ==
    ASSUME NEW S, IsFiniteSet(S), NEW R, StrictOrder(S, R), NEW n \in Nat, n = Cardinality(S)
    PROVE  /\ InOrder(S, R) \in [1..n -> S]
           /\ \A i, j \in 1..n : i < j => <<InOrder(S, R)[i], InOrder(S, R)[j]>> \in R
           /\ S # {} => n >= 1
<1>1. PICK rank : rank = Rank(S, R)
    OBVIOUS
<1>2. /\ \A e \in S : rank[e] \in 0..n-1
      /\ \A i \in 0..n-1 : \E e \in S : rank[e] = i
      /\ \A e, f \in S : <<e, f>> \in R => rank[e] < rank[f]
    BY <1>1, RanksCount DEF Injection, Surjection
<1>3. PICK f : f = [i \in 1..n |-> CHOOSE e \in S : rank[e] = i - 1]
    OBVIOUS
<1>4. \A i \in 1..n : f[i] \in S /\ rank[f[i]] = i - 1
  <2> TAKE i \in 1..n
  <2>1. \E e \in S : rank[e] = i - 1
      BY <1>2
  <2> QED BY <1>3, <2>1
<1>5. f \in [1..n -> S]
    BY <1>3, <1>4
<1>6. \A i, j \in 1..n : i < j => <<f[i], f[j]>> \in R
  <2> SUFFICES ASSUME NEW i \in 1..n, NEW j \in 1..n, i < j PROVE <<f[i], f[j]>> \in R
      OBVIOUS
  <2>1. rank[f[i]] = i - 1 /\ rank[f[j]] = j - 1 /\ f[i] \in S /\ f[j] \in S
      BY <1>4
  <2>2. f[i] # f[j] /\ ~(rank[f[j]] < rank[f[i]])
      BY <2>1
  <2> QED BY <1>2, <2>1, <2>2 DEF StrictOrder
<1>7. InOrder(S, R) \in [1..n -> S]
      /\ \A i, j \in 1..n : i < j => <<InOrder(S, R)[i], InOrder(S, R)[j]>> \in R
    BY <1>5, <1>6 DEF InOrder
<1>8. S # {} => n >= 1
    BY FS_EmptySet
<1> QED BY <1>7, <1>8

(***************************************************************************)
(* Walks                                                                   *)
(***************************************************************************)

(* Rows of the footpath table that loadFootpaths keeps. *)
Edges == {e \in [from: Stations, to: Stations, secs: Int] : e.secs > 0 /\ e.from # e.to}

WalkState == [settled: SUBSET Stations, dist: [Stations -> (0..MaxWalkSeconds) \cup {Never}]]

(* The top of the queue is a nearest station. *)
LEMMA NearestIsNearest ==
    ASSUME NEW d \in WalkState, Frontier(d) # {}
    PROVE  /\ Nearest(d) \in Frontier(d)
           /\ \A o \in Frontier(d) : d.dist[Nearest(d)] <= d.dist[o]
<1>1. \A o \in Frontier(d) : d.dist[o] \in 0..MaxWalkSeconds /\ o \in Stations
    BY DEF Frontier, WalkState
<1>2. MaxWalkSeconds \in Nat /\ Stations \subseteq Int /\ IsFiniteSet(Stations)
    BY TimetableAssumption
<1> DEFINE T == {d.dist[o] : o \in Frontier(d)}
<1>3. PICK m \in T : \A y \in T : m <= y
  <2>1. T \in SUBSET Nat /\ T # {}
      BY <1>1, <1>2
  <2> HIDE DEF T
  <2> QED BY <2>1, MinIsLeast
<1> DEFINE C == {o \in Frontier(d) : d.dist[o] = m}
<1>4. PICK x \in C : \A y \in C : x <= y
  <2>1. C \in SUBSET Stations /\ C # {}
      BY <1>1, <1>3
  <2>2. C \in SUBSET Int /\ IsFiniteSet(C)
      BY <2>1, <1>2, FS_Subset
  <2> HIDE DEF C
  <2> QED BY <2>1, <2>2, FiniteLeast
<1>5. \A o \in Frontier(d) :
        d.dist[x] < d.dist[o] \/ (d.dist[x] = d.dist[o] /\ x <= o)
  <2> TAKE o \in Frontier(d)
  <2>1. d.dist[x] = m /\ m <= d.dist[o]
      BY <1>3, <1>4
  <2>2. d.dist[o] = m => x <= o
      BY <1>4
  <2>3. m \in Int /\ d.dist[o] \in Int
      BY <1>1, <1>2, <1>3
  <2> QED BY <2>1, <2>2, <2>3
<1>6. /\ Nearest(d) \in Frontier(d)
      /\ \A o \in Frontier(d) : d.dist[Nearest(d)] < d.dist[o]
                                \/ (d.dist[Nearest(d)] = d.dist[o] /\ Nearest(d) <= o)
    BY <1>4, <1>5 DEF Nearest
<1> QED BY <1>1, <1>2, <1>6

(* One turn of the queue, from d to d2: u is settled, and its edges shorten *)
(* what they can.                                                          *)
Relaxed(direct, d, u, d2) ==
    /\ d2 \in WalkState
    /\ d2.settled = d.settled \cup {u}
    /\ \A s \in Stations :
         \/ d2.dist[s] = d.dist[s]
         \/ /\ \E e \in direct : /\ e.from = u /\ e.to = s
                                 /\ d2.dist[s] = d.dist[u] + e.secs
            /\ d2.dist[s] # Never
            /\ d.dist[s] # Never => d2.dist[s] < d.dist[s]
    /\ \A e \in direct : e.from = u /\ d.dist[u] + e.secs <= MaxWalkSeconds =>
         d2.dist[e.to] # Never /\ d2.dist[e.to] <= d.dist[u] + e.secs

LEMMA SettleRelaxes ==
    ASSUME NEW direct \in SUBSET Edges, NEW d \in WalkState, Frontier(d) # {}
    PROVE  Relaxed(direct, d, Nearest(d), Settle(direct, d))
<1>1. PICK u : u = Nearest(d)
    OBVIOUS
<1>2. PICK d2 : d2 = Settle(direct, d)
    OBVIOUS
<1>3. MaxWalkSeconds \in Nat /\ Never \notin Int
    BY TimetableAssumption
<1>4. u \in Stations /\ u \notin d.settled /\ d.dist[u] \in 0..MaxWalkSeconds
    BY <1>1, NearestIsNearest DEF Frontier, WalkState
<1> DEFINE via(s) == {d.dist[u] + e.secs : e \in {f \in direct : f.from = u /\ f.to = s}}
           new(s) == {w \in via(s) : /\ w <= MaxWalkSeconds
                                     /\ d.dist[s] = Never \/ w < d.dist[s]}
           far(s) == IF new(s) = {} THEN d.dist[s] ELSE Min(new(s))
<1>5. d2 = [settled |-> d.settled \cup {u}, dist |-> [s \in Stations |-> far(s)]]
    BY <1>1, <1>2 DEF Settle
<1>6. ASSUME NEW s \in Stations, new(s) # {}
      PROVE  /\ Min(new(s)) \in new(s) /\ \A y \in new(s) : Min(new(s)) <= y
             /\ Min(new(s)) \in 0..MaxWalkSeconds
  <2>1. new(s) \in SUBSET (0..MaxWalkSeconds)
      BY <1>3, <1>4 DEF Edges
  <2>2. new(s) \in SUBSET Nat
      BY <2>1, <1>3
  <2> HIDE DEF new
  <2> QED BY <1>6, <2>1, <2>2, MinIsLeast
<1>7. \A s \in Stations : d.dist[s] \in (0..MaxWalkSeconds) \cup {Never}
    BY DEF WalkState
<1>8. d2 \in WalkState
  <2>1. \A s \in Stations : far(s) \in (0..MaxWalkSeconds) \cup {Never}
      BY <1>6, <1>7
  <2>2. d.settled \cup {u} \in SUBSET Stations
      BY <1>4 DEF WalkState
  <2> HIDE DEF far
  <2> QED BY <1>5, <2>1, <2>2 DEF WalkState
<1>9. d2.settled = d.settled \cup {u} /\ \A s \in Stations : d2.dist[s] = far(s)
    BY <1>5
<1>10. ASSUME NEW s \in Stations
      PROVE  \/ d2.dist[s] = d.dist[s]
             \/ /\ \E e \in direct : /\ e.from = u /\ e.to = s
                                     /\ d2.dist[s] = d.dist[u] + e.secs
                /\ d2.dist[s] # Never
                /\ d.dist[s] # Never => d2.dist[s] < d.dist[s]
  <2>1. CASE new(s) = {}
      BY <2>1, <1>9
  <2>2. CASE new(s) # {}
    <3>1. d2.dist[s] \in new(s) /\ d2.dist[s] \in 0..MaxWalkSeconds
      <4> HIDE DEF new
      <4> QED BY <2>2, <1>6, <1>9
    <3> QED BY <3>1, <1>3
  <2> QED BY <2>1, <2>2
<1>11. ASSUME NEW e \in direct, e.from = u, d.dist[u] + e.secs <= MaxWalkSeconds
      PROVE  d2.dist[e.to] # Never /\ d2.dist[e.to] <= d.dist[u] + e.secs
  <2>1. e.to \in Stations /\ e.secs \in Nat
      BY DEF Edges
  <2>2. d.dist[u] + e.secs \in via(e.to)
      BY <1>11
  <2>3. CASE d.dist[u] + e.secs \in new(e.to)
    <3>1. /\ new(e.to) # {} /\ d2.dist[e.to] = Min(new(e.to))
      <4> HIDE DEF new
      <4> QED BY <2>1, <2>3, <1>9
    <3> HIDE DEF new
    <3> QED BY <2>1, <2>3, <3>1, <1>6, <1>3
  <2>4. CASE d.dist[u] + e.secs \notin new(e.to)
    <3>1. d.dist[e.to] # Never /\ d.dist[e.to] <= d.dist[u] + e.secs
        BY <2>1, <2>2, <2>4, <1>4, <1>7, <1>11
    <3>2. d2.dist[e.to] = d.dist[e.to] \/ (d2.dist[e.to] # Never /\ d2.dist[e.to] < d.dist[e.to])
        BY <2>1, <3>1, <1>10
    <3>3. d.dist[e.to] \in Int /\ (d2.dist[e.to] # Never => d2.dist[e.to] \in Int)
        BY <2>1, <3>1, <1>7, <1>8 DEF WalkState
    <3> QED BY <3>1, <3>2, <3>3, <1>4, <2>1
  <2> QED BY <2>3, <2>4
<1> QED BY <1>1, <1>2, <1>8, <1>9, <1>10, <1>11 DEF Relaxed

(* What holds between two turns: whoever is settled is nearer than whoever *)
(* still waits, and his edges have been followed.                          *)
SettledOK(direct, src, d) ==
    /\ d \in WalkState
    /\ d.dist[src] = 0
    /\ \A s \in d.settled : d.dist[s] # Never /\ \A f \in Frontier(d) : d.dist[s] <= d.dist[f]
    /\ \A e \in direct :
         e.from \in d.settled /\ d.dist[e.from] + e.secs <= MaxWalkSeconds =>
             d.dist[e.to] # Never /\ d.dist[e.to] <= d.dist[e.from] + e.secs

LEMMA SettleKeeps ==
    ASSUME NEW direct \in SUBSET Edges, NEW src \in Stations, NEW d,
           SettledOK(direct, src, d), Frontier(d) # {}
    PROVE  SettledOK(direct, src, Settle(direct, d))
<1>1. MaxWalkSeconds \in Nat /\ Never \notin Int
    BY TimetableAssumption
<1>2. PICK u : u = Nearest(d)
    OBVIOUS
<1>3. PICK d2 : d2 = Settle(direct, d)
    OBVIOUS
<1>4. d \in WalkState
    BY DEF SettledOK
<1>5. Relaxed(direct, d, u, d2) /\ d2 \in WalkState
  <2>1. Relaxed(direct, d, Nearest(d), Settle(direct, d))
      BY <1>4, SettleRelaxes
  <2> QED BY <1>2, <1>3, <2>1 DEF Relaxed
<1>6. /\ u \in Frontier(d) /\ u \in Stations /\ d.dist[u] \in 0..MaxWalkSeconds
      /\ \A o \in Frontier(d) : d.dist[u] <= d.dist[o]
    BY <1>2, <1>4, NearestIsNearest DEF Frontier, WalkState
<1>7. \A s \in Stations : /\ d.dist[s] \in (0..MaxWalkSeconds) \cup {Never}
                          /\ d2.dist[s] \in (0..MaxWalkSeconds) \cup {Never}
    BY <1>4, <1>5 DEF WalkState, Relaxed
<1>8. d.settled \in SUBSET Stations
    BY <1>4 DEF WalkState
<1>9. ASSUME NEW s \in d.settled PROVE s \in Stations /\ d.dist[s] \in Int /\ d.dist[s] <= d.dist[u]
    BY <1>1, <1>6, <1>7, <1>8 DEF SettledOK
    (* What is settled stays as it is: any other way there is longer. *)
<1>10. ASSUME NEW s \in d.settled \cup {u}
       PROVE  s \in Stations /\ d2.dist[s] = d.dist[s] /\ d.dist[s] \in Int /\ d.dist[s] <= d.dist[u]
  <2>1. s \in Stations /\ d.dist[s] \in Int /\ d.dist[s] <= d.dist[u]
      BY <1>1, <1>6, <1>9
  <2>2. \A e \in direct : e.secs \in Nat \ {0}
      BY DEF Edges
  <2>3. d.dist[s] # Never
      BY <2>1, <1>1
  <2> QED BY <2>1, <2>2, <2>3, <1>5, <1>6 DEF Relaxed
<1>11. d2.dist[src] = 0
    BY <1>1, <1>5, <1>7 DEF SettledOK, Relaxed
<1>12. ASSUME NEW s \in d2.settled
       PROVE  d2.dist[s] # Never /\ \A f \in Frontier(d2) : d2.dist[s] <= d2.dist[f]
  <2>1. s \in d.settled \cup {u}
      BY <1>5 DEF Relaxed
  <2>2. d2.dist[s] = d.dist[s] /\ d.dist[s] \in Int /\ d.dist[s] <= d.dist[u]
      BY <2>1, <1>10
  <2>3. ASSUME NEW f \in Frontier(d2) PROVE d.dist[u] <= d2.dist[f]
    <3>1. f \in Stations /\ f \notin d.settled /\ d2.dist[f] # Never
        BY <1>5 DEF Frontier, Relaxed
    <3>2. CASE d2.dist[f] = d.dist[f]
      <4>1. f \in Frontier(d)
          BY <3>1, <3>2 DEF Frontier
      <4> QED BY <4>1, <3>2, <1>6
    <3>3. CASE d2.dist[f] # d.dist[f]
      <4>1. \E e \in direct : d2.dist[f] = d.dist[u] + e.secs
          BY <3>1, <3>3, <1>5 DEF Relaxed
      <4>2. \A e \in direct : e.secs \in Nat
          BY DEF Edges
      <4> QED BY <4>1, <4>2, <1>6
    <3> QED BY <3>2, <3>3
  <2>4. \A f \in Frontier(d2) : d2.dist[f] \in Int
      BY <1>7 DEF Frontier
  <2> QED BY <2>2, <2>3, <2>4, <1>1, <1>6
<1>13. ASSUME NEW e \in direct, e.from \in d2.settled, d2.dist[e.from] + e.secs <= MaxWalkSeconds
       PROVE  d2.dist[e.to] # Never /\ d2.dist[e.to] <= d2.dist[e.from] + e.secs
  <2>1. e.from \in d.settled \cup {u}
      BY <1>5, <1>13 DEF Relaxed
  <2>2. d2.dist[e.from] = d.dist[e.from] /\ d.dist[e.from] \in Int
      BY <2>1, <1>10
  <2>3. CASE e.from = u
      BY <2>2, <2>3, <1>5, <1>13 DEF Relaxed
  <2>4. CASE e.from \in d.settled
    <3>1. d.dist[e.to] # Never /\ d.dist[e.to] <= d.dist[e.from] + e.secs
        BY <2>2, <2>4, <1>13 DEF SettledOK
    <3>2. e.to \in Stations /\ e.secs \in Nat
        BY DEF Edges
    <3>3. d2.dist[e.to] = d.dist[e.to] \/ (d2.dist[e.to] # Never /\ d2.dist[e.to] < d.dist[e.to])
        BY <3>1, <3>2, <1>5 DEF Relaxed
    <3>4. d.dist[e.to] \in Int /\ (d2.dist[e.to] # Never => d2.dist[e.to] \in Int)
        BY <3>1, <3>2, <1>7
    <3> QED BY <3>1, <3>2, <3>3, <3>4, <2>2
  <2> QED BY <2>1, <2>3, <2>4
<1> QED BY <1>3, <1>5, <1>11, <1>12, <1>13 DEF SettledOK, Relaxed

(* The queue runs dry within as many turns as there are stations, and then *)
(* nothing can be shortened any more.                                      *)
FirstWalks(src) == [settled |-> {}, dist |-> [s \in Stations |-> IF s = src THEN 0 ELSE Never]]

LEMMA WalksSettle ==
    ASSUME NEW direct \in SUBSET Edges, NEW src \in Stations
    PROVE  \E run \in [0..Cardinality(Stations) -> WalkState] :
             /\ WalkTimes(direct, src) = run[Cardinality(Stations)].dist
             /\ run[0] = FirstWalks(src)
             /\ \A n \in 1..Cardinality(Stations) : run[n] = Settle(direct, run[n-1])
             /\ \A n \in 0..Cardinality(Stations) : SettledOK(direct, src, run[n])
             /\ Frontier(run[Cardinality(Stations)]) = {}
<1>1. PICK N \in Nat : N = Cardinality(Stations)
    BY TimetableAssumption, FS_CardinalityType
<1>2. MaxWalkSeconds \in Nat /\ Never \notin Int /\ IsFiniteSet(Stations)
    BY TimetableAssumption
<1>3. ASSUME NEW d \in WalkState PROVE Settle(direct, d) \in WalkState
  <2>1. CASE Frontier(d) = {}
      BY <2>1 DEF Settle
  <2>2. CASE Frontier(d) # {}
      BY <2>2, SettleRelaxes DEF Relaxed
  <2> QED BY <2>1, <2>2
<1>4. FirstWalks(src) \in WalkState
    BY <1>2 DEF FirstWalks, WalkState
<1> DEFINE run == CHOOSE r : r = [n \in 0..N |-> IF n = 0 THEN FirstWalks(src)
                                               ELSE Settle(direct, r[n-1])]
<1>5. WalkTimes(direct, src) = run[N].dist
    BY <1>1 DEF WalkTimes, FirstWalks
<1>6. \E r : r = [n \in 0..N |-> IF n = 0 THEN FirstWalks(src) ELSE Settle(direct, r[n-1])]
  <2>1. PICK F : F = [d \in WalkState |-> Settle(direct, d)]
      OBVIOUS
  <2>2. F \in [WalkState -> WalkState]
      BY <1>3, <2>1
  <2>3. PICK f \in [0..N -> WalkState] : /\ f[0] = FirstWalks(src)
                                         /\ \A n \in 1..N : f[n] = F[f[n-1]]
    <3>1. PICK f : Turns(WalkState, FirstWalks(src), F, N, f)
        BY <1>1, <1>4, <2>2, LoopRuns
    <3> QED BY <3>1 DEF Turns
  <2>4. \A n \in 1..N : f[n] = Settle(direct, f[n-1])
      BY <1>1, <2>1, <2>3
  <2>5. f = [n \in 0..N |-> IF n = 0 THEN FirstWalks(src) ELSE Settle(direct, f[n-1])]
      BY <1>1, <2>3, <2>4
  <2> QED BY <2>5
<1>7. run = [n \in 0..N |-> IF n = 0 THEN FirstWalks(src) ELSE Settle(direct, run[n-1])]
    BY <1>6
<1> HIDE DEF run
<1>8. run[0] = FirstWalks(src) /\ \A n \in 1..N : run[n] = Settle(direct, run[n-1])
  <2>1. \A n \in 0..N : run[n] = IF n = 0 THEN FirstWalks(src) ELSE Settle(direct, run[n-1])
      BY <1>7, Zenon
  <2> QED BY <1>1, <2>1
<1> DEFINE P == {n \in 0..N : /\ SettledOK(direct, src, run[n])
                              /\ Frontier(run[n]) = {} \/ Cardinality(run[n].settled) = n}
<1>9. 0 \in P
  <2>1. SettledOK(direct, src, FirstWalks(src))
      BY <1>4 DEF SettledOK, FirstWalks
  <2>2. Cardinality(FirstWalks(src).settled) = 0
      BY FS_EmptySet DEF FirstWalks
  <2> QED BY <1>1, <1>8, <2>1, <2>2
<1>10. ASSUME NEW n \in 1..N, n-1 \in P PROVE n \in P
  <2>1. PICK d : d = run[n-1]
      OBVIOUS
  <2>2. run[n] = Settle(direct, d)
      BY <1>8, <2>1
  <2>3. SettledOK(direct, src, d) /\ d \in WalkState
      BY <1>10, <2>1 DEF SettledOK
  <2>4. CASE Frontier(d) = {}
      BY <1>1, <2>1, <2>2, <2>3, <2>4 DEF Settle
  <2>5. CASE Frontier(d) # {}
    <3>1. SettledOK(direct, src, run[n])
        BY <2>2, <2>3, <2>5, SettleKeeps
    <3>2. run[n].settled = d.settled \cup {Nearest(d)}
      <4>1. Relaxed(direct, d, Nearest(d), Settle(direct, d))
          BY <2>3, <2>5, SettleRelaxes
      <4> QED BY <2>2, <4>1 DEF Relaxed
    <3>3. Nearest(d) \notin d.settled
        BY <2>3, <2>5, NearestIsNearest DEF Frontier
    <3>4. IsFiniteSet(d.settled)
        BY <1>2, <2>3, FS_Subset DEF WalkState
    <3>5. Cardinality(run[n].settled) = Cardinality(d.settled) + 1
        BY <3>2, <3>3, <3>4, FS_AddElement
    <3>6. Cardinality(d.settled) = n - 1
        BY <1>10, <2>1, <2>5
    <3> QED BY <3>1, <3>5, <3>6
  <2> QED BY <2>4, <2>5
<1>11. \A n \in 0..N : n \in P
  <2> HIDE DEF P
  <2> QED BY <1>1, <1>9, <1>10, Induct
<1>12. \A n \in 0..N : SettledOK(direct, src, run[n])
    BY <1>11
<1>13. run \in [0..N -> WalkState]
  <2>1. \A n \in 0..N : run[n] \in WalkState
      BY <1>12 DEF SettledOK
  <2> QED BY <1>7, <2>1, Zenon
<1>14. Frontier(run[N]) = {}
  <2>1. CASE Cardinality(run[N].settled) = N
    <3>1. run[N].settled \in SUBSET Stations
        BY <1>1, <1>13 DEF WalkState
    <3>2. run[N].settled = Stations
        BY <1>1, <1>2, <2>1, <3>1, FS_Subset
    <3> QED BY <3>2 DEF Frontier
  <2> QED BY <1>1, <1>11, <2>1
<1> QED BY <1>1, <1>5, <1>8, <1>12, <1>13, <1>14

(* One more hop of the reference: a station keeps its walk or takes a      *)
(* shorter one over its last edge.                                         *)
Ways(direct, h, s) ==
    h[s] \cup UNION {{w + e.secs : w \in h[e.from]} : e \in {f \in direct : f.to = s}}

Hop(direct, h) ==
    [s \in Stations |-> IF Ways(direct, h, s) = {} THEN {} ELSE {Min(Ways(direct, h, s))}]

FirstHops(src) == [s \in Stations |-> IF s = src THEN {0} ELSE {}]

HopState == {h \in [Stations -> SUBSET Nat] : \A s \in Stations : \A v, w \in h[s] : v = w}

Hopped(direct, h, g) ==
    /\ g \in HopState
    /\ \A s \in Stations : \A w \in h[s] : \E v \in g[s] : v <= w
    /\ \A e \in direct : \A w \in h[e.from] : \E v \in g[e.to] : v <= w + e.secs
    /\ \A s \in Stations : \A v \in g[s] :
         v \in h[s] \/ \E e \in direct : e.to = s /\ \E w \in h[e.from] : v = w + e.secs

LEMMA HopShortens ==
    ASSUME NEW direct \in SUBSET Edges, NEW h \in HopState
    PROVE  Hopped(direct, h, Hop(direct, h))
<1>1. PICK g : g = Hop(direct, h)
    OBVIOUS
<1>2. h \in [Stations -> SUBSET Nat]
    BY DEF HopState
<1>3. \A e \in direct : e.from \in Stations /\ e.to \in Stations /\ e.secs \in Nat
    BY DEF Edges
<1>4. ASSUME NEW s \in Stations PROVE Ways(direct, h, s) \in SUBSET Nat
    BY <1>2, <1>3 DEF Ways
<1>5. ASSUME NEW s \in Stations
      PROVE  /\ Ways(direct, h, s) = {} => g[s] = {}
             /\ Ways(direct, h, s) # {} =>
                  \E v \in Ways(direct, h, s) : g[s] = {v} /\ \A w \in Ways(direct, h, s) : v <= w
  <2>1. g[s] = IF Ways(direct, h, s) = {} THEN {} ELSE {Min(Ways(direct, h, s))}
      BY <1>1 DEF Hop
  <2> QED BY <2>1, <1>4, MinIsLeast
<1>6. g \in HopState
  <2>1. \A s \in Stations : g[s] \in SUBSET Nat
      BY <1>4, <1>5
  <2>2. \A s \in Stations : \A v, w \in g[s] : v = w
      BY <1>5
  <2>3. g \in [Stations -> SUBSET Nat]
      BY <2>1, <1>1 DEF Hop
  <2> QED BY <2>2, <2>3 DEF HopState
<1>7. ASSUME NEW s \in Stations, NEW w \in h[s] PROVE \E v \in g[s] : v <= w
  <2>1. w \in Ways(direct, h, s)
      BY DEF Ways
  <2> QED BY <2>1, <1>5
<1>8. ASSUME NEW e \in direct, NEW w \in h[e.from] PROVE \E v \in g[e.to] : v <= w + e.secs
  <2>1. w + e.secs \in Ways(direct, h, e.to)
      BY DEF Ways
  <2> QED BY <2>1, <1>3, <1>5
<1>9. ASSUME NEW s \in Stations, NEW v \in g[s]
      PROVE  v \in h[s] \/ \E e \in direct : e.to = s /\ \E w \in h[e.from] : v = w + e.secs
  <2>1. v \in Ways(direct, h, s)
      BY <1>5
  <2> QED BY <2>1 DEF Ways
<1> QED BY <1>1, <1>6, <1>7, <1>8, <1>9 DEF Hopped

LEMMA HopsRun ==
    ASSUME NEW direct \in SUBSET Edges, NEW src \in Stations
    PROVE  \E hops \in [0..Cardinality(Stations) -> HopState] :
             /\ ShortestWalk(direct, src) = [s \in Stations \ {src} |-> hops[Cardinality(Stations)][s]]
             /\ hops[0] = FirstHops(src)
             /\ \A n \in 1..Cardinality(Stations) : Hopped(direct, hops[n-1], hops[n])
<1>1. PICK N \in Nat : N = Cardinality(Stations)
    BY TimetableAssumption, FS_CardinalityType
<1>2. ASSUME NEW h \in HopState PROVE Hop(direct, h) \in HopState
    BY HopShortens DEF Hopped
<1>3. FirstHops(src) \in HopState
    BY DEF FirstHops, HopState
<1> DEFINE hops == CHOOSE r : r = [n \in 0..N |-> IF n = 0 THEN FirstHops(src)
                                                ELSE Hop(direct, r[n-1])]
<1>4. ShortestWalk(direct, src) = [s \in Stations \ {src} |-> hops[N][s]]
    BY <1>1 DEF ShortestWalk, FirstHops, Hop, Ways
<1>5. \E r : r = [n \in 0..N |-> IF n = 0 THEN FirstHops(src) ELSE Hop(direct, r[n-1])]
  <2>1. PICK F : F = [h \in HopState |-> Hop(direct, h)]
      OBVIOUS
  <2>2. F \in [HopState -> HopState]
      BY <1>2, <2>1
  <2>3. PICK f \in [0..N -> HopState] : /\ f[0] = FirstHops(src)
                                        /\ \A n \in 1..N : f[n] = F[f[n-1]]
    <3>1. PICK f : Turns(HopState, FirstHops(src), F, N, f)
        BY <1>1, <1>3, <2>2, LoopRuns
    <3> QED BY <3>1 DEF Turns
  <2>4. \A n \in 1..N : f[n] = Hop(direct, f[n-1])
      BY <1>1, <2>1, <2>3
  <2>5. f = [n \in 0..N |-> IF n = 0 THEN FirstHops(src) ELSE Hop(direct, f[n-1])]
      BY <1>1, <2>3, <2>4
  <2> QED BY <2>5
<1>6. hops = [n \in 0..N |-> IF n = 0 THEN FirstHops(src) ELSE Hop(direct, hops[n-1])]
    BY <1>5
<1> HIDE DEF hops
<1>7. hops[0] = FirstHops(src) /\ \A n \in 1..N : hops[n] = Hop(direct, hops[n-1])
  <2>1. \A n \in 0..N : hops[n] = IF n = 0 THEN FirstHops(src) ELSE Hop(direct, hops[n-1])
      BY <1>6, Zenon
  <2> QED BY <1>1, <2>1
<1> DEFINE P == {n \in 0..N : hops[n] \in HopState}
<1>8. \A n \in 0..N : n \in P
  <2>1. 0 \in P
      BY <1>1, <1>3, <1>7
  <2>2. ASSUME NEW n \in 1..N, n-1 \in P PROVE n \in P
      BY <1>2, <1>7, <2>2
  <2> HIDE DEF P
  <2> QED BY <1>1, <2>1, <2>2, Induct
<1>9. hops \in [0..N -> HopState]
  <2>1. \A n \in 0..N : hops[n] \in HopState
      BY <1>8
  <2> QED BY <1>6, <2>1, Zenon
<1>10. \A n \in 1..N : Hopped(direct, hops[n-1], hops[n])
  <2> TAKE n \in 1..N
  <2>1. n-1 \in 0..N
      BY <1>1
  <2>2. hops[n-1] \in HopState
      BY <1>8, <2>1
  <2> QED BY <1>7, <2>2, HopShortens
<1> QED BY <1>1, <1>4, <1>7, <1>9, <1>10

ShortestTo(s, dist, shortest) ==
    /\ dist[s] # Never => dist[s] \in 0..MaxWalkSeconds /\ shortest[s] = {dist[s]}
    /\ \A d \in shortest[s] : d <= MaxWalkSeconds => dist[s] # Never /\ dist[s] = d

(* The queue finds the walks of the reference: it never goes below them    *)
(* because each of its walks has the hops of the turns made, and never     *)
(* stays above them because nothing is left to shorten.                    *)
LEMMA WalksAreShortest ==
    ASSUME NEW direct \in SUBSET Edges, NEW src \in Stations, NEW s \in Stations \ {src}
    PROVE  ShortestTo(s, WalkTimes(direct, src), ShortestWalk(direct, src))
<1>1. PICK dist : dist = WalkTimes(direct, src)
    OBVIOUS
<1>2. PICK N \in Nat : N = Cardinality(Stations)
    BY TimetableAssumption, FS_CardinalityType
<1>3. MaxWalkSeconds \in Nat /\ Never \notin Int
    BY TimetableAssumption
<1>4. PICK run \in [0..N -> WalkState] :
        /\ dist = run[N].dist
        /\ run[0] = FirstWalks(src)
        /\ \A n \in 1..N : run[n] = Settle(direct, run[n-1])
        /\ \A n \in 0..N : SettledOK(direct, src, run[n])
        /\ Frontier(run[N]) = {}
    BY <1>2, <1>1, WalksSettle
<1>5. PICK hops \in [0..N -> HopState] :
        /\ ShortestWalk(direct, src) = [t \in Stations \ {src} |-> hops[N][t]]
        /\ hops[0] = FirstHops(src)
        /\ \A n \in 1..N : Hopped(direct, hops[n-1], hops[n])
    BY <1>2, HopsRun
<1>6. \A e \in direct : e.from \in Stations /\ e.to \in Stations /\ e.secs \in Nat
    BY DEF Edges
<1>7. \A n \in 0..N : /\ n \in Nat /\ run[n] \in WalkState
                      /\ \A t \in Stations : run[n].dist[t] \in (0..MaxWalkSeconds) \cup {Never}
    BY <1>2, <1>4 DEF WalkState
<1>8. \A n \in 0..N : \A t \in Stations : hops[n][t] \in SUBSET Nat
    BY <1>5 DEF HopState
    (* A walk the queue knows of after n turns has at most n hops. *)
<1> DEFINE Short(n) == \A t \in Stations : run[n].dist[t] # Never =>
                         \E w \in hops[n][t] : w <= run[n].dist[t]
           P == {n \in 0..N : Short(n)}
<1>9. 0 \in P
  <2>1. \A t \in Stations : run[0].dist[t] = IF t = src THEN 0 ELSE Never
      BY <1>4 DEF FirstWalks
  <2>2. 0 \in hops[0][src]
      BY <1>5 DEF FirstHops
  <2>3. Short(0)
      BY <2>1, <2>2
  <2> QED BY <1>2, <2>3
<1>10. ASSUME NEW n \in 1..N, n-1 \in P PROVE n \in P
  <2>1. n-1 \in 0..N /\ n \in 0..N
      BY <1>2
  <2>2. PICK d : d = run[n-1]
      OBVIOUS
  <2>3. PICK d2 : d2 = run[n]
      OBVIOUS
  <2>4. PICK h : h = hops[n-1]
      OBVIOUS
  <2>5. PICK g : g = hops[n]
      OBVIOUS
  <2>6. Hopped(direct, h, g)
      BY <1>5, <2>4, <2>5
  <2>7. /\ d \in WalkState
        /\ \A t \in Stations : /\ d.dist[t] \in (0..MaxWalkSeconds) \cup {Never}
                               /\ d2.dist[t] \in (0..MaxWalkSeconds) \cup {Never}
                               /\ h[t] \in SUBSET Nat /\ g[t] \in SUBSET Nat
      BY <1>7, <1>8, <2>1, <2>2, <2>3, <2>4, <2>5
  <2>8. d2 = Settle(direct, d)
      BY <1>4, <2>2, <2>3
  <2>9. \A t \in Stations : d.dist[t] # Never => \E w \in h[t] : w <= d.dist[t]
      BY <1>10, <2>2, <2>4
  <2>10. ASSUME NEW t \in Stations, d2.dist[t] # Never PROVE \E w \in g[t] : w <= d2.dist[t]
    <3>1. CASE d2.dist[t] = d.dist[t]
      <4>1. PICK w \in h[t] : w <= d.dist[t]
          BY <2>9, <2>10, <3>1
      <4>2. PICK v \in g[t] : v <= w
          BY <2>6, <4>1 DEF Hopped
      <4>3. v \in Nat /\ w \in Nat /\ d.dist[t] \in Int
          BY <1>3, <2>7, <2>10, <3>1, <4>1, <4>2
      <4> QED BY <3>1, <4>1, <4>2, <4>3
    <3>2. CASE d2.dist[t] # d.dist[t]
      <4>1. Frontier(d) # {}
          BY <2>8, <3>2 DEF Settle
      <4>2. PICK u : u = Nearest(d)
          OBVIOUS
      <4>3. Relaxed(direct, d, u, d2)
          BY <2>7, <2>8, <4>1, <4>2, SettleRelaxes
      <4>4. u \in Stations /\ d.dist[u] # Never
          BY <2>7, <4>1, <4>2, NearestIsNearest DEF Frontier
      <4>5. PICK e \in direct : e.from = u /\ e.to = t /\ d2.dist[t] = d.dist[u] + e.secs
          BY <3>2, <4>3 DEF Relaxed
      <4>6. PICK w \in h[u] : w <= d.dist[u]
          BY <2>9, <4>4
      <4>7. PICK v \in g[t] : v <= w + e.secs
          BY <2>6, <4>5, <4>6 DEF Hopped
      <4>8. v \in Nat /\ w \in Nat /\ d.dist[u] \in Int /\ e.secs \in Nat
          BY <1>3, <1>6, <2>7, <4>4, <4>5, <4>6, <4>7
      <4> QED BY <4>5, <4>6, <4>7, <4>8
    <3> QED BY <3>1, <3>2
  <2> QED BY <2>1, <2>3, <2>5, <2>10
<1>11. Short(N)
  <2>1. \A n \in 0..N : n \in P
    <3> HIDE DEF P
    <3> QED BY <1>2, <1>9, <1>10, Induct
  <2> QED BY <1>2, <2>1
    (* Every walk within the cap is known to the queue when it has run dry. *)
<1>12. /\ SettledOK(direct, src, run[N]) /\ Frontier(run[N]) = {}
       /\ \A t \in Stations : dist[t] \in (0..MaxWalkSeconds) \cup {Never}
    BY <1>2, <1>4, <1>7
<1>13. ASSUME NEW e \in direct, dist[e.from] # Never, dist[e.from] + e.secs <= MaxWalkSeconds
       PROVE  dist[e.to] # Never /\ dist[e.to] <= dist[e.from] + e.secs
  <2>1. e.from \in run[N].settled
      BY <1>4, <1>6, <1>12, <1>13 DEF Frontier
  <2> QED BY <2>1, <1>4, <1>12, <1>13 DEF SettledOK
<1> DEFINE Known(n) == \A t \in Stations : \A w \in hops[n][t] :
                         w <= MaxWalkSeconds => dist[t] # Never /\ dist[t] <= w
           Q == {n \in 0..N : Known(n)}
<1>14. 0 \in Q
  <2>1. dist[src] = 0
      BY <1>4, <1>12 DEF SettledOK
  <2> QED BY <1>2, <1>3, <1>5, <2>1 DEF FirstHops
<1>15. ASSUME NEW n \in 1..N, n-1 \in Q PROVE n \in Q
  <2>1. n-1 \in 0..N /\ n \in 0..N
      BY <1>2
  <2>2. PICK h : h = hops[n-1]
      OBVIOUS
  <2>3. PICK g : g = hops[n]
      OBVIOUS
  <2>4. Hopped(direct, h, g)
      BY <1>5, <2>2, <2>3
  <2>5. \A t \in Stations : h[t] \in SUBSET Nat /\ g[t] \in SUBSET Nat
      BY <1>8, <2>1, <2>2, <2>3
  <2>6. \A t \in Stations : \A w \in h[t] :
          w <= MaxWalkSeconds => dist[t] # Never /\ dist[t] <= w
      BY <1>15, <2>2
  <2>7. ASSUME NEW t \in Stations, NEW v \in g[t], v <= MaxWalkSeconds
        PROVE  dist[t] # Never /\ dist[t] <= v
    <3>1. CASE v \in h[t]
        BY <2>6, <2>7, <3>1
    <3>2. CASE v \notin h[t]
      <4>1. PICK e \in direct : e.to = t /\ \E w \in h[e.from] : v = w + e.secs
          BY <2>4, <3>2 DEF Hopped
      <4>2. PICK w \in h[e.from] : v = w + e.secs
          BY <4>1
      <4>3. w \in Nat /\ e.secs \in Nat /\ e.from \in Stations /\ v \in Nat
          BY <1>6, <2>5, <4>1, <4>2
      <4>4. w <= MaxWalkSeconds
          BY <1>3, <2>7, <4>2, <4>3
      <4>5. dist[e.from] # Never /\ dist[e.from] <= w
          BY <2>6, <4>2, <4>3, <4>4
      <4>6. dist[e.from] \in Int /\ (dist[t] # Never => dist[t] \in Int)
          BY <1>3, <1>12, <4>3, <4>5
      <4>7. dist[e.from] + e.secs <= MaxWalkSeconds
          BY <1>3, <2>7, <4>2, <4>3, <4>5, <4>6
      <4>8. dist[t] # Never /\ dist[t] <= dist[e.from] + e.secs
          BY <1>13, <4>1, <4>5, <4>7
      <4> QED BY <4>2, <4>3, <4>5, <4>6, <4>8
    <3> QED BY <3>1, <3>2
  <2> QED BY <2>1, <2>3, <2>7
<1>16. Known(N)
  <2>1. \A n \in 0..N : n \in Q
    <3> HIDE DEF Q
    <3> QED BY <1>2, <1>14, <1>15, Induct
  <2> QED BY <1>2, <2>1
<1>17. ShortestWalk(direct, src)[s] = hops[N][s]
    BY <1>5
<1>18. hops[N][s] \in SUBSET Nat /\ \A v, w \in hops[N][s] : v = w
    BY <1>2, <1>5, <1>8 DEF HopState
<1>19. ASSUME dist[s] # Never
       PROVE  dist[s] \in 0..MaxWalkSeconds /\ hops[N][s] = {dist[s]}
  <2>1. dist[s] \in 0..MaxWalkSeconds
      BY <1>12, <1>19
  <2>2. PICK w \in hops[N][s] : w <= dist[s]
      BY <1>4, <1>11, <1>19
  <2>3. dist[s] <= w
      BY <1>3, <1>16, <1>18, <2>1, <2>2
  <2>4. dist[s] = w
      BY <1>3, <1>18, <2>1, <2>2, <2>3
  <2> QED BY <1>18, <2>1, <2>2, <2>4
<1>20. ASSUME NEW d \in hops[N][s], d <= MaxWalkSeconds
       PROVE  dist[s] # Never /\ dist[s] = d
  <2>1. dist[s] # Never
      BY <1>16, <1>20
  <2> QED BY <1>19, <1>20, <2>1
<1> QED BY <1>17, <1>19, <1>20, <1>1 DEF ShortestTo

(* closeFootpaths keeps shortest walks, and leaves one out only when       *)
(* nearer ones fill the quota.                                             *)
LEMMA WalksAreClosed ==
    ASSUME NEW db, db.footpaths \subseteq [from: Stations, to: Stations, secs: Int]
    PROVE  ClosedWalks(ReloadRouteArrays(db))
<1>1. PICK direct : direct = Direct(db.footpaths)
    OBVIOUS
<1>2. direct \in SUBSET Edges
    BY <1>1 DEF Direct, Edges
<1>3. ReloadRouteArrays(db).direct = direct /\ ReloadRouteArrays(db).walks = CloseFootpaths(direct)
    BY <1>1 DEF ReloadRouteArrays
<1>4. MaxWalkSeconds \in Nat /\ Never \notin Int /\ MaxFootpathsPerStation \in Nat
      /\ Stations \subseteq Int /\ IsFiniteSet(Stations)
    BY TimetableAssumption
<1>5. SUFFICES ASSUME NEW src \in Stations, NEW shortest, shortest = ShortestWalk(direct, src),
                      NEW kept, kept = CloseFootpaths(direct)[src]
      PROVE  /\ \A w \in kept : /\ w.to # src /\ shortest[w.to] = {w.secs}
                                /\ w.secs <= MaxWalkSeconds
             /\ \A s \in Stations \ {src} : \A d \in shortest[s] :
                  d <= MaxWalkSeconds /\ (\A w \in kept : w.to # s) =>
                      Cardinality(kept) = MaxFootpathsPerStation /\ \A w \in kept : w.secs <= d
    BY <1>3 DEF ClosedWalks
<1>6. PICK dist : dist = WalkTimes(direct, src)
    OBVIOUS
<1>7. \A s \in Stations \ {src} :
        /\ dist[s] # Never => dist[s] \in 0..MaxWalkSeconds /\ shortest[s] = {dist[s]}
        /\ \A d \in shortest[s] : d <= MaxWalkSeconds => dist[s] # Never /\ dist[s] = d
  <2>1. \A s \in Stations \ {src} : ShortestTo(s, dist, shortest)
      BY <1>2, <1>5, <1>6, WalksAreShortest
  <2> QED BY <2>1 DEF ShortestTo
<1>8. PICK E : E = {[to |-> s, secs |-> dist[s]] : s \in {t \in Stations \ {src} : dist[t] # Never}}
    OBVIOUS
<1>9. \A e \in E : /\ e.to \in Stations \ {src} /\ e.secs = dist[e.to] /\ dist[e.to] # Never
                   /\ e.to \in Int /\ e.secs \in Int
                   /\ e = [to |-> e.to, secs |-> dist[e.to]]
    BY <1>4, <1>7, <1>8
<1>10. kept = {e \in E : Cardinality({f \in E : NearerWalk(f, e)}) < MaxFootpathsPerStation}
    BY <1>5, <1>6, <1>8 DEF CloseFootpaths
<1>11. ASSUME NEW w \in kept
       PROVE  w.to # src /\ shortest[w.to] = {w.secs} /\ w.secs <= MaxWalkSeconds
    BY <1>4, <1>7, <1>9, <1>10
<1>12. ASSUME NEW s \in Stations \ {src}, NEW d \in shortest[s], d <= MaxWalkSeconds,
              \A w \in kept : w.to # s
       PROVE  Cardinality(kept) = MaxFootpathsPerStation /\ \A w \in kept : w.secs <= d
  <2>1. dist[s] # Never /\ dist[s] = d /\ d \in Int
      BY <1>4, <1>7, <1>12
  <2>2. PICK x : x = [to |-> s, secs |-> dist[s]]
      OBVIOUS
  <2>3. x \in E /\ x.to = s /\ x.secs = d
      BY <1>8, <2>1, <2>2
  <2>4. x \notin kept
      BY <1>12, <2>3
  <2>5. IsFiniteSet(E)
    <3>1. PICK f : f = [e \in E |-> e.to]
        OBVIOUS
    <3>2. f \in [E -> Stations] /\ \A a, b \in E : f[a] = f[b] => a = b
        BY <1>9, <3>1
    <3>3. f \in Injection(E, Stations)
        BY <3>2 DEF Injection, IsInjective
    <3> QED BY <1>4, <3>3, FS_Injection
  <2>6. PICK R : R = {p \in E \X E : NearerWalk(p[1], p[2])}
      OBVIOUS
  <2>7. \A e, f \in E : <<e, f>> \in R <=> NearerWalk(e, f)
      BY <2>6
  <2>8. StrictOrder(E, R)
    <3>1. /\ \A e \in E : ~NearerWalk(e, e)
          /\ \A e, f, g \in E : NearerWalk(e, f) /\ NearerWalk(f, g) => NearerWalk(e, g)
          /\ \A e, f \in E : e # f => NearerWalk(e, f) \/ NearerWalk(f, e)
        BY <1>9 DEF NearerWalk
    <3> QED BY <2>7, <3>1 DEF StrictOrder
  <2>9. kept = FirstOf(E, R, MaxFootpathsPerStation)
    <3>1. \A e \in E : {f \in E : NearerWalk(f, e)} = {f \in E : <<f, e>> \in R}
        BY <2>7
    <3> QED BY <1>10, <3>1 DEF FirstOf, Rank
  <2>10. Cardinality(kept) = MaxFootpathsPerStation
      BY <1>4, <2>3, <2>4, <2>5, <2>8, <2>9, FirstFew
  <2>11. ASSUME NEW w \in kept PROVE w.secs <= d
    <3> SUFFICES ASSUME w.secs > d PROVE FALSE
        BY <1>9, <1>10, <2>1
    <3>1. w \in E /\ <<x, w>> \in R
        BY <1>9, <1>10, <2>1, <2>3, <2>7 DEF NearerWalk
    <3>2. {f \in E : <<f, x>> \in R} \in SUBSET {f \in E : <<f, w>> \in R}
        BY <2>3, <2>8, <3>1 DEF StrictOrder
    <3>3. IsFiniteSet({f \in E : <<f, w>> \in R})
        BY <2>5, FS_Subset
    <3>4. Rank(E, R)[x] <= Rank(E, R)[w]
        BY <2>3, <3>1, <3>2, <3>3, FS_Subset DEF Rank
    <3>5. Rank(E, R)[x] \in Nat /\ Rank(E, R)[w] \in Nat
        BY <2>3, <2>5, <3>1, FS_Subset, FS_CardinalityType DEF Rank
    <3> QED BY <1>4, <2>3, <2>4, <2>9, <3>1, <3>4, <3>5 DEF FirstOf
  <2> QED BY <2>10, <2>11
<1> QED BY <1>11, <1>12

(***************************************************************************)
(* Well-formed timetables                                                  *)
(***************************************************************************)

(* The trips table joined with its stop times: a trip stops somewhere, its *)
(* id and date are the key of the table (003_create_trips.up.sql).         *)
RowsOK(rows) ==
    /\ IsFiniteSet(rows)
    /\ \A r \in rows :
         /\ r.route \in Int /\ r.trip \in Int /\ r.date \in Int
         /\ r.stops \in Seq(Stations) /\ r.stops # <<>>
         /\ r.arr \in [DOMAIN r.stops -> Int] /\ r.dep \in [DOMAIN r.stops -> Int]
    /\ \A r, o \in rows : r.trip = o.trip /\ r.date = o.date => r = o

(* The query returns a first trip of every route. *)
LEMMA CanonicalIsARow ==
    ASSUME NEW rs, RowsOK(rs), rs # {}
    PROVE  Canonical(rs) \in rs
<1>1. PICK R : R = {p \in rs \X rs : \/ p[1].trip < p[2].trip
                                     \/ p[1].trip = p[2].trip /\ p[1].date < p[2].date}
    OBVIOUS
<1>2. \A a, b \in rs : <<a, b>> \in R <=> \/ a.trip < b.trip
                                          \/ a.trip = b.trip /\ a.date < b.date
    BY <1>1
<1>3. IsFiniteSet(rs) /\ \A r \in rs : r.trip \in Int /\ r.date \in Int
    BY DEF RowsOK
<1>4. StrictOrder(rs, R)
  <2> DEFINE Before(a, b) == a.trip < b.trip \/ (a.trip = b.trip /\ a.date < b.date)
  <2>1. \A a, b \in rs : a.trip = b.trip /\ a.date = b.date => a = b
      BY DEF RowsOK
  <2>2. /\ \A a \in rs : ~Before(a, a)
        /\ \A a, b, c \in rs : Before(a, b) /\ Before(b, c) => Before(a, c)
        /\ \A a, b \in rs : a # b => Before(a, b) \/ Before(b, a)
      BY <1>3, <2>1
  <2>3. \A a, b \in rs : <<a, b>> \in R <=> Before(a, b)
      BY <1>2
  <2> HIDE DEF Before
  <2> QED BY <2>2, <2>3 DEF StrictOrder
<1>5. PICK n \in Nat : n = Cardinality(rs)
    BY <1>3, FS_CardinalityType
<1>6. Rank(rs, R) \in Surjection(rs, 0..n-1) /\ n >= 1
    BY <1>3, <1>4, <1>5, RanksCount, OrderExists
<1>7. PICK first \in rs : Rank(rs, R)[first] = 0
    BY <1>5, <1>6 DEF Surjection
<1>8. \A o \in rs : <<o, first>> \notin R
    BY <1>3, <1>4, <1>5, <1>7, RanksCount DEF Surjection
<1>9. \A o \in rs : first.trip < o.trip \/ (first.trip = o.trip /\ first.date <= o.date)
  <2> TAKE o \in rs
  <2>1. ~(o.trip < first.trip) /\ ~(o.trip = first.trip /\ o.date < first.date)
      BY <1>2, <1>7, <1>8
  <2>2. o.trip \in Int /\ o.date \in Int /\ first.trip \in Int /\ first.date \in Int
      BY <1>3, <1>7
  <2> QED BY <2>1, <2>2
<1> QED BY <1>7, <1>9 DEF Canonical

(* A route is loaded into positional arrays over its stops.                *)
LEMMA RouteIsWellFormed ==
    ASSUME NEW rs, RowsOK(rs), rs # {}
    PROVE  WellFormedRoute(LoadRoute(rs))
<1>1. PICK first : first = Canonical(rs)
    OBVIOUS
<1>2. PICK S : S = {r \in rs : r.stops = first.stops}
    OBVIOUS
<1>3. PICK R : R = {p \in rs \X rs : DepartsBefore(p[1], p[2])}
    OBVIOUS
<1>4. PICK kept : kept = InOrder(S, R)
    OBVIOUS
<1>5. first \in rs /\ first \in S
    BY <1>1, <1>2, CanonicalIsARow
<1>6. first.stops \in Seq(Stations) /\ first.stops # <<>>
    BY <1>5 DEF RowsOK
<1>7. IsFiniteSet(S) /\ S \in SUBSET rs
    BY <1>2, FS_Subset DEF RowsOK
<1>8. \A r \in S : /\ r.trip \in Int /\ r.date \in Int /\ r.stops = first.stops
                   /\ r.arr \in [DOMAIN first.stops -> Int]
                   /\ r.dep \in [DOMAIN first.stops -> Int]
    BY <1>2 DEF RowsOK
<1>9. 1 \in DOMAIN first.stops
    BY <1>6
<1>10. StrictOrder(S, R)
  <2>1. \A a, b \in S : <<a, b>> \in R <=> DepartsBefore(a, b)
      BY <1>3, <1>7
  <2>2. \A r \in S : r.dep[1] \in Int
      BY <1>8, <1>9
  <2>3. \A a, b \in S : a.trip = b.trip /\ a.date = b.date => a = b
      BY <1>7 DEF RowsOK
  <2>4. /\ \A a \in S : ~DepartsBefore(a, a)
        /\ \A a, b, c \in S : DepartsBefore(a, b) /\ DepartsBefore(b, c) => DepartsBefore(a, c)
        /\ \A a, b \in S : a # b => DepartsBefore(a, b) \/ DepartsBefore(b, a)
      BY <1>8, <2>2, <2>3 DEF DepartsBefore
  <2> QED BY <2>1, <2>4 DEF StrictOrder
<1>11. PICK n \in Nat : n = Cardinality(S)
    BY <1>7, FS_CardinalityType
<1>12. kept \in [1..n -> S] /\ n >= 1
    BY <1>4, <1>5, <1>7, <1>10, <1>11, OrderExists
<1>13. PICK trips : trips = [i \in DOMAIN kept |-> [key |-> <<kept[i].trip, kept[i].date>>,
                                                    arr |-> kept[i].arr, dep |-> kept[i].dep]]
    OBVIOUS
<1>14. LoadRoute(rs) = [stops |-> first.stops, trips |-> trips, fifo |-> ComputeFIFO(trips)]
    BY <1>1, <1>2, <1>3, <1>4, <1>13 DEF LoadRoute
<1>15. PICK D : D = DOMAIN first.stops
    OBVIOUS
<1>16. PICK T : T = [key: Int \X Int, arr: [D -> Int], dep: [D -> Int]]
    OBVIOUS
<1>17. trips \in Seq(T) /\ trips # <<>>
  <2>1. \A i \in 1..n : kept[i] \in S
      BY <1>12
  <2>2. \A i \in 1..n : trips[i] \in T
      BY <1>8, <1>12, <1>13, <1>15, <1>16, <2>1
  <2>3. DOMAIN trips = 1..n /\ trips = [i \in 1..n |-> trips[i]]
      BY <1>12, <1>13
  <2>4. trips \in [1..n -> T]
      BY <2>2, <2>3
  <2> QED BY <1>12, <2>3, <2>4
<1>18. ComputeFIFO(trips) \in BOOLEAN
    BY DEF ComputeFIFO
<1> QED BY <1>6, <1>14, <1>15, <1>16, <1>17, <1>18 DEF WellFormedRoute

(* loader.go: the arrays of every route fit its stops, whatever rows with  *)
(* whatever stop patterns Postgres holds, and every walk takes a time to a *)
(* station: the search may index them without asking.                      *)
THEOREM ReloadsAreWellFormed ==
    ASSUME NEW db, RowsOK(db.rows),
           db.footpaths \subseteq [from: Stations, to: Stations, secs: Int]
    PROVE  WellFormed(ReloadRouteArrays(db))
<1>1. PICK rows : rows = db.rows
    OBVIOUS
<1>2. PICK ids : ids = {r.route : r \in rows}
    OBVIOUS
<1>3. PICK R : R = {p \in ids \X ids : p[1] < p[2]}
    OBVIOUS
<1>4. PICK order : order = InOrder(ids, R)
    OBVIOUS
<1>5. RowsOK(rows)
    BY <1>1
<1>6. IsFiniteSet(ids) /\ \A x \in ids : x \in Int
  <2>1. PICK f : f = [r \in rows |-> r.route]
      OBVIOUS
  <2>2. f \in Surjection(rows, ids)
      BY <1>2, <2>1 DEF Surjection
  <2> QED BY <1>2, <1>5, <2>2, FS_Surjection DEF RowsOK
<1>7. StrictOrder(ids, R)
  <2>1. \A x, y \in ids : <<x, y>> \in R <=> x < y
      BY <1>3
  <2> QED BY <1>6, <2>1 DEF StrictOrder
<1>8. PICK n \in Nat : n = Cardinality(ids)
    BY <1>6, FS_CardinalityType
<1>9. order \in [1..n -> ids]
    BY <1>4, <1>6, <1>7, <1>8, OrderExists
<1>10. PICK net : net = ReloadRouteArrays(db)
    OBVIOUS
<1>11. net.routes = [i \in DOMAIN order |-> LoadRoute(RowsOf(rows, order[i]))]
    BY <1>1, <1>2, <1>3, <1>4, <1>10 DEF ReloadRouteArrays, LoadRoutes
<1>12. DOMAIN net.routes = 1..Len(net.routes) /\ Len(net.routes) \in Nat
    BY <1>9, <1>11
<1>13. ASSUME NEW i \in DOMAIN net.routes PROVE WellFormedRoute(net.routes[i])
  <2>1. order[i] \in ids /\ net.routes[i] = LoadRoute(RowsOf(rows, order[i]))
      BY <1>9, <1>11
  <2>2. PICK rs : rs = RowsOf(rows, order[i])
      OBVIOUS
  <2>3. rs # {} /\ rs \in SUBSET rows
      BY <1>2, <2>1, <2>2 DEF RowsOf
  <2>4. RowsOK(rs)
      BY <1>5, <2>3, FS_Subset DEF RowsOK
  <2> QED BY <2>1, <2>2, <2>3, <2>4, RouteIsWellFormed
<1>14. PICK direct : direct = Direct(db.footpaths)
    OBVIOUS
<1>15. net.walks = CloseFootpaths(direct) /\ DOMAIN net.walks = Stations
    BY <1>10, <1>14 DEF ReloadRouteArrays, CloseFootpaths
<1>16. ASSUME NEW s \in Stations, NEW w \in net.walks[s] PROVE w.to \in Stations /\ w.secs \in Nat
  <2>1. PICK dist : dist = WalkTimes(direct, s)
      OBVIOUS
  <2>2. w.to \in Stations /\ w.secs = dist[w.to] /\ dist[w.to] # Never
      BY <1>15, <1>16, <2>1 DEF CloseFootpaths
  <2>3. direct \in SUBSET Edges
      BY <1>14 DEF Direct, Edges
  <2>4. dist \in [Stations -> (0..MaxWalkSeconds) \cup {Never}]
    <3>1. PICK run \in [0..Cardinality(Stations) -> WalkState] :
                 dist = run[Cardinality(Stations)].dist
        BY <2>1, <2>3, WalksSettle
    <3>2. Cardinality(Stations) \in 0..Cardinality(Stations)
        BY TimetableAssumption, FS_CardinalityType
    <3> QED BY <3>1, <3>2 DEF WalkState
  <2>5. MaxWalkSeconds \in Nat
      BY TimetableAssumption
  <2>6. dist[w.to] \in 0..MaxWalkSeconds
      BY <2>2, <2>4
  <2> QED BY <2>2, <2>5, <2>6
<1> QED BY <1>10, <1>12, <1>13, <1>15, <1>16 DEF WellFormed
================================================================================
