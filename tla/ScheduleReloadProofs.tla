------------------------- MODULE ScheduleReloadProofs -------------------------
(***************************************************************************)
(* No timetable change is missed by the watcher, for any number of         *)
(* ingesting processes, crashes, lost notifications and failed queries, as *)
(* long as writers do not overlap.                                         *)
(***************************************************************************)
EXTENDS ScheduleReload, TLAPS

(* The types the argument needs. *)
ContentOK ==
    /\ trips \in Nat /\ walks \in 0..OtherWalks /\ newest \in Nat
    /\ updatedAt \in Nat /\ clock \in Nat /\ lastTS \in Nat
    /\ begun \in [Ingesters -> Nat]
    /\ staging \in Contents
    /\ pc \in {"trips", "walks", "publish", "select"}

(* Only the reload at boot runs without a published manifest. *)
ManifestIsLive == manifest = live \/ (manifest = NoManifest /\ pc # "select" /\ booting)

(* The one open transaction will raise the watermark when it commits. *)
WatermarkGrows ==
    /\ lastTS <= updatedAt /\ updatedAt <= clock
    /\ \A i \in Open : updatedAt < begun[i] /\ begun[i] <= clock
    /\ \A i, j \in Open : i = j
    /\ seed \in {"truncated", "trips", "walks"} => Open = {}

(* StaleIsPending, without relying on what happens to be published while   *)
(* a reload is under way.                                                  *)
Current ==
    \/ Seeding
    \/ missed
    \/ Changed
    \/ IF pc = "select" THEN live = Stored ELSE ReloadIsCurrent

ReloadInv == ContentOK /\ ManifestIsLive /\ WatermarkGrows /\ Current

LEMMA ReloadInvImplies == ReloadInv => StaleIsPending
BY DEF ReloadInv, Current, StaleIsPending

LEMMA ReloadInvInit == Init => ReloadInv
<1> SUFFICES ASSUME Init PROVE ReloadInv
  OBVIOUS
<1>1. ContentOK
  BY DEF Init, ContentOK, Contents, Nothing, SeedWalks, OtherWalks, NotOpen
<1>2. ManifestIsLive
  BY DEF Init, ManifestIsLive
<1>3. WatermarkGrows
  BY DEF Init, WatermarkGrows, Open, NotOpen
<1>4. Current
  BY DEF Init, Current, ReloadIsCurrent
<1> QED BY <1>1, <1>2, <1>3, <1>4 DEF ReloadInv

(* What the writers leave to be shown once the contents have changed: the  *)
(* loader's variables are as they were.                                    *)
LEMMA WritersStep ==
  ASSUME ~Overlap, ReloadInv,
         \/ \E i \in Ingesters : BeginIngest(i) \/ CommitIngest(i) \/ RollbackIngest(i)
         \/ SeedTruncate \/ Seeder \/ SeedFails
  PROVE  ReloadInv'
<1> USE DEF ReloadInv
<1>1. UNCHANGED loadVars
  BY DEF BeginIngest, CommitIngest, RollbackIngest, SeedTruncate, Seeder, SeedTrips,
         SeedFootpaths, SeedBump, SeedFails
<1>2. ManifestIsLive'
  BY <1>1 DEF ManifestIsLive, loadVars
<1>3. ASSUME NEW i \in Ingesters, BeginIngest(i) PROVE ReloadInv'
  <2>1. /\ Open = {} /\ seed \in {"none", "failed"}
        /\ clock' = clock + 1 /\ begun' = [begun EXCEPT ![i] = clock + 1]
        /\ UNCHANGED <<trips, walks, updatedAt, newest, seed>>
    BY <1>3 DEF BeginIngest, MayWrite
  <2>2. ContentOK'
    BY <1>1, <2>1 DEF ContentOK, loadVars
  <2>3. Open' = {i}
    BY <2>1 DEF Open, NotOpen, ContentOK
  <2>4. WatermarkGrows'
    BY <1>1, <2>1, <2>3 DEF WatermarkGrows, loadVars, ContentOK
  <2>5. Current'
    BY <1>1, <2>1 DEF Current, Seeding, Changed, ReloadIsCurrent, Stored, loadVars
  <2> QED BY <1>2, <2>2, <2>4, <2>5
<1>4. ASSUME NEW i \in Ingesters, CommitIngest(i) PROVE ReloadInv'
  <2>1. /\ i \in Open /\ updatedAt' = begun[i] /\ begun' = [begun EXCEPT ![i] = NotOpen]
        /\ UNCHANGED <<walks, clock, seed>>
        /\ \/ trips' = newest + 1 /\ newest' = newest + 1
           \/ UNCHANGED <<trips, newest>>
    BY <1>4 DEF CommitIngest
  <2>2. ContentOK'
    BY <1>1, <2>1 DEF ContentOK, loadVars, NotOpen
  <2>3. Open' = {}
    BY <2>1 DEF Open, NotOpen, ContentOK, WatermarkGrows
  <2>4. lastTS' < updatedAt' /\ updatedAt' <= clock'
    BY <1>1, <2>1 DEF WatermarkGrows, loadVars, ContentOK
  <2>5. WatermarkGrows'
    BY <2>2, <2>3, <2>4 DEF WatermarkGrows, ContentOK
  <2>6. Current'
    BY <2>4 DEF Current, Changed
  <2> QED BY <1>2, <2>2, <2>5, <2>6
<1>5. ASSUME NEW i \in Ingesters, RollbackIngest(i) PROVE ReloadInv'
  <2>1. /\ begun' = [begun EXCEPT ![i] = NotOpen]
        /\ UNCHANGED <<trips, walks, updatedAt, clock, newest, seed>>
    BY <1>5 DEF RollbackIngest
  <2>2. ContentOK'
    BY <1>1, <2>1 DEF ContentOK, loadVars, NotOpen
  <2>3. Open' \subseteq Open /\ \A j \in Open' : begun'[j] = begun[j]
    BY <2>1 DEF Open, NotOpen, ContentOK
  <2>4. WatermarkGrows'
    BY <1>1, <2>1, <2>3 DEF WatermarkGrows, loadVars
  <2>5. Current'
    BY <1>1, <2>1 DEF Current, Seeding, Changed, ReloadIsCurrent, Stored, loadVars
  <2> QED BY <1>2, <2>2, <2>4, <2>5
<1>6. CASE SeedTruncate \/ SeedTrips \/ SeedFootpaths \/ SeedFails
  <2>1. /\ UNCHANGED <<updatedAt, clock, begun>>
        /\ seed' # "none" /\ Open = {}
    BY <1>6 DEF SeedTruncate, SeedTrips, SeedFootpaths, SeedFails, MayWrite, WatermarkGrows
  <2>2. ContentOK'
    BY <1>1, <1>6, <2>1 DEF ContentOK, loadVars, SeedTruncate, SeedTrips, SeedFootpaths,
                            SeedFails, SeedWalks, OtherWalks
  <2>3. Open' = {}
    BY <2>1 DEF Open
  <2>4. WatermarkGrows'
    BY <1>1, <2>1, <2>3 DEF WatermarkGrows, loadVars
  <2>5. Current'
    BY <2>1 DEF Current, Seeding
  <2> QED BY <1>2, <2>2, <2>4, <2>5
<1>7. CASE SeedBump
  <2>1. /\ clock' = clock + 1 /\ updatedAt' = clock + 1 /\ Open = {}
        /\ UNCHANGED <<trips, walks, begun, newest>>
    BY <1>7 DEF SeedBump, WatermarkGrows
  <2>2. ContentOK'
    BY <1>1, <2>1 DEF ContentOK, loadVars
  <2>3. Open' = {}
    BY <2>1 DEF Open
  <2>4. lastTS' < updatedAt' /\ updatedAt' <= clock'
    BY <1>1, <2>1 DEF WatermarkGrows, loadVars, ContentOK
  <2>5. WatermarkGrows'
    BY <2>2, <2>3, <2>4 DEF WatermarkGrows, ContentOK
  <2>6. Current'
    BY <2>4 DEF Current, Changed
  <2> QED BY <1>2, <2>2, <2>5, <2>6
<1> QED BY <1>3, <1>4, <1>5, <1>6, <1>7 DEF Seeder

(* A reload reads what is current, or something newer calls for another. *)
LEMMA LoaderStep ==
  ASSUME ReloadInv, Loader
  PROVE  ReloadInv'
<1> USE DEF ReloadInv
<1>1. UNCHANGED dbVars /\ lastTS' = lastTS
  BY DEF Loader, LoadTrips, LoadFootpaths, Publish
<1>2. WatermarkGrows'
  BY <1>1 DEF WatermarkGrows, Open, dbVars
<1>3. /\ UNCHANGED <<trips, walks, updatedAt, clock, newest, begun, seed>>
      /\ Seeding' = Seeding /\ Changed' = Changed /\ Stored' = Stored
  BY <1>1 DEF dbVars, Seeding, Changed, Stored
<1>4. CASE LoadTrips
  <2>1. /\ staging' = [Nothing EXCEPT !.trips = trips] /\ pc' = "walks"
        /\ UNCHANGED <<live, manifest, booting>>
    BY <1>4 DEF LoadTrips
  <2>2. staging' = [trips |-> trips, walks |-> 0]
    BY <2>1 DEF Nothing
  <2>3. ContentOK'
    <3>1. staging' \in Contents
      BY <2>2 DEF ContentOK, Contents, OtherWalks
    <3> QED BY <1>1, <1>3, <2>1, <3>1 DEF ContentOK
  <2>4. ManifestIsLive'
    BY <1>4, <2>1 DEF ManifestIsLive
  <2>5. Current'
    BY <1>3, <2>1, <2>2 DEF Current, ReloadIsCurrent
  <2> QED BY <1>2, <2>3, <2>4, <2>5
<1>5. CASE LoadFootpaths
  <2>1. /\ staging' = [staging EXCEPT !.walks = walks] /\ pc = "walks" /\ pc' = "publish"
        /\ UNCHANGED <<live, manifest, missed, booting>>
    BY <1>5 DEF LoadFootpaths
  <2>2. staging' = [trips |-> staging.trips, walks |-> walks]
    BY <2>1 DEF ContentOK, Contents
  <2>3. ContentOK'
    <3>1. staging.trips \in Nat /\ walks \in 0..OtherWalks
      BY DEF ContentOK, Contents
    <3>2. staging' \in Contents
      BY <2>2, <3>1 DEF Contents
    <3> QED BY <1>1, <1>3, <2>1, <3>2 DEF ContentOK
  <2>4. ManifestIsLive'
    BY <2>1 DEF ManifestIsLive
  <2>5. Current'
    BY <1>3, <2>1, <2>2 DEF Current, ReloadIsCurrent, Stored
  <2> QED BY <1>2, <2>3, <2>4, <2>5
<1>6. CASE Publish
  <2>1. /\ pc = "publish" /\ pc' = "select" /\ staging' = Nothing /\ missed' = missed
        /\ IF ManifestChanged THEN live' = staging /\ manifest' = staging
                              ELSE UNCHANGED <<live, manifest>>
    BY <1>6 DEF Publish
  <2>2. ContentOK'
    BY <1>1, <1>3, <2>1 DEF ContentOK, Contents, Nothing, OtherWalks
  <2>3. staging # NoManifest
    <3>1. staging.trips \in Nat
      BY DEF ContentOK, Contents
    <3>2. NoManifest.trips = -1
      BY DEF NoManifest
    <3> QED BY <3>1, <3>2
  <2>4. live' = staging /\ manifest' = staging
    BY <2>1, <2>3 DEF ManifestChanged, ManifestIsLive
  <2>5. ManifestIsLive'
    BY <2>4 DEF ManifestIsLive
  <2>6. Current'
    BY <1>3, <2>1, <2>4 DEF Current, ReloadIsCurrent
  <2> QED BY <1>2, <2>2, <2>5, <2>6
<1> QED BY <1>4, <1>5, <1>6 DEF Loader

(* The watcher only skips a reload when the watermark it keeps is current. *)
LEMMA WatcherStep ==
  ASSUME ReloadInv, OnTick \/ OnNotify \/ OnNotifyFails
  PROVE  ReloadInv'
<1> USE DEF ReloadInv
<1>1. UNCHANGED <<dbVars, staging, live, manifest, missed>> /\ pc = "select"
  BY DEF OnTick, OnNotify, OnNotifyFails, CheckWatermark, loadVars
<1>2. \/ pc' = "trips" /\ lastTS' = updatedAt
      \/ UNCHANGED <<pc, lastTS>>
  BY DEF OnTick, OnNotify, OnNotifyFails, CheckWatermark, WatermarkKept, loadVars
<1>3. ContentOK'
  BY <1>1, <1>2 DEF ContentOK, dbVars
<1>4. ManifestIsLive'
  BY <1>1 DEF ManifestIsLive
<1>5. WatermarkGrows'
  BY <1>1, <1>2 DEF WatermarkGrows, Open, dbVars, ContentOK
<1>6. Current'
  BY <1>1, <1>2 DEF Current, Seeding, Changed, ReloadIsCurrent, Stored, dbVars
<1> QED BY <1>3, <1>4, <1>5, <1>6

(* A crash forgets the watermark and begins with a reload. *)
LEMMA RestartStep ==
  ASSUME ReloadInv, Restart
  PROVE  ReloadInv'
<1> USE DEF ReloadInv
<1>1. /\ UNCHANGED dbVars
      /\ pc' = "trips" /\ lastTS' = 0 /\ staging' = Nothing
      /\ manifest' = NoManifest /\ booting' = TRUE
  BY DEF Restart, BootState
<1>2. ContentOK'
  BY <1>1 DEF ContentOK, dbVars, Contents, Nothing, OtherWalks
<1>3. ManifestIsLive'
  BY <1>1 DEF ManifestIsLive
<1>4. WatermarkGrows'
  BY <1>1 DEF WatermarkGrows, Open, dbVars, ContentOK
<1>5. Current'
  BY <1>1 DEF Current, ReloadIsCurrent
<1> QED BY <1>2, <1>3, <1>4, <1>5

(* A query fails: the watcher gives up, or goes on without the footpaths;  *)
(* at boot it is a crash.                                                  *)
LEMMA QueryFails ==
  ASSUME ReloadInv, LoadTripsFails \/ LoadFootpathsFails
  PROVE  ReloadInv'
<1> USE DEF ReloadInv
<1>1. UNCHANGED dbVars
  BY DEF LoadTripsFails, LoadFootpathsFails
<1>2. \/ /\ \/ pc' = "select" /\ ~booting
            \/ pc' = "publish" /\ booting' = booting
         /\ missed' = TRUE
         /\ UNCHANGED <<lastTS, staging, live, manifest>>
      \/ /\ pc' = "trips" /\ lastTS' = 0 /\ staging' = Nothing
         /\ manifest' = NoManifest /\ booting' = TRUE
  BY DEF LoadTripsFails, LoadFootpathsFails, BootState
<1>3. ContentOK'
  BY <1>1, <1>2 DEF ContentOK, dbVars, Contents, Nothing, OtherWalks
<1>4. ManifestIsLive'
  BY <1>2 DEF ManifestIsLive
<1>5. WatermarkGrows'
  BY <1>1, <1>2 DEF WatermarkGrows, Open, dbVars, ContentOK
<1>6. Current'
  BY <1>2 DEF Current, ReloadIsCurrent
<1> QED BY <1>3, <1>4, <1>5, <1>6

LEMMA QuietStep ==
  ASSUME ReloadInv, UNCHANGED <<dbVars, loadVars>>
  PROVE  ReloadInv'
BY DEF ReloadInv, ContentOK, ManifestIsLive, WatermarkGrows, Current, Open, Seeding, Changed,
       ReloadIsCurrent, Stored, dbVars, loadVars

LEMMA ReloadInvStep ==
  ASSUME ~Overlap, ReloadInv, [Next]_vars
  PROVE  ReloadInv'
<1>1. CASE \/ \E i \in Ingesters : BeginIngest(i) \/ CommitIngest(i) \/ RollbackIngest(i)
           \/ SeedTruncate \/ Seeder \/ SeedFails
  BY <1>1, WritersStep
<1>2. CASE Loader
  BY <1>2, LoaderStep
<1>3. CASE OnTick \/ OnNotify \/ OnNotifyFails
  BY <1>3, WatcherStep
<1>4. CASE Restart
  BY <1>4, RestartStep
<1>5. CASE Listen \/ Notify \/ ListenBreaks \/ UNCHANGED vars
  <2>1. UNCHANGED <<dbVars, loadVars>>
    BY <1>5 DEF Listen, Notify, ListenBreaks, vars
  <2> QED BY <2>1, QuietStep
<1>6. CASE LoadTripsFails \/ LoadFootpathsFails
  BY <1>6, QueryFails
<1> QED BY <1>1, <1>2, <1>3, <1>4, <1>5, <1>6 DEF Next

(* watcher.go:20-24: whatever the order of commits, polls, notifications   *)
(* and crashes, a buffer behind Postgres has a reload running or a         *)
(* watermark that will start one, unless a query of the last one failed.   *)
THEOREM NoChangeMissed ==
  ASSUME ~Overlap
  PROVE  Spec => []StaleIsPending
<1>1. ReloadInv /\ [Next]_vars => ReloadInv'
  BY ReloadInvStep
<1> QED BY ReloadInvInit, <1>1, ReloadInvImplies, PTL DEF Spec

(***************************************************************************)
(* Types, also where writers overlap                                       *)
(***************************************************************************)

LoadTypeOK ==
    /\ ContentOK
    /\ live \in Contents /\ manifest \in Contents \cup {NoManifest}
    /\ seed \in {"none", "truncated", "trips", "walks", "failed"}

BoundsOK == notified \in 0..1 /\ faults \in 0..MaxFaults /\ restarts \in 0..MaxRestarts

FlagsOK == booting \in BOOLEAN /\ missed \in BOOLEAN /\ listening \in BOOLEAN

TypeInv == LoadTypeOK /\ BoundsOK /\ FlagsOK

LEMMA NothingIsContent ==
    /\ Nothing \in Contents
    /\ \A n \in Nat : [Nothing EXCEPT !.trips = n] \in Contents
    /\ \A c \in Contents : \A n \in 0..OtherWalks : [c EXCEPT !.walks = n] \in Contents
BY DEF Nothing, Contents, OtherWalks

LEMMA TypeInvInit == Init => TypeInv
<1> SUFFICES ASSUME Init PROVE TypeInv
  OBVIOUS
<1>1. LoadTypeOK
  BY NothingIsContent DEF Init, LoadTypeOK, ContentOK, SeedWalks, OtherWalks, NotOpen
<1>2. BoundsOK
  BY ReloadAssumption DEF Init, BoundsOK
<1>3. FlagsOK
  BY DEF Init, FlagsOK
<1> QED BY <1>1, <1>2, <1>3 DEF TypeInv

LEMMA LoadTypeStep == ASSUME LoadTypeOK, [Next]_vars PROVE LoadTypeOK'
<1> USE DEF LoadTypeOK, ContentOK
<1>1. ASSUME NEW i \in Ingesters, BeginIngest(i) \/ CommitIngest(i) \/ RollbackIngest(i)
      PROVE  LoadTypeOK'
  BY <1>1 DEF BeginIngest, CommitIngest, RollbackIngest, NotOpen, loadVars
<1>2. CASE SeedTruncate \/ Seeder \/ SeedFails
  BY <1>2 DEF SeedTruncate, Seeder, SeedTrips, SeedFootpaths, SeedBump, SeedFails,
     SeedWalks, OtherWalks, loadVars
<1>3. CASE LoadTrips
  BY <1>3, NothingIsContent DEF LoadTrips, dbVars
<1>4. CASE LoadFootpaths \/ LoadFootpathsFails
  BY <1>4, NothingIsContent DEF LoadFootpaths, LoadFootpathsFails, dbVars
<1>5. CASE Publish
  BY <1>5, NothingIsContent DEF Publish, dbVars
<1>6. CASE LoadTripsFails \/ Restart
  BY <1>6, NothingIsContent DEF LoadTripsFails, Restart, BootState, dbVars
<1>7. CASE OnTick \/ OnNotify \/ OnNotifyFails
  BY <1>7 DEF OnTick, OnNotify, OnNotifyFails, CheckWatermark, WatermarkKept, dbVars, loadVars
<1>8. CASE Listen \/ Notify \/ ListenBreaks \/ UNCHANGED vars
  BY <1>8 DEF Listen, Notify, ListenBreaks, vars, dbVars, loadVars
<1> QED BY <1>1, <1>2, <1>3, <1>4, <1>5, <1>6, <1>7, <1>8 DEF Next, Loader

LEMMA BoundsStep == ASSUME BoundsOK, [Next]_vars PROVE BoundsOK'
<1> USE DEF BoundsOK
<1>1. CASE LoadTripsFails \/ LoadFootpathsFails \/ SeedFails \/ OnNotifyFails \/ ListenBreaks
  BY <1>1, ReloadAssumption DEF LoadTripsFails, LoadFootpathsFails, SeedFails, OnNotifyFails,
     ListenBreaks, Fault, BootState, listenVars
<1>2. CASE Restart
  BY <1>2, ReloadAssumption DEF Restart, BootState
<1>3. CASE OnNotify \/ Notify \/ Listen
  BY <1>3 DEF OnNotify, Notify, AfterNotify, Listen, boundVars
<1>4. CASE UNCHANGED <<listenVars, boundVars>>
  BY <1>4 DEF listenVars, boundVars
<1> QED BY <1>1, <1>2, <1>3, <1>4 DEF Next, BeginIngest, CommitIngest, RollbackIngest,
     SeedTruncate, Seeder, SeedTrips, SeedFootpaths, SeedBump, Loader, LoadTrips, LoadFootpaths,
     Publish, OnTick, vars

LEMMA FlagsStep == ASSUME FlagsOK, [Next]_vars PROVE FlagsOK'
<1> USE DEF Next, BeginIngest, CommitIngest, RollbackIngest, SeedTruncate, Seeder, SeedTrips,
        SeedFootpaths, SeedBump, SeedFails, Loader, LoadTrips, LoadFootpaths, Publish,
        LoadTripsFails, LoadFootpathsFails, OnTick, OnNotify, OnNotifyFails, CheckWatermark,
        Listen, Notify, ListenBreaks, Restart, BootState, loadVars, listenVars, vars
<1>1. booting' \in {booting, TRUE, FALSE}
  OBVIOUS
<1>2. missed' \in {missed, TRUE, FALSE}
  OBVIOUS
<1>3. listening' \in {listening, TRUE, FALSE}
  OBVIOUS
<1> QED BY <1>1, <1>2, <1>3 DEF FlagsOK

(* Every reachable state of the reload has its type; in particular notifyCh*)
(* (watcher.go) never holds more than the one token it has room for.       *)
THEOREM TypeCorrect == Spec => []TypeOK
<1>1. TypeInv /\ [Next]_vars => TypeInv'
  BY LoadTypeStep, BoundsStep, FlagsStep DEF TypeInv
<1>2. TypeInv => TypeOK
  BY DEF TypeInv, LoadTypeOK, ContentOK, BoundsOK, FlagsOK, TypeOK
<1> QED BY <1>1, <1>2, TypeInvInit, PTL DEF Spec
================================================================================
