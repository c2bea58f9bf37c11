---------------------------- MODULE ScheduleReload ----------------------------
(***************************************************************************)
(* How the timetable in Postgres reaches memory: IngestBatch               *)
(* (internal/schedule/ingestion.go) and the seeder (seeder.go) write it    *)
(* and raise the watermark schema_version.updated_at; the watcher          *)
(* (watcher.go) compares the watermark with the one it saw last and        *)
(* reloads (loader.go); a reload reads the trips, then the footpaths, and  *)
(* publishes what it built if the manifest hash changed (buffer.go).       *)
(*                                                                         *)
(* Content is abstracted to versions: of the trips (with their stop        *)
(* times), 0 when there are none, and of the direct footpaths.  Each       *)
(* statement of the watcher and the seeder is a step of its own; an ingest *)
(* is one transaction, which takes NOW() when it begins and shows its      *)
(* effects when it commits.                                                *)
(***************************************************************************)
EXTENDS Integers, FiniteSets

CONSTANTS
    Ingesters,      \* processes that call IngestBatch
    Overlap,        \* transactions and seeding may overlap in time
    ReloadMayFail,  \* the query for the trips may fail
    WalksMayFail,   \* the query for the footpaths may fail
    SeederRuns,     \* somebody runs -seed against this database
    MaxWrites,      \* bound: transactions begun
    MaxFaults,      \* bound: failed statements and broken connections
    MaxRestarts     \* bound: crashes of the process

ASSUME ReloadAssumption ==
    /\ Overlap \in BOOLEAN /\ ReloadMayFail \in BOOLEAN
    /\ WalksMayFail \in BOOLEAN /\ SeederRuns \in BOOLEAN
    /\ MaxWrites \in Nat /\ MaxFaults \in Nat /\ MaxRestarts \in Nat

NotOpen == 0       \* the ingester has no transaction
NoManifest == [trips |-> -1, walks |-> -1]
Nothing == [trips |-> 0, walks |-> 0]
SeedWalks == 1     \* the footpaths of the demo network
OtherWalks == 2

VARIABLES
    trips, walks, \* the committed contents of Postgres
    updatedAt,    \* schema_version.updated_at
    clock,        \* the latest NOW() handed out
    begun,        \* begun[i]: NOW() of i's open transaction
    newest,       \* the latest version of the trips ever written
    seed,         \* how far the seeder is
    pc,           \* where the reloading goroutine is
    booting,      \* the reload in progress is the one at boot
    lastTS,       \* the watermark the watcher saw last
    staging,      \* the route buffer under construction
    live,         \* the published route buffer
    manifest,     \* the content whose hash was published last
    missed,       \* ghost: the latest reload could not read all it wanted
    listening,    \* LISTEN is established
    notified,     \* tokens in notifyCh, which holds one
    faults, restarts

dbVars == <<trips, walks, updatedAt, clock, begun, newest, seed>>
loadVars == <<pc, booting, lastTS, staging, live, manifest, missed>>
listenVars == <<listening, notified>>
boundVars == <<faults, restarts>>
vars == <<dbVars, loadVars, listenVars, boundVars>>

Stored == [trips |-> trips, walks |-> walks]

Init ==
    /\ trips = 1 /\ walks \in {SeedWalks, OtherWalks}
    /\ updatedAt = 1 /\ clock = 1
    /\ begun = [i \in Ingesters |-> NotOpen]
    /\ newest = 1
    /\ seed = "none"
    /\ pc = "trips" /\ booting = TRUE /\ lastTS = 0
    /\ staging = Nothing /\ live = Nothing /\ manifest = NoManifest
    /\ missed = FALSE
    /\ listening = FALSE /\ notified = 0
    /\ faults = 0 /\ restarts = 0

Fault == faults < MaxFaults /\ faults' = faults + 1 /\ UNCHANGED restarts

(***************************************************************************)
(* The writers                                                             *)
(***************************************************************************)

Open == {i \in Ingesters : begun[i] # NotOpen}

(* Two writers at once only where Overlap allows it. *)
MayWrite == clock <= MaxWrites /\ (Overlap \/ (Open = {} /\ seed \in {"none", "failed"}))

BeginIngest(i) ==
    /\ i \notin Open
    /\ MayWrite
    /\ clock' = clock + 1
    /\ begun' = [begun EXCEPT ![i] = clock + 1]
    /\ UNCHANGED <<trips, walks, updatedAt, newest, seed, loadVars, listenVars, boundVars>>

(* Upserts and watermark become visible together.  The batch may repeat    *)
(* what is stored already.  NOW() is the start of the transaction.         *)
CommitIngest(i) ==
    /\ i \in Open
    /\ \/ trips' = newest + 1 /\ newest' = newest + 1
       \/ UNCHANGED <<trips, newest>>
    /\ updatedAt' = begun[i]
    /\ begun' = [begun EXCEPT ![i] = NotOpen]
    /\ UNCHANGED <<walks, clock, seed, loadVars, listenVars, boundVars>>

(* A failing statement rolls everything back. *)
RollbackIngest(i) ==
    /\ i \in Open
    /\ begun' = [begun EXCEPT ![i] = NotOpen]
    /\ UNCHANGED <<trips, walks, updatedAt, clock, newest, seed, loadVars, listenVars, boundVars>>

(* SeedDatabase: statements that commit one by one, the watermark last. *)
SeedTruncate ==
    /\ SeederRuns /\ seed \in {"none", "failed"}
    /\ MayWrite
    /\ trips' = 0 /\ walks' = 0
    /\ seed' = "truncated"
    /\ UNCHANGED <<updatedAt, clock, begun, newest, loadVars, listenVars, boundVars>>

SeedTrips ==
    /\ seed = "truncated"
    /\ trips' = newest + 1 /\ newest' = newest + 1
    /\ seed' = "trips"
    /\ UNCHANGED <<walks, updatedAt, clock, begun, loadVars, listenVars, boundVars>>

SeedFootpaths ==
    /\ seed = "trips"
    /\ walks' = SeedWalks
    /\ seed' = "walks"
    /\ UNCHANGED <<trips, updatedAt, clock, begun, newest, loadVars, listenVars, boundVars>>

SeedBump ==
    /\ seed = "walks"
    /\ clock' = clock + 1
    /\ updatedAt' = clock + 1
    /\ seed' = "none"
    /\ UNCHANGED <<trips, walks, begun, newest, loadVars, listenVars, boundVars>>

(* A step fails and the seeder exits, leaving what it did so far. *)
SeedFails ==
    /\ seed \in {"truncated", "trips", "walks"}
    /\ Fault
    /\ seed' = "failed"
    /\ UNCHANGED <<trips, walks, updatedAt, clock, begun, newest, loadVars, listenVars>>

Seeder == SeedTrips \/ SeedFootpaths \/ SeedBump

(***************************************************************************)
(* ReloadRouteArrays                                                       *)
(***************************************************************************)

LoadTrips ==
    /\ pc = "trips"
    /\ staging' = [Nothing EXCEPT !.trips = trips]
    /\ pc' = "walks"
    /\ missed' = FALSE
    /\ UNCHANGED <<dbVars, booting, lastTS, live, manifest, listenVars, boundVars>>

LoadFootpaths ==
    /\ pc = "walks"
    /\ staging' = [staging EXCEPT !.walks = walks]
    /\ pc' = "publish"
    /\ UNCHANGED <<dbVars, booting, lastTS, live, manifest, missed, listenVars, boundVars>>

(* Non-fatal: the buffer goes on without the footpaths, or with those that *)
(* were read before the error; both are taken for none.                    *)
LoadFootpathsFails ==
    /\ pc = "walks" /\ WalksMayFail
    /\ Fault
    /\ pc' = "publish"
    /\ missed' = TRUE
    /\ UNCHANGED <<dbVars, booting, lastTS, staging, live, manifest, listenVars>>

(* manifestChanged: every field a search can observe is hashed. *)
ManifestChanged_TripsOnly == staging.trips # manifest.trips
ManifestChanged == staging # manifest

(* Back to the watcher's select; after boot, that is where it starts. *)
Publish ==
    /\ pc = "publish"
    /\ IF ManifestChanged
       THEN live' = staging /\ manifest' = staging
       ELSE UNCHANGED <<live, manifest>>
    /\ staging' = Nothing
    /\ pc' = "select" /\ booting' = FALSE
    /\ UNCHANGED <<dbVars, lastTS, missed, listenVars, boundVars>>

BootState ==
    /\ pc' = "trips" /\ booting' = TRUE /\ lastTS' = 0
    /\ staging' = Nothing /\ live' = Nothing /\ manifest' = NoManifest
    /\ missed' = FALSE
    /\ listening' = FALSE /\ notified' = 0

(* The watcher goes on; at boot the process exits and is started again. *)
LoadTripsFails ==
    /\ pc = "trips" /\ ReloadMayFail
    /\ Fault
    /\ IF booting
       THEN BootState
       ELSE /\ pc' = "select" /\ missed' = TRUE
            /\ UNCHANGED <<booting, lastTS, staging, live, manifest, listenVars>>
    /\ UNCHANGED dbVars

(***************************************************************************)
(* WatcherLoop                                                             *)
(***************************************************************************)

(* The watermark kept is the one read, not the time of reading. *)
WatermarkKept_Now == clock
WatermarkKept == updatedAt

Changed == updatedAt > lastTS

(* reload: read the watermark, keep it, and load if it has moved on. *)
CheckWatermark ==
    /\ IF Changed
       THEN pc' = "trips" /\ lastTS' = WatermarkKept
       ELSE UNCHANGED <<pc, lastTS>>
    /\ UNCHANGED <<booting, staging, live, manifest, missed>>

OnTick ==
    /\ pc = "select"
    /\ CheckWatermark
    /\ UNCHANGED <<dbVars, listenVars, boundVars>>

OnNotify ==
    /\ pc = "select" /\ notified > 0
    /\ notified' = notified - 1
    /\ CheckWatermark
    /\ UNCHANGED <<dbVars, listening, boundVars>>

(* The notification is used up and the watermark could not be read. *)
OnNotifyFails ==
    /\ pc = "select" /\ notified > 0
    /\ Fault
    /\ notified' = notified - 1
    /\ UNCHANGED <<dbVars, loadVars, listening>>

(***************************************************************************)
(* listenForChanges                                                        *)
(***************************************************************************)

(* The listener starts with the watcher, after the reload at boot. *)
Listen ==
    /\ ~booting /\ ~listening
    /\ listening' = TRUE
    /\ UNCHANGED <<dbVars, loadVars, notified, boundVars>>

(* The non-blocking send coalesces with a token not taken yet. *)
AfterNotify_Queued == notified + 1
AfterNotify == 1

Notify ==
    /\ listening
    /\ notified' = AfterNotify
    /\ UNCHANGED <<dbVars, loadVars, listening, boundVars>>

ListenBreaks ==
    /\ listening
    /\ Fault
    /\ listening' = FALSE
    /\ UNCHANGED <<dbVars, loadVars, notified>>

Restart ==
    /\ restarts < MaxRestarts
    /\ restarts' = restarts + 1
    /\ BootState
    /\ UNCHANGED <<dbVars, faults>>

(***************************************************************************)
(* Specification                                                           *)
(***************************************************************************)

Loader == LoadTrips \/ LoadFootpaths \/ Publish

Next ==
    \/ \E i \in Ingesters : BeginIngest(i) \/ CommitIngest(i) \/ RollbackIngest(i)
    \/ SeedTruncate \/ Seeder \/ SeedFails
    \/ Loader \/ LoadTripsFails \/ LoadFootpathsFails
    \/ OnTick \/ OnNotify \/ OnNotifyFails
    \/ Listen \/ Notify \/ ListenBreaks
    \/ Restart

Spec == Init /\ [][Next]_vars

(* The reloading goroutine runs and its ticker fires.  Nothing is assumed  *)
(* of notifications, nor of the writers.                                   *)
FairSpec == Spec /\ WF_vars(Loader) /\ WF_vars(OnTick)

(***************************************************************************)
(* Properties                                                              *)
(***************************************************************************)

Contents == [trips : Nat, walks : 0..OtherWalks]

(* The type of every variable. *)
TypeOK ==
    /\ trips \in Nat /\ walks \in 0..OtherWalks
    /\ updatedAt \in Nat /\ clock \in Nat /\ newest \in Nat
    /\ begun \in [Ingesters -> Nat]
    /\ seed \in {"none", "truncated", "trips", "walks", "failed"}
    /\ pc \in {"trips", "walks", "publish", "select"}
    /\ booting \in BOOLEAN /\ missed \in BOOLEAN /\ lastTS \in Nat
    /\ staging \in Contents /\ live \in Contents
    /\ manifest \in Contents \cup {NoManifest}
    /\ listening \in BOOLEAN /\ notified \in 0..1
    /\ faults \in 0..MaxFaults /\ restarts \in 0..MaxRestarts

(* The seeder is between its truncation and its new watermark. *)
Seeding == seed # "none"

(* What the reload in progress will still read, or has read, is current. *)
ReloadIsCurrent ==
    \/ pc = "trips"
    \/ pc = "walks" /\ staging.trips = trips
    \/ pc = "publish" /\ staging = Stored

(* watcher.go:20: the watcher "keeps the in-memory schedule in sync with   *)
(* Postgres".  Where the published buffer is behind, a reload that will    *)
(* mend it is running or the watermark calls for one; no change slips      *)
(* between the watermark that is read and the contents that are read.  The *)
(* damage of a query that failed lasts until the next change at most.      *)
StaleIsPending == live # Stored => Seeding \/ missed \/ Changed \/ ReloadIsCurrent

(* watcher.go:12-13: the periodic poll is there so that nothing can "leave *)
(* the buffer stale forever".  When writes and faults are over, the buffer *)
(* comes to hold what Postgres holds, by the poll alone, and keeps it,     *)
(* unless the latest reload was one with a query that failed.              *)
CatchesUpOrMissed == <>[](Seeding \/ missed \/ live = Stored)
================================================================================
