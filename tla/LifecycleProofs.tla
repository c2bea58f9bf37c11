--------------------------- MODULE LifecycleProofs ---------------------------
(***************************************************************************)
(* One process from boot to exit, and again after a crash: what holds for  *)
(* every directory of migrations, every database it may be started on but  *)
(* one kind, every sequence of signal buffers and any number of faults.    *)
(*                                                                         *)
(* A step of the process is a step of its migrations or leaves them alone, *)
(* and a step of the readiness state or leaves that alone; so each part is *)
(* proved with its own steps, and what run does on top with both.          *)
(***************************************************************************)
EXTENDS Lifecycle, TLAPS

(***************************************************************************)
(* Migrations by themselves.                                               *)
(*                                                                         *)
(* When no version is ever recorded without its DDL.  Two instances that   *)
(* boot on an empty database can do it (the run migrate_replicas); what    *)
(* follows bounds that exactly: it takes both a database without           *)
(* bookkeeping and a second instance.                                      *)
(***************************************************************************)

(* Adoption never begins where anything is recorded. *)
UpgradeInv ==
    /\ RecordedMeansApplied
    /\ recorded # {}
    /\ \A i \in Instances : up[i] \notin {"probe", "adopt"}

(* Once a database has bookkeeping, instances may boot, fail, die and race *)
(* in any number: an upgrade never records what it did not apply           *)
(* (migrate.go: applyOne is one transaction).                              *)
THEOREM UpgradesRecordWhatTheyApply ==
  ASSUME \A d \in Databases : d.recorded # {} /\ d.recorded \subseteq d.schema
  PROVE  MigrateSpec => []RecordedMeansApplied
<1> DEFINE Inv == MigrateTypeOK /\ UpgradeInv
<1>1. MigrateInit => Inv
  BY MigrateAssumption DEF MigrateAssumption, MigrateInit, Database, MigrateTypeOK,
     UpgradeInv, RecordedMeansApplied
<1>2. Inv /\ [MigrateNext]_migrateVars => Inv'
  <2> SUFFICES ASSUME Inv, [MigrateNext]_migrateVars PROVE Inv'
    OBVIOUS
  <2>0. MaxFaults \in Nat
    BY MigrateAssumption DEF MigrateAssumption
  <2>1. ASSUME NEW i \in Instances, StartUp(i) PROVE Inv'
    BY <2>1 DEF StartUp, GoTo, dbVars, MigrateTypeOK, UpgradeInv, RecordedMeansApplied
  <2>2. ASSUME NEW i \in Instances, ReadApplied(i) PROVE Inv'
    BY <2>2 DEF ReadApplied, GoTo, dbVars, MigrateTypeOK, UpgradeInv, RecordedMeansApplied
  <2>3. ASSUME NEW i \in Instances, Probe(i) \/ AdoptOne(i) PROVE Inv'
    BY <2>3 DEF Probe, AdoptOne, UpgradeInv
  <2>4. ASSUME NEW i \in Instances, ApplyOne(i) PROVE Inv'
    BY <2>4 DEF ApplyOne, GoTo, dbVars, MigrateTypeOK, UpgradeInv, RecordedMeansApplied
  <2>5. ASSUME NEW i \in Instances, UpReturns(i) PROVE Inv'
    BY <2>5 DEF UpReturns, GoTo, dbVars, MigrateTypeOK, UpgradeInv, RecordedMeansApplied
  <2>6. ASSUME NEW i \in Instances, UpFails(i) \/ Forget(i), Fault PROVE Inv'
    BY <2>0, <2>6 DEF UpFails, Forget, Fault, GoTo, dbVars, MigrateTypeOK, UpgradeInv,
       RecordedMeansApplied
  <2>7. CASE UNCHANGED migrateVars
    BY <2>7 DEF migrateVars, dbVars, upVars, MigrateTypeOK, UpgradeInv, RecordedMeansApplied
  <2> QED BY <2>1, <2>2, <2>3, <2>4, <2>5, <2>6, <2>7 DEF MigrateNext, UpStep
<1>3. Inv => RecordedMeansApplied
  BY DEF UpgradeInv
<1> QED BY <1>1, <1>2, <1>3, PTL DEF MigrateSpec

(***************************************************************************)
(* One instance                                                            *)
(***************************************************************************)

(* What the probe may rely on while nobody else migrates: an unrecorded    *)
(* database is either without stop_times or complete.                      *)
ProbeTells == Probed \in schema => schema = Versions

(* Up has accounted for every version it read as missing. *)
AdoptionInv(i) ==
    /\ RecordedMeansApplied
    /\ recorded = {} => ProbeTells
    /\ up[i] = "probe" => ProbeTells
    /\ up[i] \in {"probe", "apply"} => Versions \ schema \subseteq todo[i]
    /\ up[i] \in {"adopt", "done"} => schema = Versions

UpTypeOK ==
    /\ schema \subseteq Versions /\ recorded \subseteq Versions
    /\ up \in [Instances -> {"idle", "read", "probe", "adopt", "apply", "done", "failed"}]
    /\ todo \in [Instances -> SUBSET Versions]

(* The databases a single instance can be trusted with: all but those that *)
(* record what is not there, and those at an intermediate version without  *)
(* bookkeeping.                                                            *)
Trusted(d) ==
    /\ d.recorded \subseteq d.schema
    /\ d.recorded = {} /\ Probed \in d.schema => d.schema = Versions

LEMMA MigrateTypeInit == MigrateInit => MigrateTypeOK
BY MigrateAssumption DEF MigrateAssumption, MigrateInit, Database, MigrateTypeOK

LEMMA UpTypeStep ==
  ASSUME NEW i \in Instances, UpTypeOK,
         StartUp(i) \/ UpStep(i) \/ UpFails(i) \/ Forget(i)
  PROVE  UpTypeOK'
BY DEF UpTypeOK, StartUp, UpStep, ReadApplied, Probe, AdoptOne, ApplyOne, UpReturns, UpFails,
   Forget, GoTo, dbVars

LEMMA AdoptionInit ==
  ASSUME NEW i \in Instances, \A d \in Databases : Trusted(d), MigrateInit
  PROVE  AdoptionInv(i)
BY MigrateAssumption DEF MigrateAssumption, MigrateInit, Database,
   AdoptionInv, Trusted, ProbeTells, RecordedMeansApplied

LEMMA AdoptionStep ==
  ASSUME NEW i \in Instances, UpTypeOK, AdoptionInv(i),
         StartUp(i) \/ UpStep(i) \/ UpFails(i) \/ Forget(i)
  PROVE  AdoptionInv(i)'
<1> USE DEF GoTo, dbVars, UpTypeOK, AdoptionInv, ProbeTells, RecordedMeansApplied
<1>1. CASE StartUp(i)
  BY <1>1 DEF StartUp
<1>2. CASE ReadApplied(i)
  BY <1>2 DEF ReadApplied
<1>3. CASE Probe(i)
  BY <1>3 DEF Probe, AdoptIf
<1>4. CASE AdoptOne(i)
  BY <1>4 DEF AdoptOne
<1>5. CASE ApplyOne(i)
  BY <1>5 DEF ApplyOne, IsNext, Applies
<1>6. CASE UpReturns(i)
  BY <1>6 DEF UpReturns
<1>7. CASE UpFails(i) \/ Forget(i)
  BY <1>7 DEF UpFails, Forget
<1> QED BY <1>1, <1>2, <1>3, <1>4, <1>5, <1>6, <1>7 DEF UpStep

LEMMA OneInstanceInvariant ==
  ASSUME NEW i, Instances = {i}, \A d \in Databases : Trusted(d)
  PROVE  MigrateSpec => [](MigrateTypeOK /\ AdoptionInv(i))
<1> DEFINE Inv == MigrateTypeOK /\ AdoptionInv(i)
<1>1. MigrateInit => Inv
  BY MigrateTypeInit, AdoptionInit
<1>2. Inv /\ [MigrateNext]_migrateVars => Inv'
  <2> SUFFICES ASSUME Inv, [MigrateNext]_migrateVars PROVE Inv'
    OBVIOUS
  <2>0. MaxFaults \in Nat /\ i \in Instances
    BY MigrateAssumption DEF MigrateAssumption
  <2>1. CASE MigrateNext
    <3>1. StartUp(i) \/ UpStep(i) \/ UpFails(i) \/ Forget(i)
      BY <2>1 DEF MigrateNext
    <3>2. UpTypeOK' /\ AdoptionInv(i)'
      BY <2>0, <3>1, UpTypeStep, AdoptionStep DEF MigrateTypeOK, UpTypeOK
    <3>3. faults' = faults \/ Fault
      BY <2>1 DEF MigrateNext, StartUp, UpStep, ReadApplied, Probe, AdoptOne, ApplyOne,
         UpReturns, dbVars
    <3> QED BY <2>0, <3>2, <3>3 DEF Fault, MigrateTypeOK, UpTypeOK
  <2>2. CASE UNCHANGED migrateVars
    BY <2>2 DEF migrateVars, dbVars, upVars, MigrateTypeOK, AdoptionInv, ProbeTells,
       RecordedMeansApplied
  <2> QED BY <2>1, <2>2
<1> QED BY <1>1, <1>2, PTL DEF MigrateSpec

(* A single instance that boots, fails and boots again adopts only what is *)
(* there, also when it dies between two rows of an adoption                *)
(* (migrate.go: adoptExistingSchema), unless the database it was given is  *)
(* at an intermediate version without bookkeeping.                         *)
THEOREM OneInstanceRecordsWhatIsThere ==
  ASSUME NEW i, Instances = {i}, \A d \in Databases : Trusted(d)
  PROVE  MigrateSpec => []RecordedMeansApplied
<1>1. AdoptionInv(i) => RecordedMeansApplied
  BY DEF AdoptionInv
<1> QED BY <1>1, OneInstanceInvariant, PTL

(* When Up returns without an error the schema is whole: whatever earlier  *)
(* boots left behind, every file of the directory is in effect             *)
(* (migrate.go: Up skips only the versions recorded).                      *)
THEOREM UpCompletesTheSchema ==
  ASSUME NEW i, Instances = {i}, \A d \in Databases : Trusted(d)
  PROVE  MigrateSpec => [](up[i] = "done" => schema = Versions)
<1>1. AdoptionInv(i) => (up[i] = "done" => schema = Versions)
  BY DEF AdoptionInv
<1> QED BY <1>1, OneInstanceInvariant, PTL

(***************************************************************************)
(* The process                                                             *)
(***************************************************************************)

(* Without it the adoption may record what is not there, in one process as *)
(* well as in two.                                                         *)
DatabasesTrusted == \A d \in Databases : Trusted(d)

LEMMA OneSelf == Self \in Instances /\ Instances = {Self}
BY LifecycleAssumption DEF LifecycleAssumption

(***************************************************************************)
(* The migrations of the process                                           *)
(***************************************************************************)

LEMMA LifecycleMovesMigrations ==
  ASSUME [LifecycleNext]_allVars
  PROVE  /\ \/ StartUp(Self) \/ UpStep(Self) \/ UpFails(Self) \/ Forget(Self)
            \/ UNCHANGED <<dbVars, upVars>>
         /\ faults' = faults \/ Fault
<1> USE DEF migrateVars, dbVars, upVars
<1>1. CASE Migrates
  BY <1>1 DEF Migrates, StartUp, UpStep, ReadApplied, Probe, AdoptOne, ApplyOne, UpReturns,
              Failing
<1>2. CASE ClosePool \/ Crash
  BY <1>2 DEF ClosePool, Crash, Gone
<1>3. CASE MainStep /\ ~Migrates /\ ~ClosePool
  BY <1>3 DEF MainStep, MigrationsEnd, ConnectRedis, LoadSchedule, ColdStart, StartServing,
     LeaveSelect, CloseListener, Drained, StopWorkers, WorkersStopped, WaitGroup, CloseRedis,
     Succeeding, Failing
<1>4. CASE Boot \/ ReloadCalled \/ WatcherStep \/ ListenBegins \/ ListenBreaks \/ ListenStops
           \/ RefreshPublishes \/ SwapGoesOn \/ RefreshStops \/ ClassifierStops
  BY <1>4 DEF Boot, ReloadCalled, WatcherStep, ListenBegins, ListenBreaks, ListenStops,
     RefreshPublishes, SwapGoesOn, RefreshStops, ClassifierStops, Move
<1>5. CASE Signal \/ GraceExpires \/ Listens \/ RequestBegins \/ RequestEnds \/ Probing
           \/ WorkersMove \/ WorkersDrained
  BY <1>5 DEF Signal, GraceExpires, Listens, RequestBegins, RequestEnds, Probing,
     WorkersMove, WorkersDrained, Outside
<1>6. CASE UNCHANGED allVars
  BY <1>6 DEF allVars
<1> QED BY <1>1, <1>2, <1>3, <1>4, <1>5, <1>6 DEF LifecycleNext

LEMMA MigrateTypeStep ==
  ASSUME MigrateTypeOK, [LifecycleNext]_allVars
  PROVE  MigrateTypeOK'
<1>1. UpTypeOK'
  <2>1. UpTypeOK
    BY DEF MigrateTypeOK, UpTypeOK
  <2>2. CASE UNCHANGED <<dbVars, upVars>>
    BY <2>1, <2>2 DEF dbVars, upVars, UpTypeOK
  <2> QED BY <2>1, <2>2, OneSelf, UpTypeStep, LifecycleMovesMigrations
<1>2. (faults \in 0..MaxFaults)'
  BY LifecycleMovesMigrations, MigrateAssumption DEF MigrateAssumption, MigrateTypeOK, Fault
<1> QED BY <1>1, <1>2 DEF MigrateTypeOK, UpTypeOK

MigrationsInv == MigrateTypeOK /\ AdoptionInv(Self)

LEMMA MigrationsInvInit ==
  ASSUME DatabasesTrusted
  PROVE  LifecycleInit => MigrationsInv
BY MigrateTypeInit, AdoptionInit, OneSelf DEF LifecycleInit, MigrationsInv, DatabasesTrusted

LEMMA MigrationsInvStep ==
  ASSUME MigrationsInv, [LifecycleNext]_allVars
  PROVE  MigrationsInv'
<1>1. AdoptionInv(Self)'
  <2>1. UpTypeOK /\ AdoptionInv(Self)
    BY DEF MigrationsInv, MigrateTypeOK, UpTypeOK
  <2>2. CASE UNCHANGED <<dbVars, upVars>>
    BY <2>1, <2>2 DEF dbVars, upVars, AdoptionInv, ProbeTells, RecordedMeansApplied
  <2> QED BY <2>1, <2>2, OneSelf, AdoptionStep, LifecycleMovesMigrations
<1> QED BY <1>1, MigrateTypeStep DEF MigrationsInv

(* The adoption and the transactions keep their promise over all the boots *)
(* of one process: one that crashes or fails in the middle of its          *)
(* migrations finds a database it can go on with (migrate.go: Up).         *)
THEOREM RestartsRecordWhatIsThere ==
  ASSUME DatabasesTrusted
  PROVE  LifecycleSpec => []RecordedMeansApplied
<1>1. MigrationsInv => RecordedMeansApplied
  BY DEF MigrationsInv, AdoptionInv
<1> QED BY <1>1, MigrationsInvInit, MigrationsInvStep, PTL DEF LifecycleSpec

(***************************************************************************)
(* The signal buffer and its probe                                         *)
(***************************************************************************)

(* The steps of the readiness state; run itself only sets the flag. *)
ReadinessMove ==
    \/ \E b \in Buffers : StorePointer(b)
    \/ SwapContinues \/ ProbeStep \/ ReadinessReset
    \/ ready' \in BOOLEAN /\ UNCHANGED <<counterVars, probe>>

LEMMA LifecycleMovesReadiness ==
  ASSUME ReadinessTypeOK, [LifecycleNext]_allVars
  PROVE  ReadinessMove
<1>0. UNCHANGED readinessVars => ReadinessMove
  BY DEF ReadinessMove, readinessVars, ReadinessTypeOK
<1>1. CASE ClosePool \/ Crash
  BY <1>1 DEF ClosePool, Crash, Gone, ReadinessMove
<1>2. CASE ColdStart
  BY <1>0, <1>2 DEF ColdStart, PublishBuffer, readinessVars, ReadinessMove
<1>3. CASE StartServing \/ LeaveSelect
  BY <1>3 DEF StartServing, LeaveSelect, ReadyAfterSelect, ReadinessMove
<1>4. CASE MainStep /\ ~ColdStart /\ ~StartServing /\ ~LeaveSelect /\ ~ClosePool
  BY <1>0, <1>4 DEF MainStep, Migrates, MigrationsEnd, ConnectRedis, LoadSchedule,
     CloseListener, Drained, StopWorkers, WorkersStopped, WaitGroup, CloseRedis
<1>5. CASE RefreshPublishes \/ SwapGoesOn \/ Probing
  BY <1>5 DEF RefreshPublishes, PublishBuffer, SwapGoesOn, Probing, ReadinessMove
<1>6. CASE Boot \/ ReloadCalled \/ WatcherStep \/ ListenBegins \/ ListenBreaks \/ ListenStops
           \/ RefreshStops \/ ClassifierStops
  BY <1>0, <1>6 DEF Boot, ReloadCalled, WatcherStep, ListenBegins, ListenBreaks, ListenStops,
     RefreshStops, ClassifierStops, Move
<1>7. CASE Signal \/ GraceExpires \/ Listens \/ RequestBegins \/ RequestEnds \/ WorkersMove
           \/ WorkersDrained
  BY <1>0, <1>7 DEF Signal, GraceExpires, Listens, RequestBegins, RequestEnds, WorkersMove,
     WorkersDrained, Outside
<1>8. CASE UNCHANGED allVars
  BY <1>0, <1>8 DEF allVars
<1> QED BY <1>1, <1>2, <1>3, <1>4, <1>5, <1>6, <1>7, <1>8 DEF LifecycleNext

(* The counters and the latch are those of a buffer that readers may meet, *)
(* the latest one's from the store on that sets them; and a probe has in   *)
(* its history every buffer whose counters it has loaded or may yet load.  *)
BetweenInv ==
    /\ live \in between
    /\ swap = "none" => between = {live}
    /\ swap # "pointer" => signalCount = live.size
    /\ swap \notin {"pointer", "count"} => staleCount = live.stale
    /\ \E b \in between : signalCount = b.size
    /\ \E b \in between : staleCount = b.stale
    /\ ~seatDataPresent => \E b \in between : b.size = 0

HistoryInv ==
    /\ InProbe => between \subseteq probe.seen
    /\ probe.at = "stale" => \E b \in probe.seen : probe.total = b.size

ReadinessInv == ReadinessTypeOK /\ BetweenInv /\ HistoryInv

PossibleBuffers == Buffers \cup {NoBuffer}

LEMMA BuffersType ==
  \A b \in PossibleBuffers : b.size \in Nat /\ b.stale \in 0..b.size
BY ReadinessAssumption DEF ReadinessAssumption, NoBuffer, PossibleBuffers

Observations ==
    [at : {"none", "latch", "count", "stale"}, total : Nat, seen : SUBSET PossibleBuffers]

LEMMA NoProbeType == NoProbe \in Observations /\ NoProbe.at = "none"
BY DEF NoProbe, Observations

LEMMA ReadinessTypes ==
  ASSUME ReadinessTypeOK
  PROVE  /\ live \in PossibleBuffers /\ between \in SUBSET PossibleBuffers
         /\ probe \in Observations
         /\ \A b \in between \cup probe.seen : b.size \in Nat /\ b.stale \in 0..b.size
         /\ signalCount \in Nat /\ staleCount \in Nat
BY BuffersType DEF ReadinessTypeOK, PossibleBuffers, Observations

LEMMA ProbeStepInv ==
  ASSUME ReadinessInv, ProbeStep
  PROVE  ReadinessInv'
<1>1. /\ probe \in Observations /\ between \in SUBSET PossibleBuffers
      /\ signalCount \in Nat
  BY ReadinessTypes DEF ReadinessInv
<1>2. UNCHANGED <<ready, counterVars>>
  BY DEF ProbeStep, ProbeStarts, ProbeLoadsCount, AnswersNoSeatData, AnswersUnavailable,
     AnswersStale, AnswersReady, Answers
<1>3. probe' \in Observations /\ HistoryInv'
  <2>1. CASE ProbeStarts
    <3> DEFINE q == [NoProbe EXCEPT !.at = "latch", !.seen = between]
    <3>1. probe' = q
      BY <2>1 DEF ProbeStarts
    <3>2. q \in Observations /\ q.at = "latch" /\ q.seen = between
      BY <1>1 DEF NoProbe, Observations
    <3> QED BY <1>2, <3>1, <3>2 DEF HistoryInv, InProbe, counterVars
  <2>2. CASE ProbeLoadsCount
    <3>1. CASE probe' = [probe EXCEPT !.at = "count"] /\ probe.at = "latch"
      <4>1. probe' \in Observations /\ probe'.at = "count" /\ probe'.seen = probe.seen
        BY <1>1, <3>1 DEF Observations
      <4> QED BY <1>2, <3>1, <4>1 DEF ReadinessInv, HistoryInv, InProbe, counterVars
    <3>2. CASE /\ probe' = [probe EXCEPT !.at = "stale", !.total = signalCount]
               /\ probe.at = "count"
      <4>1. /\ probe' \in Observations /\ probe'.at = "stale"
            /\ probe'.seen = probe.seen /\ probe'.total = signalCount
        BY <1>1, <3>2 DEF Observations
      <4>2. between \subseteq probe.seen
        BY <3>2 DEF ReadinessInv, HistoryInv, InProbe
      <4>3. \E b \in between : signalCount = b.size
        BY DEF ReadinessInv, BetweenInv
      <4> QED BY <1>2, <4>1, <4>2, <4>3 DEF HistoryInv, InProbe, counterVars
    <3> QED BY <2>2, <3>1, <3>2 DEF ProbeLoadsCount
  <2>3. CASE probe' = NoProbe
    BY <2>3, NoProbeType DEF HistoryInv, InProbe
  <2> QED BY <2>1, <2>2, <2>3 DEF ProbeStep, AnswersNoSeatData, AnswersUnavailable, AnswersStale,
             AnswersReady, Answers
<1>4. ReadinessTypeOK'
  BY <1>2, <1>3 DEF ReadinessInv, ReadinessTypeOK, Observations, PossibleBuffers, counterVars
<1>5. BetweenInv'
  BY <1>2 DEF ReadinessInv, BetweenInv, counterVars
<1> QED BY <1>3, <1>4, <1>5 DEF ReadinessInv

(* A swap replaces the live buffer and shows the probe the new one. *)
LEMMA StorePointerInv ==
  ASSUME ReadinessInv, NEW b \in Buffers, StorePointer(b)
  PROVE  ReadinessInv'
<1>1. /\ probe \in Observations /\ live \in PossibleBuffers /\ b \in PossibleBuffers
  BY ReadinessTypes DEF ReadinessInv, PossibleBuffers
<1>2. /\ UNCHANGED <<ready, signalCount, staleCount, seatDataPresent>>
      /\ swap = "none" /\ swap' = "pointer" /\ live' = b /\ between' = {live, b}
      /\ probe' = IF InProbe THEN [probe EXCEPT !.seen = @ \cup {b}] ELSE probe
  BY DEF StorePointer
<1>3. /\ probe' \in Observations
      /\ probe'.at = probe.at /\ probe'.total = probe.total
      /\ probe.seen \subseteq probe'.seen
      /\ InProbe => b \in probe'.seen
  BY <1>1, <1>2 DEF Observations
<1>4. between = {live} /\ signalCount = live.size /\ staleCount = live.stale
  BY <1>2 DEF ReadinessInv, BetweenInv
<1>5. ReadinessTypeOK'
  BY <1>1, <1>2, <1>3 DEF ReadinessInv, ReadinessTypeOK, Observations, PossibleBuffers
<1>6. BetweenInv'
  <2>1. ~seatDataPresent => live.size = 0
    BY <1>4 DEF ReadinessInv, BetweenInv
  <2> QED BY <1>2, <1>4, <2>1 DEF BetweenInv
<1>7. HistoryInv'
  <2>1. InProbe => live \in probe.seen
    BY <1>4 DEF ReadinessInv, HistoryInv
  <2>2. InProbe' => between' \subseteq probe'.seen
    BY <1>2, <1>3, <2>1 DEF InProbe
  <2>3. probe'.at = "stale" => \E c \in probe'.seen : probe'.total = c.size
    BY <1>3 DEF ReadinessInv, HistoryInv
  <2> QED BY <2>2, <2>3 DEF HistoryInv
<1> QED BY <1>5, <1>6, <1>7 DEF ReadinessInv

LEMMA SwapContinuesInv ==
  ASSUME ReadinessInv, SwapContinues
  PROVE  ReadinessInv'
<1>0. live.size \in Nat /\ live.stale \in Nat
  BY ReadinessTypes, BuffersType DEF ReadinessInv
<1>1. CASE StoreSignalCount
  <2>1. ReadinessTypeOK'
    BY <1>0, <1>1 DEF StoreSignalCount, ReadinessInv, ReadinessTypeOK
  <2>2. BetweenInv' /\ HistoryInv'
    BY <1>1 DEF StoreSignalCount, ReadinessInv, BetweenInv, HistoryInv, InProbe
  <2> QED BY <2>1, <2>2 DEF ReadinessInv
<1>2. CASE StoreStaleCount
  <2>1. ReadinessTypeOK'
    BY <1>0, <1>2 DEF StoreStaleCount, StaleStored, ReadinessInv, ReadinessTypeOK
  <2>2. BetweenInv' /\ HistoryInv'
    BY <1>2 DEF StoreStaleCount, StaleStored, ReadinessInv, BetweenInv, HistoryInv, InProbe
  <2> QED BY <2>1, <2>2 DEF ReadinessInv
<1>3. CASE StoreLatch
  <2>1. /\ UNCHANGED <<ready, live, signalCount, staleCount, probe>>
        /\ swap = "stale" /\ swap' = "none" /\ between' = {live}
    BY <1>3 DEF StoreLatch
  <2>2. seatDataPresent' \in BOOLEAN /\ (live.size > 0 => seatDataPresent')
    BY <1>3, Zenon DEF StoreLatch
  <2>3. ReadinessTypeOK'
    BY <2>1, <2>2, ReadinessTypes DEF ReadinessInv, ReadinessTypeOK, PossibleBuffers
  <2>4. BetweenInv'
    BY <1>0, <2>1, <2>2 DEF ReadinessInv, BetweenInv
  <2>5. HistoryInv'
    BY <2>1 DEF ReadinessInv, BetweenInv, HistoryInv, InProbe
  <2> QED BY <2>3, <2>4, <2>5 DEF ReadinessInv
<1> QED BY <1>1, <1>2, <1>3 DEF SwapContinues

LEMMA ReadinessInvStep ==
  ASSUME ReadinessInv, ReadinessMove
  PROVE  ReadinessInv'
<1>1. CASE ReadinessReset
  <2>1. NoBuffer.stale = 0 /\ NoBuffer.size = 0 /\ NoBuffer \in PossibleBuffers
    BY DEF NoBuffer, PossibleBuffers
  <2>2. ready' \in BOOLEAN /\ seatDataPresent' \in BOOLEAN
    BY <1>1, Zenon DEF ReadinessReset
  <2>3. /\ live' = NoBuffer /\ signalCount' = 0 /\ staleCount' = 0
        /\ swap' = "none" /\ between' = {NoBuffer} /\ probe' = NoProbe
    BY <1>1 DEF ReadinessReset
  <2>4. ReadinessTypeOK'
    <3>1. 0 \in {b.size : b \in PossibleBuffers} /\ 0 \in {b.stale : b \in PossibleBuffers}
      BY <2>1
    <3> QED BY <2>2, <2>3, <3>1, NoProbeType DEF ReadinessTypeOK, Observations, PossibleBuffers
  <2>5. BetweenInv' /\ HistoryInv'
    BY <2>1, <2>3, NoProbeType DEF BetweenInv, HistoryInv, InProbe
  <2> QED BY <2>4, <2>5 DEF ReadinessInv
<1>2. CASE ready' \in BOOLEAN /\ UNCHANGED <<counterVars, probe>>
  BY <1>2 DEF counterVars, ReadinessInv, ReadinessTypeOK, BetweenInv, HistoryInv, InProbe
<1> QED
  BY <1>1, <1>2, ProbeStepInv, StorePointerInv, SwapContinuesInv DEF ReadinessMove

LEMMA ReadinessInvInit == ReadinessInit => ReadinessInv
<1> SUFFICES ASSUME ReadinessInit PROVE ReadinessInv
  OBVIOUS
<1>1. ReadinessTypeOK
  <2>1. NoBuffer.stale = 0 /\ NoBuffer.size = 0 /\ NoBuffer \in PossibleBuffers
    BY DEF NoBuffer, PossibleBuffers
  <2>2. 0 \in {b.size : b \in PossibleBuffers} /\ 0 \in {b.stale : b \in PossibleBuffers}
    BY <2>1
  <2> QED
    BY <2>2, NoProbeType DEF ReadinessInit, ReadinessTypeOK, Observations, PossibleBuffers
<1>2. BetweenInv /\ HistoryInv
  BY NoProbeType DEF ReadinessInit, BetweenInv, HistoryInv, InProbe, NoBuffer
<1> QED BY <1>1, <1>2 DEF ReadinessInv

(* What is said in an answer was the case of buffers of its time. *)
Truths ==
    /\ AnswersNoSeatData => \E b \in probe.seen : b.size = 0
    /\ AnswersStale => \E b, c \in probe.seen : 2 * c.stale > b.size
    /\ AnswersReady => \E b, c \in probe.seen : 2 * c.stale <= b.size

LEMMA AnswersAreTrue == ASSUME ReadinessInv PROVE Truths
<1>1. InProbe => between \subseteq probe.seen
  BY DEF ReadinessInv, HistoryInv
<1>2. ASSUME AnswersNoSeatData PROVE \E b \in probe.seen : b.size = 0
  BY <1>1, <1>2 DEF AnswersNoSeatData, InProbe, ReadinessInv, BetweenInv
<1>3. ASSUME probe.at = "stale"
      PROVE  \E b, c \in probe.seen : probe.total = b.size /\ staleCount = c.stale
  BY <1>1, <1>3 DEF InProbe, ReadinessInv, BetweenInv, HistoryInv
<1>4. ASSUME AnswersStale PROVE \E b, c \in probe.seen : 2 * c.stale > b.size
  BY <1>3, <1>4 DEF AnswersStale
<1>5. ASSUME AnswersReady PROVE \E b, c \in probe.seen : 2 * c.stale <= b.size
  <2>1. CASE probe.at = "stale" /\ 2 * staleCount <= probe.total
    BY <1>3, <2>1
  <2>2. CASE probe.at = "count" /\ signalCount = 0
    <3>1. PICK b \in between : b.size = 0
      BY <2>2 DEF ReadinessInv, BetweenInv
    <3>2. b \in probe.seen /\ b.stale \in 0..b.size
      BY <1>1, <2>2, ReadinessTypes DEF InProbe, ReadinessInv
    <3> QED BY <3>1, <3>2
  <2> QED BY <1>5, <2>1, <2>2 DEF AnswersReady
<1> QED BY <1>2, <1>4, <1>5 DEF Truths

(* Whatever swaps overlap a probe, its answer is about buffers of its time *)
(* (health.go: degradation, signal.go: SwapSignal), for all sequences of   *)
(* buffers; about a single one if no swap does.                            *)
THEOREM ProbesTellTheTruth == LifecycleSpec => ProbeTellsTheTruth
<1>1. LifecycleInit => ReadinessInv
  BY ReadinessInvInit DEF LifecycleInit
<1>2. ReadinessInv /\ [LifecycleNext]_allVars => ReadinessInv'
  BY ReadinessInvStep, LifecycleMovesReadiness DEF ReadinessInv
<1>3. ReadinessInv => [Truths]_readinessVars
  BY AnswersAreTrue
<1>4. [Truths]_readinessVars <=>
        [/\ AnswersNoSeatData => \E b \in probe.seen : b.size = 0
         /\ AnswersStale => \E b, c \in probe.seen : 2 * c.stale > b.size
         /\ AnswersReady => \E b, c \in probe.seen : 2 * c.stale <= b.size]_readinessVars
  BY DEF Truths
<1> QED BY <1>1, <1>2, <1>3, <1>4, PTL DEF LifecycleSpec, ProbeTellsTheTruth

(***************************************************************************)
(* run: the type of its variables                                          *)
(***************************************************************************)

Booting == main \in {"off", "migrate", "redis", "load", "coldstart", "coldstarted"}

(* Past the drain of the HTTP server. *)
Closing == main \in {"stopWorkers", "stopping", "wait", "closeRedis", "closePool"}

(* LifecycleTypeOK without the parts of the other two modules; the Booleans*)
(* are apart, as the arithmetic prover handles them badly.                 *)
FlagsTypeOK == loaded \in BOOLEAN /\ signalled \in BOOLEAN /\ told \in BOOLEAN

ProcessTypeOK ==
    /\ Booting \/ main = "serving" \/ main = "drain" \/ Closing
    /\ mode \in Modes \cup {"serve"}
    /\ grace \in {"unused", "running", "over"} /\ swaps \in 0..MaxSwaps
    /\ at \in [Goroutines -> Places] /\ conns \in 0..MaxConns
    /\ listener \in {"none", "starting", "open", "closed", "failed"}
    /\ request \in {"none", "running"}
    /\ workers \in {"none", "starting", "running", "draining", "stopped", "failed"}

LEMMA ProcessTypeOKInit == LifecycleInit => ProcessTypeOK
BY LifecycleAssumption DEF LifecycleAssumption, LifecycleInit, ProcessTypeOK, Booting, Places

LEMMA ProcessTypeOKStep ==
  ASSUME ProcessTypeOK, [LifecycleNext]_allVars
  PROVE  ProcessTypeOK'
<1> USE LifecycleAssumption DEF LifecycleAssumption, ProcessTypeOK, Booting, Closing
<1>1. CASE Boot
  BY <1>1 DEF Boot, routineVars, outsideVars
<1>2. CASE Migrates
  BY <1>2 DEF Migrates, processVars, mainVars, routineVars, outsideVars
<1>3. CASE MigrationsEnd \/ ConnectRedis \/ Drained \/ WorkersStopped \/ WaitGroup \/ CloseRedis
  BY <1>3 DEF MigrationsEnd, ConnectRedis, Drained, WorkersStopped, WaitGroup, CloseRedis, Main,
     AfterFailedUp, routineVars, outsideVars
<1>4. CASE LoadSchedule
  BY <1>4 DEF LoadSchedule, Main, Goroutines, Places, routineVars, outsideVars
<1>5. CASE ColdStart
  BY <1>5 DEF ColdStart, PublishBuffer, routineVars, outsideVars
<1>6. CASE StartServing
  BY <1>6 DEF StartServing, Goroutines, Places
<1>7. CASE LeaveSelect \/ CloseListener \/ StopWorkers
  BY <1>7 DEF LeaveSelect, CloseListener, StopWorkers, WorkersClose, mainVars, routineVars,
     outsideVars
<1>8. CASE ClosePool \/ Crash
  <2>1. InMemory /\ main' = "off" /\ mode' = mode
    BY <1>8 DEF ClosePool, Crash, Gone
  <2>2. at' \in [Goroutines -> Places]
    BY <2>1 DEF InMemory, Places
  <2> QED BY <2>1, <2>2 DEF InMemory
<1>9. ASSUME NEW g \in Goroutines, NEW from, NEW to \in Places, NEW n, Move(g, from, to, n)
      PROVE  ProcessTypeOK'
  BY <1>9 DEF Move, mainVars, outsideVars
<1>10. CASE ReloadCalled \/ WatcherStep \/ ListenBegins \/ ListenBreaks \/ ListenStops
            \/ RefreshStops \/ ClassifierStops
  <2>1. \E g \in Goroutines, from \in Places, to \in Places, n \in {-1, 0, 1} :
          Move(g, from, to, n)
    BY <1>10 DEF ReloadCalled, WatcherStep, ListenBegins, ListenBreaks, ListenStops,
       ReleasedByBreak, RefreshStops, ClassifierStops, Goroutines, Places
  <2> QED BY <1>9, <2>1
<1>11. CASE RefreshPublishes \/ SwapGoesOn \/ Probing
  BY <1>11 DEF RefreshPublishes, PublishBuffer, SwapGoesOn, Probing, processVars, mainVars,
     routineVars, outsideVars
<1>12. CASE Signal \/ GraceExpires
  <2>1. /\ UNCHANGED <<main, mode, loaded, faults, swaps, at, conns, listener, request, workers>>
        /\ grace' \in {grace, "over"}
    BY <1>12 DEF Signal, GraceExpires, Outside, routineVars, outsideVars
  <2> QED BY <2>1
<1>13. CASE Listens \/ RequestBegins \/ RequestEnds
  BY <1>13 DEF Listens, RequestBegins, RequestEnds, Outside, routineVars
<1>14. CASE WorkersMove \/ WorkersDrained
  BY <1>14 DEF WorkersMove, WorkersClose, WorkersDrained, Outside, routineVars
<1>15. CASE UNCHANGED allVars
  BY <1>15 DEF allVars, processVars, mainVars, routineVars, outsideVars
<1> QED
  BY <1>1, <1>2, <1>3, <1>4, <1>5, <1>6, <1>7, <1>8, <1>10, <1>11, <1>12, <1>13, <1>14, <1>15
     DEF LifecycleNext, MainStep

LEMMA FlagsTypeOKStep ==
  ASSUME FlagsTypeOK, [LifecycleNext]_allVars
  PROVE  FlagsTypeOK'
<1>1. loaded' \in {TRUE, FALSE, loaded} /\ signalled' \in {TRUE, FALSE, signalled}
  BY DEF LifecycleNext, MainStep, Boot, Migrates, MigrationsEnd, ConnectRedis, Main, LoadSchedule,
     ColdStart, StartServing, LeaveSelect, CloseListener, Drained, StopWorkers, WorkersStopped,
     WaitGroup, CloseRedis, ClosePool, Crash, Gone, InMemory, ReloadCalled, WatcherStep,
     ListenBegins, ListenBreaks, ListenStops, Move, RefreshPublishes, SwapGoesOn, RefreshStops,
     ClassifierStops, Signal, GraceExpires, Listens, RequestBegins, RequestEnds, Probing,
     WorkersMove, WorkersDrained, Outside, allVars, processVars, mainVars, outsideVars
<1>2. told' \in {TRUE, FALSE, told, workers = "running"}
  BY DEF LifecycleNext, MainStep, Boot, Migrates, MigrationsEnd, ConnectRedis, Main, LoadSchedule,
     ColdStart, StartServing, LeaveSelect, CloseListener, Drained, StopWorkers, WorkersStopped,
     WaitGroup, CloseRedis, ClosePool, Crash, Gone, InMemory, ReloadCalled, WatcherStep,
     ListenBegins, ListenBreaks, ListenStops, Move, RefreshPublishes, SwapGoesOn, RefreshStops,
     ClassifierStops, Signal, GraceExpires, Listens, RequestBegins, RequestEnds, Probing,
     WorkersMove, WorkersClose, WorkersDrained, Outside, allVars, processVars, mainVars,
     outsideVars
<1>3. (workers = "running") \in BOOLEAN
  BY Zenon
<1> QED BY <1>1, <1>2, <1>3, Zenon DEF FlagsTypeOK

(* Every reachable state of the process has its type: the pool is never    *)
(* over- nor underdrawn, whatever fails, crashes or is told to stop.       *)
THEOREM LifecycleTypeCorrect == LifecycleSpec => []LifecycleTypeOK
<1> DEFINE Inv == MigrateTypeOK /\ ReadinessInv /\ ProcessTypeOK /\ FlagsTypeOK
<1>1. LifecycleInit => Inv
  <2>1. LifecycleInit => FlagsTypeOK
    BY Zenon DEF LifecycleInit, FlagsTypeOK
  <2> QED BY <2>1, MigrateTypeInit, ReadinessInvInit, ProcessTypeOKInit DEF LifecycleInit
<1>2. Inv /\ [LifecycleNext]_allVars => Inv'
  BY MigrateTypeStep, ReadinessInvStep, LifecycleMovesReadiness, ProcessTypeOKStep,
     FlagsTypeOKStep DEF ReadinessInv
<1>3. Inv => LifecycleTypeOK
  BY DEF ReadinessInv, ProcessTypeOK, FlagsTypeOK, LifecycleTypeOK, Booting, Closing
<1> QED BY <1>1, <1>2, <1>3, PTL DEF LifecycleSpec

(***************************************************************************)
(* run: what its order of steps is for                                     *)
(***************************************************************************)

(* The boot: nothing is served before the schema and the load.             *)
ServingInv ==
    /\ main \in {"coldstart", "coldstarted", "serving"} => loaded
    /\ AutoMigrate /\ main \in {"redis", "load", "coldstart", "coldstarted", "serving"}
         => schema = Versions
    /\ RequestsFollowBoot

(* The shutdown: the gate closes with the end of serving, and a request    *)
(* that is not over when the drain is was given up by the grace period.    *)
ShutdownInv ==
    /\ Booting => grace = "unused"
    /\ main \in {"drain", "stopWorkers", "stopping", "wait"} => grace # "unused"
    /\ ready => main = "serving"
    /\ request = "running" => main = "serving" \/ (Unwinding /\ grace # "unused")
    /\ Closing /\ grace = "running" => request # "running"

(* The pool: each connection that is out belongs to a goroutine, and the   *)
(* watcher outlives its listening goroutine.                               *)
Held(g, place) == IF at[g] = place THEN 1 ELSE 0

PoolInv ==
    /\ conns = Held("watcher", "reloading") + Held("listen", "listening")
    /\ main \in {"off", "migrate", "redis", "load"} =>
         at["watcher"] = "none" /\ at["listen"] = "none"
    /\ at["watcher"] = "ended" => at["listen"] = "ended"

(* Steps that leave alone what ServingInv is about. *)
LEMMA ServingFrame ==
  ASSUME ServingInv, UNCHANGED <<main, loaded, schema>>,
         request' = "running" => request = "running"
  PROVE  ServingInv'
BY DEF ServingInv, RequestsFollowBoot

LEMMA ServingInvStep ==
  ASSUME MigrationsInv, ServingInv, ShutdownInv, [LifecycleNext]_allVars
  PROVE  ServingInv'
<1> USE DEF ServingInv, RequestsFollowBoot
<1>1. CASE Boot
  BY <1>1 DEF Boot, readinessVars, outsideVars, migrateVars, dbVars
<1>2. CASE Migrates
  BY <1>2 DEF Migrates, processVars, mainVars, outsideVars, readinessVars, ShutdownInv, Unwinding
<1>3. CASE MigrationsEnd
  BY <1>3 DEF MigrationsEnd, Main, AfterFailedUp, MigrationsInv, AdoptionInv, outsideVars,
     readinessVars, migrateVars, dbVars
<1>4. CASE ConnectRedis \/ Drained \/ WorkersStopped \/ WaitGroup \/ CloseRedis \/ LoadSchedule
  BY <1>4 DEF ConnectRedis, LoadSchedule, Drained, WorkersStopped, WaitGroup, CloseRedis, Main,
     outsideVars, readinessVars, migrateVars, dbVars
<1>5. CASE ColdStart
  BY <1>5 DEF ColdStart, PublishBuffer, StorePointer, readinessVars, outsideVars, dbVars
<1>6. CASE StartServing
  BY <1>6 DEF StartServing, migrateVars, dbVars
<1>7. CASE LeaveSelect \/ StopWorkers
  BY <1>7 DEF LeaveSelect, ReadyAfterSelect, StopWorkers, outsideVars, readinessVars,
     migrateVars, dbVars
<1>8. CASE ClosePool \/ Crash
  BY <1>8 DEF ClosePool, Crash, Gone, InMemory, ReadinessReset
<1>9. CASE ReloadCalled \/ WatcherStep \/ ListenBegins \/ ListenBreaks \/ ListenStops
           \/ RefreshStops \/ ClassifierStops
  BY <1>9, ServingFrame DEF ReloadCalled, WatcherStep, ListenBegins, ListenBreaks, ListenStops,
     RefreshStops, ClassifierStops, Move, mainVars, outsideVars, readinessVars, dbVars
<1>10. CASE RefreshPublishes
  BY <1>10, ServingFrame DEF RefreshPublishes, PublishBuffer, StorePointer, outsideVars,
     migrateVars, dbVars
<1>11. CASE SwapGoesOn \/ Probing
  BY <1>11, ServingFrame DEF SwapGoesOn, SwapContinues, StoreSignalCount, StoreStaleCount,
     StoreLatch, Probing, processVars, mainVars, outsideVars, migrateVars, dbVars
<1>12. CASE Signal \/ GraceExpires \/ Listens \/ RequestEnds \/ WorkersMove \/ WorkersDrained
            \/ CloseListener
  BY <1>12, ServingFrame DEF Signal, GraceExpires, Listens, RequestEnds, WorkersMove,
     WorkersDrained, CloseListener, Outside, readinessVars, mainVars, outsideVars, migrateVars, dbVars
<1>13. CASE RequestBegins
  BY <1>13 DEF RequestBegins, Outside, readinessVars, dbVars, ShutdownInv
<1>14. CASE UNCHANGED allVars
  BY <1>14, ServingFrame DEF allVars, processVars, mainVars, outsideVars, readinessVars,
     migrateVars, dbVars
<1> QED
  BY <1>1, <1>2, <1>3, <1>4, <1>5, <1>6, <1>7, <1>8, <1>9, <1>10, <1>11, <1>12, <1>13, <1>14
     DEF LifecycleNext, MainStep

(* Steps that move neither main nor the grace period and begin no request. *)
LEMMA ShutdownFrame ==
  ASSUME ShutdownInv, UNCHANGED <<main, grace, ready>>,
         request' = "running" => request = "running"
  PROVE  ShutdownInv'
BY DEF ShutdownInv, Booting, Closing, Unwinding

LEMMA ProbeKeepsReady == ASSUME ProbeStep PROVE ready' = ready
BY DEF ProbeStep, ProbeStarts, ProbeLoadsCount, AnswersNoSeatData, AnswersUnavailable,
   AnswersStale, AnswersReady, Answers

LEMMA ShutdownInvStep ==
  ASSUME ProcessTypeOK, ShutdownInv, [LifecycleNext]_allVars
  PROVE  ShutdownInv'
<1>1. CASE Boot
  BY <1>1 DEF Boot, readinessVars, outsideVars, ShutdownInv, Booting, Closing, Unwinding
<1>2. CASE Migrates \/ CloseListener \/ UNCHANGED allVars
  BY <1>2, ShutdownFrame DEF Migrates, CloseListener, allVars, processVars, mainVars,
     outsideVars, readinessVars
<1>3. CASE MigrationsEnd \/ ConnectRedis \/ LoadSchedule
  BY <1>3 DEF MigrationsEnd, ConnectRedis, LoadSchedule, Main, AfterFailedUp, outsideVars,
     readinessVars, ShutdownInv, Booting, Closing, Unwinding
<1>4. CASE ColdStart \/ StartServing
  BY <1>4 DEF ColdStart, PublishBuffer, StorePointer, StartServing, outsideVars,
     readinessVars, ShutdownInv, Booting, Closing, Unwinding
<1>5. CASE LeaveSelect
  BY <1>5 DEF LeaveSelect, ReadyAfterSelect, outsideVars, ShutdownInv, Booting, Closing, Unwinding
<1>6. CASE Drained
  BY <1>6 DEF Drained, DrainOver, Answering, Main, readinessVars, outsideVars, ShutdownInv,
     Booting, Closing, Unwinding
<1>7. CASE StopWorkers
  BY <1>7 DEF StopWorkers, readinessVars, ShutdownInv, Booting, Closing, Unwinding
<1>8. CASE WorkersStopped \/ WaitGroup \/ CloseRedis
  BY <1>8 DEF WorkersStopped, WaitGroup, CloseRedis, Main, readinessVars, outsideVars,
     ShutdownInv, Booting, Closing, Unwinding
<1>9. CASE ClosePool \/ Crash
  BY <1>9 DEF ClosePool, Crash, Gone, ReadinessReset, InMemory, ShutdownInv, Booting,
     Closing, Unwinding
<1>10. CASE ReloadCalled \/ WatcherStep \/ ListenBegins \/ ListenBreaks \/ ListenStops
            \/ RefreshStops \/ ClassifierStops
  BY <1>10, ShutdownFrame DEF ReloadCalled, WatcherStep, ListenBegins, ListenBreaks, ListenStops,
     RefreshStops, ClassifierStops, Move, mainVars, outsideVars, readinessVars
<1>11. CASE RefreshPublishes \/ SwapGoesOn
  BY <1>11, ShutdownFrame DEF RefreshPublishes, PublishBuffer, StorePointer, SwapGoesOn,
     SwapContinues, StoreSignalCount, StoreStaleCount, StoreLatch, processVars, mainVars,
     outsideVars
<1>12. CASE Probing
  BY <1>12, ProbeKeepsReady, ShutdownFrame DEF Probing, processVars, mainVars, outsideVars
<1>13. CASE Signal \/ Listens \/ RequestEnds \/ WorkersMove \/ WorkersDrained
  BY <1>13, ShutdownFrame DEF Signal, Listens, RequestEnds, WorkersMove, WorkersDrained, Outside,
     readinessVars
<1>14. CASE RequestBegins
  <2>1. main = "serving" /\ UNCHANGED <<main, grace, ready>>
    BY <1>14 DEF RequestBegins, Outside, readinessVars, ShutdownInv
  <2> QED BY <2>1 DEF ShutdownInv, Booting, Closing, Unwinding
<1>15. CASE GraceExpires
  BY <1>15 DEF GraceExpires, Outside, outsideVars, readinessVars, ShutdownInv, Booting,
     Closing, Unwinding
<1> QED
  BY <1>1, <1>2, <1>3, <1>4, <1>5, <1>6, <1>7, <1>8, <1>9, <1>10, <1>11, <1>12, <1>13, <1>14,
     <1>15 DEF LifecycleNext, MainStep

LEMMA PoolInvStep ==
  ASSUME ProcessTypeOK, PoolInv, [LifecycleNext]_allVars
  PROVE  PoolInv'
<1> USE DEF PoolInv, Held
<1>0. /\ "watcher" \in Goroutines /\ "listen" \in Goroutines
      /\ at \in [Goroutines -> Places] /\ conns \in Int
  BY DEF Goroutines, ProcessTypeOK
<1>1. CASE Boot \/ MigrationsEnd \/ ConnectRedis
  BY <1>1 DEF Boot, MigrationsEnd, ConnectRedis, Main, AfterFailedUp, routineVars
<1>2. CASE Migrates \/ CloseListener \/ UNCHANGED allVars
  BY <1>2 DEF Migrates, CloseListener, allVars, processVars, mainVars, routineVars
<1>3. CASE LoadSchedule
  BY <1>0, <1>3 DEF LoadSchedule, Main, routineVars
<1>4. CASE ColdStart \/ LeaveSelect \/ Drained \/ StopWorkers \/ WorkersStopped \/ WaitGroup
           \/ CloseRedis
  BY <1>4 DEF ColdStart, LeaveSelect, Drained, StopWorkers, WorkersStopped, WaitGroup,
     CloseRedis, Main, routineVars
<1>5. CASE StartServing
  BY <1>0, <1>5 DEF StartServing
<1>6. CASE ClosePool \/ Crash
  BY <1>6 DEF ClosePool, Crash, Gone, InMemory, Goroutines
<1>7. CASE ReloadCalled \/ WatcherStep
  BY <1>0, <1>7 DEF ReloadCalled, WatcherStep, Move, mainVars
<1>8. CASE ListenBegins \/ ListenBreaks \/ ListenStops
  BY <1>0, <1>8 DEF ListenBegins, ListenBreaks, ListenStops, ReleasedByBreak, Move, mainVars
<1>9. CASE RefreshStops \/ ClassifierStops
  BY <1>0, <1>9 DEF RefreshStops, ClassifierStops, Move, mainVars
<1>10. CASE RefreshPublishes \/ SwapGoesOn \/ Probing
  BY <1>10 DEF RefreshPublishes, SwapGoesOn, Probing, processVars, mainVars, routineVars
<1>11. CASE Signal \/ GraceExpires \/ Listens \/ RequestBegins \/ RequestEnds \/ WorkersMove
            \/ WorkersDrained
  BY <1>11 DEF Signal, GraceExpires, Listens, RequestBegins, RequestEnds, WorkersMove,
     WorkersDrained, Outside, routineVars
<1> QED
  BY <1>1, <1>2, <1>3, <1>4, <1>5, <1>6, <1>7, <1>8, <1>9, <1>10, <1>11
     DEF LifecycleNext, MainStep

(* What needs no trust in the database, and what does. *)
ProcessInv == ProcessTypeOK /\ ShutdownInv /\ PoolInv

DataInv == MigrationsInv /\ ServingInv

LEMMA ProcessInvariant == LifecycleSpec => []ProcessInv
<1>1. LifecycleInit => ProcessInv
  <2> SUFFICES ASSUME LifecycleInit PROVE ProcessInv
    OBVIOUS
  <2>1. ShutdownInv
    BY DEF LifecycleInit, ReadinessInit, ShutdownInv, Booting, Closing, Unwinding
  <2>2. PoolInv
    BY DEF LifecycleInit, PoolInv, Held, Goroutines
  <2> QED BY <2>1, <2>2, ProcessTypeOKInit DEF ProcessInv
<1>2. ProcessInv /\ [LifecycleNext]_allVars => ProcessInv'
  BY ProcessTypeOKStep, ShutdownInvStep, PoolInvStep DEF ProcessInv
<1> QED BY <1>1, <1>2, PTL DEF LifecycleSpec

(* main.go:6-7: the gate lets requests in after the migrations and the     *)
(* load, over any number of boots, crashes and half-done migrations; what  *)
(* they find there may be empty.                                           *)
THEOREM RequestsAlwaysFollowBoot ==
  ASSUME DatabasesTrusted
  PROVE  LifecycleSpec => []RequestsFollowBoot
<1>1. LifecycleInit => DataInv
  BY MigrationsInvInit DEF LifecycleInit, DataInv, ServingInv, RequestsFollowBoot
<1>2. ProcessInv /\ DataInv /\ [LifecycleNext]_allVars => DataInv'
  BY MigrationsInvStep, ServingInvStep DEF ProcessInv, DataInv
<1>3. DataInv => RequestsFollowBoot
  BY DEF DataInv, ServingInv
<1> QED BY <1>1, <1>2, <1>3, ProcessInvariant, PTL DEF LifecycleSpec

(* The server is drained once and for all (main.go: the order of the       *)
(* shutdown): a request that runs later outlived the grace period.         *)
THEOREM DrainIsForGood == LifecycleSpec => []DrainedForGood
<1>1. ProcessInv => DrainedForGood
  BY DEF ProcessInv, ShutdownInv, ProcessTypeOK, DrainedForGood, Unwinding, Closing
<1> QED BY <1>1, ProcessInvariant, PTL

(* When the wait group is through, every connection is back in the pool,   *)
(* so its Close does not wait (watcher.go: the watcher waits for its       *)
(* listening goroutine, which releases before it acquires again).          *)
THEOREM PoolIsFullAgain == LifecycleSpec => [](RoutinesEnded => conns = 0)
<1>1. ProcessInv => (RoutinesEnded => conns = 0)
  BY DEF ProcessInv, PoolInv, Held, RoutinesEnded, Goroutines
<1> QED BY <1>1, ProcessInvariant, PTL
==============================================================================
