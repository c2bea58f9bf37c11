---------------------------- MODULE SeatSyncProofs ----------------------------
(***************************************************************************)
(* The syncer loses no change, for every number of trips, chunk and batch  *)
(* size, stream cap and length of history, as long as two things that do   *)
(* lose changes are excluded: a resync that fails after it moved the       *)
(* cursor, and a first cold start on an empty stream.  It implements what  *)
(* SeatMirror promises the readers of the buffer, whatever fails, and its  *)
(* full scans keep their distance.                                         *)
(***************************************************************************)
EXTENDS SeatSync, SequenceTheorems, TLAPS

(***************************************************************************)
(* The inductive invariant                                                 *)
(***************************************************************************)

(* MAXLEN never empties the stream, and an announced trip has a map. *)
StoreInv ==
    /\ StoreTypeOK
    /\ trimmed < Len(stream)
    /\ \A i \in 1..Len(stream) : version[stream[i]] >= 1
    /\ seeding # NoTrip => version[seeding] >= 1

(* The part of the syncer's type the argument needs. *)
SyncerType ==
    /\ known \subseteq Trips /\ keys \subseteq Trips /\ todo \subseteq Trips
    /\ covered \subseteq Trips
    /\ buffer \in [Trips -> Nat] /\ staging \in [Trips -> Nat]
    /\ cursor \in 0..Len(stream) /\ lastID \in 0..Len(stream)
    /\ pc \in {"head", "snapshot", "read", "lagcheck", "throttle", "deltas"}
    /\ mode \in {"boot", "resync"}

(* The buffer speaks for no trip before the first cold start is over, and  *)
(* by then the cursor has left "0", which lagged() never reports.          *)
CoverInv ==
    /\ covered # {} => cursor >= 1
    /\ mode = "boot" /\ pc \in {"head", "snapshot"} => covered = {}

(* A scan in progress: what changed after it was read is still announced.  *)
SnapshotInv ==
    pc = "snapshot" =>
        /\ cursor >= 1
        /\ \A t \in keys \ todo : staging[t] = version[t] \/ Pending(t)

(* The batch being applied has every entry up to lastID. *)
BatchInv ==
    pc \in {"lagcheck", "deltas"} =>
        /\ lastID >= 1 /\ cursor <= lastID
        /\ \A t \in keys : version[t] >= 1
        /\ pc = "lagcheck" =>
             \A i \in cursor + 1 .. lastID : i > trimmed => stream[i] \in keys
        /\ pc = "deltas" /\ covered # {} =>
             \A i \in cursor + 1 .. lastID : stream[i] \in keys

(* A delta in progress: what changed after it was read is announced after  *)
(* the batch.                                                              *)
DeltasInv ==
    pc = "deltas" =>
        \A t \in keys \ todo :
            staging[t] >= 1 /\ (staging[t] = version[t] \/ Announced(t, lastID))

StagingInv ==
    pc \in {"snapshot", "deltas"} =>
        todo \subseteq keys /\ \A t \in Trips \ keys : staging[t] = NoSignal

SyncInv ==
    /\ StoreInv /\ SyncerType
    /\ NoDeltaLost
    /\ CoverInv /\ SnapshotInv /\ BatchInv /\ DeltasInv /\ StagingInv

LEMMA BoundTypes ==
    /\ NoTrip \notin Trips /\ StreamCap \in Nat \ {0} /\ OldEntries \in Seq(Trips)
    /\ MGetChunk \in Nat \ {0} /\ StreamBatch \in Nat \ {0}
BY StoreAssumption, SyncAssumption

(***************************************************************************)
(* Writers                                                                 *)
(***************************************************************************)

(* Appending keeps the history, and keeps the last entry. *)
LEMMA XAddFacts ==
    ASSUME StoreTypeOK, NEW t \in Trips, XAdd(t)
    PROVE  /\ stream' \in Seq(Trips)
           /\ Len(stream') = Len(stream) + 1
           /\ \A i \in 1..Len(stream) : stream'[i] = stream[i]
           /\ stream'[Len(stream) + 1] = t
           /\ trimmed' \in 0..Len(stream')
           /\ trimmed' >= trimmed
           /\ trimmed < Len(stream) => trimmed' < Len(stream')
<1>1. stream \in Seq(Trips) /\ trimmed \in 0..Len(stream) /\ Len(stream) \in Nat
  BY DEF StoreTypeOK
<1>2. stream' = Append(stream, t)
  BY DEF XAdd
<1>3. /\ stream' \in Seq(Trips)
      /\ Len(stream') = Len(stream) + 1
      /\ \A i \in 1..Len(stream) : stream'[i] = stream[i]
      /\ stream'[Len(stream) + 1] = t
  BY <1>1, <1>2
<1>4. /\ trimmed' \in trimmed..Len(stream')
      /\ trimmed' = trimmed \/ Len(stream') - trimmed' >= StreamCap
  BY DEF XAdd
<1> QED BY <1>1, <1>3, <1>4, BoundTypes

(* What a write does to the quantities the syncer's invariant speaks of:   *)
(* announcements stay, and a map that changes is announced beyond every    *)
(* position that existed before.                                           *)
WriteEffect ==
    /\ StoreInv'
    /\ Len(stream') \in Nat /\ Len(stream') >= Len(stream)
    /\ trimmed' >= trimmed
    /\ \A i \in 1..Len(stream) : stream'[i] = stream[i]
    /\ \A t \in Trips : version'[t] >= version[t]
    /\ \A t \in Trips, n \in 0..Len(stream) : Announced(t, n) => Announced(t, n)'
    /\ \A t \in Trips : version'[t] = version[t] \/ \A n \in 0..Len(stream) : Announced(t, n)'

(* Announcements survive a longer stream, and the seeder's own XADD. *)
LEMMA AnnouncedStays ==
    ASSUME Len(stream) \in Nat, Len(stream') \in Nat, Len(stream') >= Len(stream),
           \A i \in 1..Len(stream) : stream'[i] = stream[i],
           \/ seeding' = seeding
           \/ Len(stream') = Len(stream) + 1 /\ stream'[Len(stream) + 1] = seeding
           \/ seeding = NoTrip
    PROVE  \A t \in Trips, n \in 0..Len(stream) : Announced(t, n) => Announced(t, n)'
<1> SUFFICES ASSUME NEW t \in Trips, NEW n \in 0..Len(stream), Announced(t, n)
             PROVE  Announced(t, n)'
  OBVIOUS
<1>1. Announced(t, n)' <=> \/ \E i \in n + 1 .. Len(stream') : stream'[i] = t
                           \/ seeding' = t
  BY DEF Announced
<1>2. CASE seeding = t
  <2>1. t # NoTrip
    BY BoundTypes
  <2>2. CASE seeding' = seeding
    BY <1>1, <1>2, <2>2
  <2>3. CASE Len(stream') = Len(stream) + 1 /\ stream'[Len(stream) + 1] = seeding
    <3>1. Len(stream) + 1 \in n + 1 .. Len(stream')
      BY <2>3
    <3> QED BY <1>1, <1>2, <2>3, <3>1
  <2> QED BY <1>2, <2>1, <2>2, <2>3
<1>3. CASE \E i \in n + 1 .. Len(stream) : stream[i] = t
  <2>1. PICK i \in n + 1 .. Len(stream) : stream[i] = t
    BY <1>3
  <2>2. i \in 1..Len(stream) /\ i \in n + 1 .. Len(stream')
    OBVIOUS
  <2> QED BY <1>1, <2>1, <2>2
<1> QED BY <1>2, <1>3 DEF Announced

(* Every announced trip still has a map. *)
LEMMA AnnouncedHaveMaps ==
    ASSUME StoreInv,
           version' \in [Trips -> Nat], \A u \in Trips : version'[u] >= version[u],
           Len(stream') = Len(stream) + 1,
           \A i \in 1..Len(stream) : stream'[i] = stream[i],
           stream'[Len(stream) + 1] \in Trips,
           version'[stream'[Len(stream) + 1]] >= 1
    PROVE  \A i \in 1..Len(stream') : version'[stream'[i]] >= 1
<1>1. Len(stream) \in Nat /\ \A i \in 1..Len(stream) : stream[i] \in Trips
  BY DEF StoreInv, StoreTypeOK
<1>2. version \in [Trips -> Nat]
  BY DEF StoreInv, StoreTypeOK
<1> SUFFICES ASSUME NEW i \in 1..Len(stream') PROVE version'[stream'[i]] >= 1
  OBVIOUS
<1>3. CASE i = Len(stream) + 1
  BY <1>3
<1>4. CASE i \in 1..Len(stream)
  <2>1. stream'[i] = stream[i] /\ stream[i] \in Trips
    BY <1>1, <1>4
  <2>2. version[stream[i]] >= 1
    BY <1>4 DEF StoreInv
  <2>3. version'[stream[i]] >= version[stream[i]]
    BY <2>1
  <2>4. version[stream[i]] \in Nat /\ version'[stream[i]] \in Nat
    BY <1>2, <2>1
  <2> QED BY <2>1, <2>2, <2>3, <2>4
<1> QED BY <1>1, <1>3, <1>4

LEMMA WriterFacts ==
    ASSUME StoreInv, Writers
    PROVE  WriteEffect
<1>0. /\ stream \in Seq(Trips) /\ Len(stream) \in Nat
      /\ trimmed \in 0..Len(stream)
      /\ version \in [Trips -> Nat]
      /\ \A i \in 1..Len(stream) : stream[i] \in Trips
  BY DEF StoreInv, StoreTypeOK
<1>1. ASSUME NEW t \in Trips, NEW m \in SeatMaps, seatHash[t] # m, StoreMap(t),
             seatHash' = [seatHash EXCEPT ![t] = m], XAdd(t), UNCHANGED seeding
      PROVE  WriteEffect
  <2>1. /\ stream' \in Seq(Trips) /\ Len(stream') = Len(stream) + 1
        /\ \A i \in 1..Len(stream) : stream'[i] = stream[i]
        /\ stream'[Len(stream) + 1] = t
        /\ trimmed' \in 0..Len(stream') /\ trimmed' >= trimmed
        /\ trimmed' < Len(stream')
    BY <1>1, XAddFacts DEF StoreInv
  <2>2. /\ version' \in [Trips -> Nat] /\ version'[t] = version[t] + 1
        /\ \A u \in Trips \ {t} : version'[u] = version[u]
    BY <1>0, <1>1 DEF StoreMap
  <2>3. StoreTypeOK'
    BY <1>1, <2>1, <2>2 DEF StoreInv, StoreTypeOK, StoreMap
  <2>4. \A u \in Trips : version'[u] >= version[u]
    BY <1>0, <2>2
  <2>5. \A i \in 1..Len(stream') : version'[stream'[i]] >= 1
    <3>1. version'[t] >= 1
      BY <1>0, <2>2
    <3> QED BY <2>1, <2>2, <2>4, <3>1, AnnouncedHaveMaps
  <2>6. seeding' # NoTrip => version'[seeding'] >= 1
    <3>1. seeding' = seeding /\ seeding \in Trips \cup {NoTrip}
      BY <1>1 DEF StoreInv, StoreTypeOK
    <3>2. seeding # NoTrip => seeding \in Trips /\ version[seeding] >= 1
      BY <3>1 DEF StoreInv
    <3> QED BY <1>0, <2>2, <2>4, <3>1, <3>2
  <2>7. \A u \in Trips, n \in 0..Len(stream) : Announced(u, n) => Announced(u, n)'
    BY <1>0, <1>1, <2>1, AnnouncedStays
  <2>8. \A n \in 0..Len(stream) : Announced(t, n)'
    <3> SUFFICES ASSUME NEW n \in 0..Len(stream) PROVE Announced(t, n)'
      OBVIOUS
    <3>1. Len(stream) + 1 \in n + 1 .. Len(stream')
      BY <1>0, <2>1
    <3> QED BY <2>1, <3>1 DEF Announced
  <2>9. \A u \in Trips : version'[u] = version[u] \/ \A n \in 0..Len(stream) : Announced(u, n)'
    BY <2>2, <2>8
  <2>10. StoreInv'
    BY <2>1, <2>3, <2>5, <2>6 DEF StoreInv
  <2> QED BY <1>0, <2>1, <2>4, <2>7, <2>9, <2>10 DEF WriteEffect
<1>2. ASSUME NEW t \in Trips, SeedMap(t)
      PROVE  WriteEffect
  <2>1. /\ version' \in [Trips -> Nat] /\ version'[t] = version[t] + 1
        /\ \A u \in Trips \ {t} : version'[u] = version[u]
        /\ stream' = stream /\ trimmed' = trimmed
        /\ seeding = NoTrip /\ seeding' = t
    BY <1>0, <1>2 DEF SeedMap, StoreMap
  <2>2. StoreTypeOK'
    BY <1>2, <2>1 DEF StoreInv, StoreTypeOK, SeedMap, StoreMap
  <2>3. \A u \in Trips : version'[u] >= version[u]
    BY <1>0, <2>1
  <2>4. \A u \in Trips, n \in 0..Len(stream) : Announced(u, n) => Announced(u, n)'
    BY <1>0, <2>1, AnnouncedStays
  <2>5. \A u \in Trips : version'[u] = version[u] \/ \A n \in 0..Len(stream) : Announced(u, n)'
    BY <2>1 DEF Announced
  <2>6. \A i \in 1..Len(stream') : version'[stream'[i]] >= 1
    <3> SUFFICES ASSUME NEW i \in 1..Len(stream) PROVE version'[stream[i]] >= 1
      BY <2>1
    <3>1. stream[i] \in Trips /\ version[stream[i]] >= 1
      BY <1>0 DEF StoreInv
    <3> QED BY <1>0, <2>1, <2>3, <3>1
  <2>7. trimmed' < Len(stream')
    BY <2>1 DEF StoreInv
  <2>8. version'[seeding'] >= 1
    BY <1>0, <2>1
  <2>9. StoreInv'
    BY <2>2, <2>6, <2>7, <2>8 DEF StoreInv
  <2> QED BY <1>0, <2>1, <2>3, <2>4, <2>5, <2>9 DEF WriteEffect
<1>3. ASSUME SeedAnnounce
      PROVE  WriteEffect
  <2>1. /\ seeding \in Trips /\ XAdd(seeding) /\ seeding' = NoTrip
        /\ version' = version /\ seatHash' = seatHash
        /\ version[seeding] >= 1
    BY <1>3 DEF SeedAnnounce, StoreInv, StoreTypeOK
  <2>2. /\ stream' \in Seq(Trips) /\ Len(stream') = Len(stream) + 1
        /\ \A i \in 1..Len(stream) : stream'[i] = stream[i]
        /\ stream'[Len(stream) + 1] = seeding
        /\ trimmed' \in 0..Len(stream') /\ trimmed' >= trimmed
        /\ trimmed' < Len(stream')
    BY <2>1, XAddFacts DEF StoreInv
  <2>3. StoreTypeOK'
    BY <2>1, <2>2 DEF StoreInv, StoreTypeOK
  <2>4. \A u \in Trips : version'[u] >= version[u]
    BY <1>0, <2>1
  <2>5. \A i \in 1..Len(stream') : version'[stream'[i]] >= 1
    BY <1>0, <2>1, <2>2, <2>4, AnnouncedHaveMaps
  <2>6. \A u \in Trips, n \in 0..Len(stream) : Announced(u, n) => Announced(u, n)'
    <3>1. Len(stream') \in Nat /\ Len(stream') >= Len(stream)
      BY <1>0, <2>2
    <3> QED BY <1>0, <2>2, <3>1, AnnouncedStays
  <2>7. StoreInv'
    BY <2>1, <2>2, <2>3, <2>5 DEF StoreInv
  <2> QED BY <1>0, <2>1, <2>2, <2>4, <2>6, <2>7 DEF WriteEffect
<1>4. ASSUME UNCHANGED storeVars
      PROVE  WriteEffect
  <2>1. /\ stream' = stream /\ trimmed' = trimmed /\ version' = version
        /\ seeding' = seeding /\ seatHash' = seatHash
    BY <1>4 DEF storeVars
  <2>2. StoreInv'
    BY <2>1 DEF StoreInv, StoreTypeOK
  <2>3. \A u \in Trips, n \in 0..Len(stream) : Announced(u, n) => Announced(u, n)'
    BY <1>0, <2>1, AnnouncedStays
  <2> QED BY <1>0, <2>1, <2>2, <2>3 DEF WriteEffect
<1>5. CASE SeedAnnounce
  BY <1>3, <1>5
<1>6. ASSUME NEW t \in Trips, NEW m \in SeatMaps, Gate(t, m)
      PROVE  \/ seatHash[t] # m /\ StoreMap(t) /\ XAdd(t) /\ UNCHANGED seeding
                /\ seatHash' = [seatHash EXCEPT ![t] = m]
             \/ UNCHANGED storeVars
  BY <1>6 DEF Gate, storeVars
<1>7. CASE \E t \in Trips : SeedMap(t) \/ \E m \in SeatMaps : Gate(t, m)
  <2>1. PICK t \in Trips : SeedMap(t) \/ \E m \in SeatMaps : Gate(t, m)
    BY <1>7
  <2>2. CASE SeedMap(t)
    BY <1>2, <2>2
  <2>3. ASSUME NEW m \in SeatMaps, Gate(t, m) PROVE WriteEffect
    BY <1>1, <1>4, <1>6, <2>3
  <2> QED BY <2>1, <2>2, <2>3
<1> QED BY <1>5, <1>7 DEF Writers

(***************************************************************************)
(* The invariant holds initially                                           *)
(***************************************************************************)

LEMMA SyncInvInit == ASSUME OldEntries # <<>>, Init PROVE SyncInv
<1>1. stream = OldEntries /\ trimmed = 0 /\ seeding = NoTrip /\ Len(stream) >= 1
      /\ Len(stream) \in Nat
  BY BoundTypes DEF Init, StoreInit
<1>2. \A i \in 1..Len(stream) : version[stream[i]] >= 1
  <2> SUFFICES ASSUME NEW i \in 1..Len(stream) PROVE version[stream[i]] >= 1
    OBVIOUS
  <2>1. stream[i] \in Trips /\ stream[i] \in {OldEntries[j] : j \in DOMAIN OldEntries}
    BY <1>1, BoundTypes
  <2> QED BY <2>1 DEF Init, StoreInit
<1>3. StoreInv
  BY <1>1, <1>2, BoundTypes DEF Init, StoreInit, StoreInv, StoreTypeOK
<1>4. SyncerType
  BY <1>1 DEF Init, SyncerType, Empty, NoSignal
<1>5. NoDeltaLost /\ CoverInv /\ SnapshotInv /\ BatchInv /\ DeltasInv /\ StagingInv
  BY DEF Init, NoDeltaLost, CoverInv, SnapshotInv, BatchInv, DeltasInv, StagingInv
<1> QED BY <1>3, <1>4, <1>5 DEF SyncInv

(***************************************************************************)
(* Writers preserve the invariant                                          *)
(***************************************************************************)

LEMMA WritersPreserve == ASSUME SyncInv, Writers PROVE SyncInv'
<1>1. WriteEffect
  BY WriterFacts DEF SyncInv
<1>2. /\ known' = known /\ buffer' = buffer /\ cursor' = cursor /\ pc' = pc /\ mode' = mode
      /\ keys' = keys /\ todo' = todo /\ staging' = staging /\ lastID' = lastID
      /\ covered' = covered
  BY DEF Writers, syncVars
<1>3. /\ version \in [Trips -> Nat] /\ version' \in [Trips -> Nat]
      /\ Len(stream) \in Nat /\ Len(stream') \in Nat /\ Len(stream') >= Len(stream)
      /\ trimmed \in Nat /\ trimmed' \in Nat /\ trimmed' >= trimmed
      /\ StoreInv'
  BY <1>1 DEF WriteEffect, SyncInv, StoreInv, StoreTypeOK
<1>4. /\ cursor \in 0..Len(stream) /\ lastID \in 0..Len(stream)
      /\ keys \subseteq Trips /\ covered \subseteq Trips
  BY DEF SyncInv, SyncerType
<1>5. \A t \in Trips : Pending(t) => Pending(t)'
  BY <1>1, <1>2, <1>4 DEF WriteEffect, Pending, Announced
<1>6. \A t \in Trips : Announced(t, lastID) => Announced(t, lastID)'
  BY <1>1, <1>2, <1>4 DEF WriteEffect, Announced
<1>7. \A t \in Trips : version'[t] = version[t] \/ (Pending(t)' /\ Announced(t, lastID)')
  BY <1>1, <1>2, <1>4 DEF WriteEffect, Pending, Announced
<1>8. SyncerType'
  BY <1>2, <1>3 DEF SyncInv, SyncerType
<1>9. NoDeltaLost'
  BY <1>2, <1>4, <1>5, <1>7 DEF SyncInv, NoDeltaLost
<1>10. CoverInv' /\ StagingInv'
  BY <1>2 DEF SyncInv, CoverInv, StagingInv
<1>11. SnapshotInv'
  BY <1>2, <1>4, <1>5, <1>7 DEF SyncInv, SnapshotInv
<1>12. BatchInv'
  <2>1. \A t \in Trips : version[t] >= 1 => version'[t] >= 1
    BY <1>1, <1>3 DEF WriteEffect
  <2>2. \A i \in cursor + 1 .. lastID : stream'[i] = stream[i]
    BY <1>1, <1>4 DEF WriteEffect
  <2>3. \A i \in cursor + 1 .. lastID : i > trimmed' => i > trimmed
    BY <1>3, <1>4
  <2> QED BY <1>2, <1>4, <2>1, <2>2, <2>3 DEF SyncInv, BatchInv
<1>13. DeltasInv'
  BY <1>2, <1>4, <1>6, <1>7 DEF SyncInv, DeltasInv
<1> QED BY <1>3, <1>8, <1>9, <1>10, <1>11, <1>12, <1>13 DEF SyncInv

(***************************************************************************)
(* The syncer and its environment preserve the invariant                   *)
(***************************************************************************)

(* What a step that leaves Redis alone keeps. *)
LEMMA StoreUntouched ==
    ASSUME SyncInv, UNCHANGED storeVars
    PROVE  /\ StoreInv'
           /\ version' = version /\ stream' = stream /\ trimmed' = trimmed /\ seeding' = seeding
           /\ version \in [Trips -> Nat]
           /\ Len(stream) \in Nat /\ Len(stream) >= 1
           /\ trimmed \in Nat /\ trimmed < Len(stream)
           /\ \A i \in 1..Len(stream) : stream[i] \in Trips /\ version[stream[i]] >= 1
BY DEF SyncInv, StoreInv, StoreTypeOK, storeVars

LEMMA CaptureHeadPreserves == ASSUME SyncInv, CaptureHead PROVE SyncInv'
<1> USE DEF SyncInv
<1>0. UNCHANGED storeVars
  BY DEF CaptureHead
<1>1. /\ pc = "head" /\ pc' = "snapshot" /\ cursor' = Len(stream) /\ cursor' >= 1
      /\ keys' = known /\ todo' = known /\ staging' = Empty
      /\ known' = known /\ buffer' = buffer /\ mode' = mode /\ lastID' = lastID
      /\ covered' = covered
  BY <1>0, StoreUntouched DEF CaptureHead, StreamHead
<1>2. SyncerType'
  BY <1>0, <1>1, StoreUntouched DEF SyncerType, Empty, NoSignal
<1>3. NoDeltaLost'
  BY <1>1 DEF NoDeltaLost, CoverInv, SyncerType
<1>4. CoverInv' /\ SnapshotInv' /\ BatchInv' /\ DeltasInv' /\ StagingInv'
  BY <1>1 DEF CoverInv, SnapshotInv, BatchInv, DeltasInv, StagingInv, Empty
<1> QED BY <1>0, <1>2, <1>3, <1>4, StoreUntouched

LEMMA FetchChunkPreserves == ASSUME SyncInv, FetchChunk PROVE SyncInv'
<1> USE DEF SyncInv
<1>0. UNCHANGED storeVars
  BY DEF FetchChunk
<1>1. PICK chunk \in (SUBSET todo) \ {{}} :
         /\ todo' = todo \ chunk
         /\ staging' = [t \in Trips |-> IF t \in chunk THEN version[t] ELSE staging[t]]
  BY DEF FetchChunk
<1>2. /\ pc \in {"snapshot", "deltas"} /\ pc' = pc /\ cursor' = cursor /\ keys' = keys
      /\ known' = known /\ buffer' = buffer /\ mode' = mode /\ lastID' = lastID
      /\ covered' = covered
  BY DEF FetchChunk
<1>3. SyncerType'
  BY <1>0, <1>1, <1>2, StoreUntouched DEF SyncerType
<1>4. chunk \subseteq todo /\ todo \subseteq keys /\ keys \subseteq Trips
  BY <1>1, <1>2 DEF StagingInv, SyncerType
<1>5. \A t \in keys \ todo' : \/ staging'[t] = version[t]
                              \/ t \notin todo /\ staging'[t] = staging[t]
  BY <1>1, <1>4
<1>6. \A t \in Trips, n \in Nat : Announced(t, n)' <=> Announced(t, n)
  BY <1>0, StoreUntouched DEF Announced
<1>7. cursor \in Nat /\ lastID \in Nat
  BY <1>0, StoreUntouched DEF SyncerType
<1>8. NoDeltaLost'
  BY <1>0, <1>2, StoreUntouched DEF NoDeltaLost, Pending, Announced
<1>9. CoverInv' /\ BatchInv'
  BY <1>0, <1>2, StoreUntouched DEF CoverInv, BatchInv
<1>10. SnapshotInv'
  <2> SUFFICES ASSUME pc = "snapshot", NEW t \in keys \ todo'
               PROVE  staging'[t] = version[t] \/ Announced(t, cursor)
    BY <1>0, <1>2, <1>4, <1>6, <1>7, StoreUntouched DEF SnapshotInv, Pending
  <2> QED BY <1>5 DEF SnapshotInv, Pending
<1>11. DeltasInv'
  <2> SUFFICES ASSUME pc = "deltas", NEW t \in keys \ todo'
               PROVE  /\ staging'[t] >= 1
                      /\ staging'[t] = version[t] \/ Announced(t, lastID)
    BY <1>0, <1>2, <1>4, <1>6, <1>7, StoreUntouched DEF DeltasInv
  <2>1. version[t] >= 1
    BY DEF BatchInv
  <2> QED BY <1>5, <2>1 DEF DeltasInv
<1>12. StagingInv'
  BY <1>1, <1>2, <1>4 DEF StagingInv
<1> QED BY <1>0, <1>3, <1>8, <1>9, <1>10, <1>11, <1>12, StoreUntouched

LEMMA PublishSnapshotPreserves == ASSUME SyncInv, PublishSnapshot PROVE SyncInv'
<1> USE DEF SyncInv
<1>0. UNCHANGED storeVars
  BY DEF PublishSnapshot
<1>1. /\ pc = "snapshot" /\ todo = {} /\ pc' = "read"
      /\ buffer' = staging /\ covered' = keys /\ cursor' = cursor /\ known' = known
      /\ mode' = mode /\ keys' = {} /\ todo' = {} /\ staging' = Empty /\ lastID' = 0
  BY DEF PublishSnapshot, DropLocals, CursorAfterScan
<1>2. SyncerType'
  BY <1>0, <1>1, StoreUntouched DEF SyncerType, Empty, NoSignal
<1>3. NoDeltaLost'
  BY <1>0, <1>1, StoreUntouched DEF NoDeltaLost, SnapshotInv, Pending, Announced
<1>4. CoverInv' /\ SnapshotInv' /\ BatchInv' /\ DeltasInv' /\ StagingInv'
  BY <1>1 DEF CoverInv, SnapshotInv, BatchInv, DeltasInv, StagingInv
<1> QED BY <1>0, <1>2, <1>3, <1>4, StoreUntouched

LEMMA ColdStartFailsPreserves ==
    ASSUME ~SnapshotMayFail, SyncInv, ColdStartFails PROVE SyncInv'
<1> USE DEF SyncInv
<1>0. UNCHANGED storeVars
  BY DEF ColdStartFails
<1>1. /\ \/ pc = "head"
         \/ pc = "snapshot" /\ mode = "boot"
      /\ buffer' = buffer /\ covered' = covered /\ cursor' = cursor /\ known' = known
      /\ mode' = mode /\ keys' = {} /\ todo' = {} /\ staging' = Empty /\ lastID' = 0
  BY DEF ColdStartFails, DropLocals, SyncerType
<1>2. pc' = "read" \/ (pc' = "head" /\ mode = "boot")
  BY DEF ColdStartFails
<1>3. SyncerType'
  BY <1>0, <1>1, <1>2, StoreUntouched DEF SyncerType, Empty, NoSignal
<1>4. covered # {} => pc = "head"
  BY <1>1 DEF CoverInv
<1>5. NoDeltaLost'
  BY <1>0, <1>1, <1>2, <1>4, StoreUntouched DEF NoDeltaLost, Pending, Announced
<1>6. CoverInv'
  BY <1>1, <1>2 DEF CoverInv
<1>7. SnapshotInv' /\ BatchInv' /\ DeltasInv' /\ StagingInv'
  BY <1>2 DEF SnapshotInv, BatchInv, DeltasInv, StagingInv
<1> QED BY <1>0, <1>3, <1>5, <1>6, <1>7, StoreUntouched

LEMMA ReadStreamPreserves == ASSUME SyncInv, ReadStream PROVE SyncInv'
<1> USE DEF SyncInv
<1>0. UNCHANGED storeVars
  BY DEF ReadStream
<1> DEFINE from == IF cursor > trimmed THEN cursor ELSE trimmed
<1>1. /\ pc = "read" /\ pc' = "lagcheck" /\ from < Len(stream)
      /\ lastID' = Min(from + StreamBatch, Len(stream))
      /\ keys' = {stream[i] : i \in from + 1 .. lastID'}
      /\ buffer' = buffer /\ covered' = covered /\ cursor' = cursor /\ known' = known
      /\ mode' = mode /\ todo' = todo /\ staging' = staging
  BY DEF ReadStream, StreamHead, BatchEnd
<1>2. /\ from \in Nat /\ from >= cursor /\ cursor \in Nat
      /\ lastID' \in 1..Len(stream) /\ from <= lastID'
      /\ from = cursor \/ from = trimmed
  BY <1>0, <1>1, StoreUntouched, BoundTypes DEF Min, SyncerType
<1>3. \A t \in keys' : t \in Trips /\ version[t] >= 1
  <2> SUFFICES ASSUME NEW i \in from + 1 .. lastID'
               PROVE  stream[i] \in Trips /\ version[stream[i]] >= 1
    BY <1>1
  <2>1. i \in 1..Len(stream)
    BY <1>2, <1>0, StoreUntouched
  <2> QED BY <1>0, <2>1, StoreUntouched
<1>4. SyncerType'
  BY <1>0, <1>1, <1>2, <1>3, StoreUntouched DEF SyncerType
<1>5. NoDeltaLost'
  BY <1>0, <1>1, StoreUntouched DEF NoDeltaLost, Pending, Announced
<1>6. CoverInv' /\ SnapshotInv' /\ DeltasInv' /\ StagingInv'
  BY <1>1 DEF CoverInv, SnapshotInv, DeltasInv, StagingInv
<1>7. \A i \in cursor + 1 .. lastID' : i > trimmed => stream[i] \in keys'
  <2> SUFFICES ASSUME NEW i \in cursor + 1 .. lastID', i > trimmed PROVE i \in from + 1 .. lastID'
    BY <1>1
  <2> QED BY <1>0, <1>2, StoreUntouched
<1>8. BatchInv'
  BY <1>0, <1>1, <1>2, <1>3, <1>7, StoreUntouched DEF BatchInv
<1> QED BY <1>0, <1>4, <1>5, <1>6, <1>8, StoreUntouched

(* Also when the oldest entry cannot be read: what that costs is given up. *)
LEMMA LagCheckPreserves == ASSUME SyncInv, LagCheck \/ LagCheckFails PROVE SyncInv'
<1> USE DEF SyncInv
<1>0. UNCHANGED storeVars
  BY DEF LagCheck, LagCheckFails
<1>1. /\ pc = "lagcheck"
      /\ buffer' = buffer /\ covered' \in {covered, {}} /\ cursor' = cursor /\ known' = known
      /\ mode' = mode
  BY DEF LagCheck, LagCheckFails
<1>2. NoDeltaLost' /\ CoverInv'
  <2>1. pc' \in {"throttle", "deltas"}
    BY DEF LagCheck, LagCheckFails, ApplyBatch
  <2>2. NoDeltaLost'
    BY <1>0, <1>1, <2>1, StoreUntouched DEF NoDeltaLost, Pending, Announced
  <2> QED BY <1>1, <2>1, <2>2 DEF CoverInv
<1>3. CASE pc' = "throttle" /\ DropLocals
  <2>1. SyncerType'
    BY <1>0, <1>1, <1>3, StoreUntouched DEF SyncerType, DropLocals, Empty, NoSignal
  <2>2. SnapshotInv' /\ BatchInv' /\ DeltasInv' /\ StagingInv'
    BY <1>3 DEF SnapshotInv, BatchInv, DeltasInv, StagingInv
  <2> QED BY <1>0, <1>2, <2>1, <2>2, StoreUntouched
<1>4. CASE (covered' # {} => ~Lagged) /\ ApplyBatch /\ UNCHANGED <<keys, lastID>>
  <2>1. /\ pc' = "deltas" /\ todo' = keys /\ staging' = Empty /\ keys' = keys /\ lastID' = lastID
    BY <1>4 DEF ApplyBatch
  <2>2. SyncerType'
    BY <1>0, <1>1, <2>1, StoreUntouched DEF SyncerType, Empty, NoSignal
  <2>3. covered' # {} => covered # {} /\ trimmed < cursor
    BY <1>0, <1>1, <1>4, StoreUntouched DEF Lagged, CoverInv, SyncerType
  <2>4. BatchInv'
    <3>1. ASSUME covered' # {}, NEW i \in cursor + 1 .. lastID PROVE stream[i] \in keys
      <4>1. i > trimmed
        BY <1>0, <2>3, <3>1, StoreUntouched DEF SyncerType
      <4> QED BY <1>1, <4>1 DEF BatchInv
    <3> QED BY <1>0, <1>1, <2>1, <3>1, StoreUntouched DEF BatchInv
  <2>5. SnapshotInv' /\ DeltasInv' /\ StagingInv'
    BY <2>1 DEF SnapshotInv, DeltasInv, StagingInv, Empty
  <2> QED BY <1>0, <1>2, <2>2, <2>4, <2>5, StoreUntouched
<1> QED BY <1>3, <1>4 DEF LagCheck, LagCheckFails

LEMMA PublishDeltasPreserves == ASSUME SyncInv, PublishDeltas PROVE SyncInv'
<1> USE DEF SyncInv
<1>0. UNCHANGED storeVars
  BY DEF PublishDeltas
<1>1. /\ pc = "deltas" /\ todo = {} /\ pc' = "read"
      /\ buffer' = [t \in Trips |-> IF staging[t] # NoSignal THEN staging[t] ELSE buffer[t]]
      /\ covered' = covered \cup keys /\ cursor' = lastID /\ known' = known
      /\ mode' = mode /\ keys' = {} /\ todo' = {} /\ staging' = Empty /\ lastID' = 0
  BY DEF PublishDeltas, DropLocals, Merged
<1>2. SyncerType'
  BY <1>0, <1>1, StoreUntouched DEF SyncerType, Empty, NoSignal
<1>3. lastID >= 1 /\ keys \subseteq Trips /\ covered \subseteq Trips
      /\ lastID \in Nat /\ cursor \in Nat
  BY <1>0, <1>1, StoreUntouched DEF BatchInv, SyncerType
<1>4. ASSUME NEW t \in keys
      PROVE  buffer'[t] = version[t] \/ Announced(t, lastID)
  <2>1. staging[t] >= 1 /\ (staging[t] = version[t] \/ Announced(t, lastID))
    BY <1>1 DEF DeltasInv
  <2>2. buffer'[t] = staging[t]
    BY <1>1, <1>3, <2>1 DEF NoSignal
  <2> QED BY <2>1, <2>2
<1>5. ASSUME NEW t \in covered \ keys
      PROVE  buffer'[t] = version[t] \/ Announced(t, lastID)
  <2>1. buffer'[t] = buffer[t]
    BY <1>1, <1>3 DEF StagingInv
  <2>2. buffer[t] = version[t] \/ Announced(t, cursor)
    BY <1>1 DEF NoDeltaLost, Pending
  <2>3. ASSUME NEW i \in cursor + 1 .. Len(stream), stream[i] = t
        PROVE  i \in lastID + 1 .. Len(stream)
    <3>1. i \notin cursor + 1 .. lastID
      BY <1>1, <2>3 DEF BatchInv
    <3> QED BY <1>0, <1>3, <3>1, StoreUntouched
  <2>4. Announced(t, cursor) => Announced(t, lastID)
    BY <2>3 DEF Announced
  <2> QED BY <2>1, <2>2, <2>4
<1>6. NoDeltaLost'
  <2> SUFFICES ASSUME NEW t \in covered \cup keys
               PROVE  buffer'[t] = version[t] \/ Announced(t, lastID)
    BY <1>0, <1>1, StoreUntouched DEF NoDeltaLost, Pending, Announced
  <2> QED BY <1>4, <1>5
<1>7. CoverInv' /\ SnapshotInv' /\ BatchInv' /\ DeltasInv' /\ StagingInv'
  BY <1>1, <1>3 DEF CoverInv, SnapshotInv, BatchInv, DeltasInv, StagingInv
<1> QED BY <1>0, <1>2, <1>6, <1>7, StoreUntouched

(* A dropped batch, the wait for the throttle and the environment leave    *)
(* the cursor, the buffer and what it covers alone.                        *)
LEMMA QuietStepsPreserve ==
    ASSUME SyncInv, DeltasFail \/ StartResync \/ IntervalPasses \/ ScheduleSwap
    PROVE  SyncInv'
<1> USE DEF SyncInv
<1>0. UNCHANGED storeVars
  BY DEF DeltasFail, StartResync, IntervalPasses, ScheduleSwap
<1>1. /\ buffer' = buffer /\ covered' = covered /\ cursor' = cursor /\ known' \subseteq Trips
  BY DEF DeltasFail, StartResync, IntervalPasses, ScheduleSwap, SyncerType
<1>2. CASE DeltasFail \/ StartResync
  <2>1. /\ pc \in {"deltas", "throttle"}
        /\ (pc' = "read" /\ mode' = mode) \/ (pc' = "head" /\ mode' = "resync")
        /\ \/ keys' = {} /\ todo' = {} /\ staging' = Empty /\ lastID' = 0
           \/ keys' = keys /\ todo' = todo /\ staging' = staging /\ lastID' = lastID
    BY <1>2 DEF DeltasFail, StartResync, DropLocals, AfterThrottle
  <2>2. SyncerType'
    BY <1>0, <1>1, <2>1, StoreUntouched DEF SyncerType, Empty, NoSignal
  <2>3. NoDeltaLost'
    BY <1>0, <1>1, <2>1, StoreUntouched DEF NoDeltaLost, Pending, Announced
  <2>4. CoverInv' /\ SnapshotInv' /\ BatchInv' /\ DeltasInv' /\ StagingInv'
    BY <1>1, <2>1 DEF CoverInv, SnapshotInv, BatchInv, DeltasInv, StagingInv
  <2> QED BY <1>0, <2>2, <2>3, <2>4, StoreUntouched
<1>3. CASE IntervalPasses \/ ScheduleSwap
  <2>1. /\ pc' = pc /\ mode' = mode /\ keys' = keys /\ todo' = todo
        /\ staging' = staging /\ lastID' = lastID
    BY <1>3 DEF IntervalPasses, ScheduleSwap
  <2>2. SyncerType'
    BY <1>0, <1>1, <2>1, StoreUntouched DEF SyncerType
  <2>3. NoDeltaLost' /\ SnapshotInv' /\ DeltasInv'
    BY <1>0, <1>1, <2>1, StoreUntouched DEF NoDeltaLost, SnapshotInv, DeltasInv, Pending, Announced
  <2>4. CoverInv' /\ BatchInv' /\ StagingInv'
    BY <1>0, <1>1, <2>1, StoreUntouched DEF CoverInv, BatchInv, StagingInv
  <2> QED BY <1>0, <2>2, <2>3, <2>4, StoreUntouched
<1> QED BY <1>2, <1>3

LEMMA RestartPreserves == ASSUME SyncInv, Restart PROVE SyncInv'
<1> USE DEF SyncInv
<1>0. UNCHANGED storeVars
  BY DEF Restart
<1>1. /\ buffer' = Empty /\ covered' = {} /\ cursor' = 0 /\ known' = known
      /\ pc' = "head" /\ mode' = "boot"
      /\ keys' = {} /\ todo' = {} /\ staging' = Empty /\ lastID' = 0
  BY DEF Restart, BootState, DropLocals
<1>2. SyncerType'
  BY <1>0, <1>1, StoreUntouched DEF SyncerType, Empty, NoSignal
<1>3. NoDeltaLost' /\ CoverInv' /\ SnapshotInv' /\ BatchInv' /\ DeltasInv' /\ StagingInv'
  BY <1>1 DEF NoDeltaLost, CoverInv, SnapshotInv, BatchInv, DeltasInv, StagingInv
<1> QED BY <1>0, <1>2, <1>3, StoreUntouched

LEMMA StutterPreserves == ASSUME SyncInv, UNCHANGED vars PROVE SyncInv'
BY DEF vars, storeVars, syncVars, SyncInv, StoreInv, StoreTypeOK, SyncerType, NoDeltaLost,
       Pending, Announced, CoverInv, SnapshotInv, BatchInv, DeltasInv, StagingInv

LEMMA SyncInvStep ==
    ASSUME ~SnapshotMayFail PROVE SyncInv /\ [Next]_vars => SyncInv'
<1> SUFFICES ASSUME SyncInv, [Next]_vars PROVE SyncInv'
  OBVIOUS
<1>2. CASE Syncer
  BY <1>2, CaptureHeadPreserves, FetchChunkPreserves, PublishSnapshotPreserves,
     ReadStreamPreserves, LagCheckPreserves, PublishDeltasPreserves, QuietStepsPreserve
     DEF Syncer
<1>3. CASE SyncerFault
  BY <1>3, LagCheckPreserves, ColdStartFailsPreserves, QuietStepsPreserve DEF SyncerFault
<1>4. CASE IntervalPasses \/ ScheduleSwap
  BY <1>4, QuietStepsPreserve
<1>5. CASE Restart
  BY <1>5, RestartPreserves
<1>6. CASE Writers
  BY <1>6, WritersPreserve
<1>7. CASE UNCHANGED vars
  BY <1>7, StutterPreserves
<1> QED BY <1>2, <1>3, <1>4, <1>5, <1>6, <1>7 DEF Next

(***************************************************************************)
(* The theorem                                                             *)
(***************************************************************************)

(* ColdStart captures the cursor before its snapshot "so writes that land  *)
(* during the snapshot are replayed rather than lost" (refresher.go:114):  *)
(* with those two excluded, wherever the buffer differs from Redis the     *)
(* repairing entry is still ahead of the cursor.                           *)
THEOREM NothingLost ==
    ASSUME OldEntries # <<>>, ~SnapshotMayFail
    PROVE  Spec => []NoDeltaLost
<1>1. Init => SyncInv
  BY SyncInvInit
<1>2. SyncInv /\ [Next]_vars => SyncInv'
  BY SyncInvStep
<1>3. SyncInv => NoDeltaLost
  BY DEF SyncInv
<1> QED BY <1>1, <1>2, <1>3, PTL DEF Spec

(* refresher.go:241-242 promises a resync where the stream was trimmed     *)
(* ahead of the cursor: with the same two excluded, the cursor passes      *)
(* no entry whose trip is not in the batch, also not one trimmed between   *)
(* the read of the batch and the lag check.                                *)
THEOREM NothingSkipped ==
    ASSUME OldEntries # <<>>, ~SnapshotMayFail
    PROVE  Spec => CursorSkipsNothing
<1>1. Init => SyncInv
  BY SyncInvInit
<1>2. SyncInv /\ [Next]_vars => SyncInv'
  BY SyncInvStep
<1>3. SyncInv /\ [Next]_vars =>
        [PublishDeltas /\ covered # {} =>
           \A i \in cursor + 1 .. lastID : stream[i] \in keys]_vars
  BY DEF SyncInv, BatchInv, PublishDeltas
<1> QED BY <1>1, <1>2, <1>3, PTL DEF Spec, CursorSkipsNothing

(***************************************************************************)
(* Types, whatever fails                                                   *)
(***************************************************************************)

(* The writers keep the store's type; versions and the stream only grow.   *)
LEMMA WritersKeepStore ==
    ASSUME StoreTypeOK, Writers
    PROVE  /\ StoreTypeOK'
           /\ Len(stream) \in Nat /\ Len(stream') \in Nat /\ Len(stream') >= Len(stream)
           /\ \/ version' = version
              \/ \E t \in Trips : version' = [version EXCEPT ![t] = @ + 1]
<1> USE DEF StoreTypeOK
<1>1. ASSUME NEW t \in Trips, XAdd(t)
      PROVE  /\ stream' \in Seq(Trips) /\ trimmed' \in 0..Len(stream')
             /\ Len(stream') = Len(stream) + 1
  BY <1>1, XAddFacts
<1>2. ASSUME NEW t \in Trips, NEW m \in SeatMaps, Gate(t, m)
      PROVE  /\ StoreTypeOK' /\ Len(stream') \in {Len(stream), Len(stream) + 1}
             /\ version' = version \/ version' = [version EXCEPT ![t] = @ + 1]
  <2>1. CASE seatHash[t] # m
    <3>1. XAdd(t) /\ StoreMap(t) /\ seeding' = seeding
          /\ seatHash' = [seatHash EXCEPT ![t] = m]
      BY <1>2, <2>1 DEF Gate
    <3>2. seatHash' \in [Trips -> SeatMaps \cup {NoHash}]
      BY <3>1
    <3>3. version' \in [Trips -> Nat] /\ version' = [version EXCEPT ![t] = @ + 1]
      BY <3>1 DEF StoreMap
    <3> QED BY <1>1, <3>1, <3>2, <3>3
  <2>2. CASE seatHash[t] = m
    BY <1>2, <2>2 DEF Gate
  <2> QED BY <2>1, <2>2
<1>3. ASSUME NEW t \in Trips, SeedMap(t)
      PROVE  /\ StoreTypeOK' /\ Len(stream') = Len(stream)
             /\ version' = [version EXCEPT ![t] = @ + 1]
  BY <1>3 DEF SeedMap, StoreMap
<1>4. Len(stream) \in Nat
  OBVIOUS
<1>5. CASE SeedAnnounce
  <2>1. seeding \in Trips /\ XAdd(seeding)
    BY <1>5 DEF SeedAnnounce
  <2> QED BY <1>1, <1>4, <1>5, <2>1 DEF SeedAnnounce
<1>6. CASE \E t \in Trips : SeedMap(t) \/ \E m \in SeatMaps : Gate(t, m)
  <2>1. PICK t \in Trips : SeedMap(t) \/ \E m \in SeatMaps : Gate(t, m)
    BY <1>6
  <2> QED BY <1>2, <1>3, <1>4, <2>1
<1> QED BY <1>5, <1>6 DEF Writers

(* ColdStartWithRetry starts no attempt beyond the last.                   *)
AttemptInv ==
    /\ attempt \in 0..ColdStartAttempts
    /\ mode = "boot" /\ pc \in {"head", "snapshot"} => attempt < ColdStartAttempts

CountersInv == AttemptInv /\ faults \in 0..MaxFaults /\ restarts \in 0..MaxRestarts

FlagsType == throttled \in BOOLEAN /\ owed \in BOOLEAN /\ recent \in BOOLEAN

TypeInv == StoreTypeOK /\ SyncerType /\ CountersInv /\ FlagsType

LEMMA TypeInvInit == Init => TypeInv
<1> SUFFICES ASSUME Init PROVE TypeInv
  OBVIOUS
<1>1. StoreTypeOK
  BY BoundTypes DEF Init, StoreInit, StoreTypeOK
<1>2. SyncerType
  BY <1>1 DEF Init, SyncerType, Empty, NoSignal, StoreTypeOK
<1>3. CountersInv
  BY SyncAssumption DEF Init, CountersInv, AttemptInv
<1>4. FlagsType
  BY DEF Init, FlagsType
<1> QED BY <1>1, <1>2, <1>3, <1>4 DEF TypeInv

LEMMA StoreTypeStep == ASSUME StoreTypeOK, [Next]_vars PROVE StoreTypeOK'
<1>1. CASE Writers
  BY <1>1, WritersKeepStore
<1>2. CASE UNCHANGED storeVars
  BY <1>2 DEF StoreTypeOK, storeVars
<1> QED BY <1>1, <1>2 DEF Next, Syncer, SyncerFault, CaptureHead, FetchChunk, PublishSnapshot,
     ReadStream, LagCheck, PublishDeltas, StartResync, ColdStartFails, LagCheckFails,
     DeltasFail, IntervalPasses, ScheduleSwap, Restart, vars

(* A batch is made of entries of the stream.                               *)
LEMMA BatchIsOfTrips ==
    ASSUME StoreTypeOK, SyncerType, ReadStream
    PROVE  keys' \subseteq Trips /\ lastID' \in 0..Len(stream)
<1> DEFINE from == IF cursor > trimmed THEN cursor ELSE trimmed
<1>1. /\ from < Len(stream)
      /\ lastID' = Min(from + StreamBatch, Len(stream))
      /\ keys' = {stream[i] : i \in from + 1 .. lastID'}
  BY DEF ReadStream, StreamHead, BatchEnd
<1>2. from \in Nat /\ lastID' \in 0..Len(stream)
  BY <1>1, BoundTypes DEF Min, SyncerType, StoreTypeOK
<1>3. \A i \in from + 1 .. lastID' : stream[i] \in Trips
  BY <1>2 DEF StoreTypeOK
<1> QED BY <1>1, <1>2, <1>3

LEMMA SyncerTypeStep == ASSUME StoreTypeOK, SyncerType, [Next]_vars PROVE SyncerType'
<1> USE DEF SyncerType
<1>0. /\ Empty \in [Trips -> Nat] /\ version \in [Trips -> Nat]
      /\ Len(stream) \in Nat /\ trimmed \in 0..Len(stream)
  BY DEF Empty, NoSignal, StoreTypeOK
<1>1. CASE CaptureHead
  BY <1>0, <1>1 DEF CaptureHead, StreamHead, storeVars
<1>2. CASE FetchChunk
  <2>1. PICK chunk \in SUBSET todo :
          /\ todo' = todo \ chunk
          /\ staging' = [t \in Trips |-> IF t \in chunk THEN version[t] ELSE staging[t]]
    BY <1>2 DEF FetchChunk
  <2> QED BY <1>0, <1>2, <2>1 DEF FetchChunk, storeVars
<1>3. CASE PublishSnapshot
  BY <1>0, <1>3 DEF PublishSnapshot, CursorAfterScan, DropLocals, storeVars
<1>4. CASE ReadStream
  BY <1>0, <1>4, BatchIsOfTrips DEF ReadStream, storeVars
<1>5. CASE LagCheck \/ LagCheckFails
  BY <1>0, <1>5 DEF LagCheck, LagCheckFails, ApplyBatch, DropLocals, storeVars
<1>6. CASE PublishDeltas
  <2>1. Merged \in [Trips -> Nat]
    BY DEF Merged
  <2> QED BY <1>0, <1>6, <2>1 DEF PublishDeltas, DropLocals, storeVars
<1>7. CASE StartResync
  BY <1>7 DEF StartResync, AfterThrottle, storeVars
<1>8. CASE ColdStartFails
  BY <1>0, <1>8 DEF ColdStartFails, DropLocals, storeVars
<1>9. CASE DeltasFail
  BY <1>0, <1>9 DEF DeltasFail, DropLocals, storeVars
<1>10. CASE Restart
  BY <1>0, <1>10 DEF Restart, BootState, DropLocals, storeVars
<1>11. CASE IntervalPasses \/ ScheduleSwap
  BY <1>11 DEF IntervalPasses, ScheduleSwap, storeVars
<1>12. CASE Writers
  <2>1. cursor \in 0..Len(stream') /\ lastID \in 0..Len(stream')
    BY <1>12, WritersKeepStore
  <2> QED BY <1>12, <2>1 DEF Writers, syncVars
<1>13. CASE UNCHANGED vars
  BY <1>13 DEF vars, storeVars, syncVars
<1> QED BY <1>1, <1>2, <1>3, <1>4, <1>5, <1>6, <1>7, <1>8, <1>9, <1>10, <1>11, <1>12, <1>13
     DEF Next, Syncer, SyncerFault

LEMMA CountersStep == ASSUME SyncerType, CountersInv, [Next]_vars PROVE CountersInv'
<1> USE DEF CountersInv, AttemptInv
<1>1. CASE ColdStartFails
  <2>1. pc \in {"head", "snapshot"} /\ faults' \in 0..MaxFaults /\ restarts' = restarts
        /\ mode' = mode /\ mode \in {"boot", "resync"}
    BY <1>1, SyncAssumption DEF ColdStartFails, Fault, SyncerType
  <2>2. CASE mode = "boot"
    BY <1>1, <2>1, <2>2, SyncAssumption DEF ColdStartFails
  <2>3. CASE mode = "resync"
    BY <1>1, <2>1, <2>3 DEF ColdStartFails
  <2> QED BY <2>1, <2>2, <2>3
<1>2. CASE LagCheckFails \/ DeltasFail
  BY <1>2, SyncAssumption DEF LagCheckFails, DeltasFail, Fault, ApplyBatch
<1>3. CASE Restart
  BY <1>3, SyncAssumption DEF Restart, BootState
<1>4. CASE Syncer
  BY <1>4 DEF Syncer, CaptureHead, FetchChunk, PublishSnapshot, ReadStream, LagCheck, ApplyBatch,
     PublishDeltas, StartResync, AfterThrottle
<1>5. CASE IntervalPasses \/ ScheduleSwap \/ Writers \/ UNCHANGED vars
  BY <1>5 DEF IntervalPasses, ScheduleSwap, Writers, vars, syncVars
<1> QED BY <1>1, <1>2, <1>3, <1>4, <1>5 DEF Next, SyncerFault

LEMMA FlagsStep == ASSUME FlagsType, [Next]_vars PROVE FlagsType'
<1>1. throttled' \in {throttled, TRUE, FALSE}
  BY DEF Next, Syncer, SyncerFault, CaptureHead, FetchChunk, PublishSnapshot, ReadStream, LagCheck,
     PublishDeltas, StartResync, ColdStartFails, ThrottledAfterFailure, LagCheckFails, DeltasFail,
     IntervalPasses, ScheduleSwap, Restart, BootState, Writers, vars, syncVars
<1>2. owed' \in {owed, TRUE, FALSE}
  BY DEF Next, Syncer, SyncerFault, CaptureHead, FetchChunk, PublishSnapshot, ReadStream, LagCheck,
     PublishDeltas, StartResync, ColdStartFails, LagCheckFails, DeltasFail,
     IntervalPasses, ScheduleSwap, Restart, BootState, Writers, vars, syncVars
<1>3. recent' \in {recent, TRUE, FALSE}
  BY DEF Next, Syncer, SyncerFault, CaptureHead, FetchChunk, PublishSnapshot, ReadStream, LagCheck,
     PublishDeltas, StartResync, ColdStartFails, LagCheckFails, DeltasFail,
     IntervalPasses, ScheduleSwap, Restart, BootState, Writers, vars, syncVars
<1> QED BY <1>1, <1>2, <1>3 DEF FlagsType

LEMMA TypeInvStep == TypeInv /\ [Next]_vars => TypeInv'
BY StoreTypeStep, SyncerTypeStep, CountersStep, FlagsStep DEF TypeInv

(* Every reachable state of the store and the syncer has its type: in      *)
(* particular ColdStartWithRetry (refresher.go) makes no more attempts     *)
(* than it may, and the cursor never runs ahead of the stream.             *)
THEOREM TypeCorrect == Spec => []TypeOK
<1>1. TypeInv => TypeOK
  BY DEF TypeInv, SyncerType, CountersInv, AttemptInv, FlagsType, TypeOK
<1> QED BY <1>1, TypeInvInit, TypeInvStep, PTL DEF Spec

(***************************************************************************)
(* The throttle                                                            *)
(***************************************************************************)

(* A scan that began within the interval either throttles the next, or is  *)
(* the resync in progress, which will throttle the next however it ends.   *)
ThrottleInv ==
    recent => throttled \/ (mode = "resync" /\ pc \in {"head", "snapshot"})

(* refresher.go:305-308: no full scan set off by lag begins within         *)
(* MinResyncInterval of the beginning of another, failed or not.           *)
THEOREM ResyncsAreThrottled == Spec => ResyncIsThrottled
<1>1. Init => ThrottleInv
  BY DEF Init, ThrottleInv
<1>2. SyncerType /\ ThrottleInv /\ [Next]_vars => ThrottleInv'
  <2> USE DEF ThrottleInv
  <2> SUFFICES ASSUME SyncerType, ThrottleInv, [Next]_vars PROVE ThrottleInv'
    OBVIOUS
  <2>1. CASE CaptureHead \/ FetchChunk
    <3>1. /\ throttled' = throttled /\ recent' = recent /\ mode' = mode
          /\ pc \in {"head", "snapshot"} => pc' \in {"head", "snapshot"}
      BY <2>1 DEF CaptureHead, FetchChunk
    <3> QED BY <3>1, Zenon
  <2>2. CASE PublishSnapshot
    BY <2>2, Zenon DEF PublishSnapshot
  <2>3. CASE StartResync
    <3>1. mode' = "resync" /\ pc' \in {"head", "snapshot"}
      BY <2>3 DEF StartResync, AfterThrottle
    <3> QED BY <3>1, Zenon
  <2>4. CASE ColdStartFails
    <3>1. CASE mode = "boot"
      <4>1. mode # "resync"
        BY <3>1
      <4>2. recent' = recent /\ throttled' = throttled
        BY <2>4, <3>1 DEF ColdStartFails
      <4> QED BY <4>1, <4>2, Zenon
    <3>2. CASE mode # "boot"
      BY <2>4, <3>2, Zenon DEF ColdStartFails, ThrottledAfterFailure
    <3> QED BY <3>1, <3>2
  <2>5. CASE ReadStream \/ LagCheck \/ PublishDeltas \/ LagCheckFails \/ DeltasFail
    <3>1. pc \notin {"head", "snapshot"} /\ throttled' = throttled /\ recent' = recent
      BY <2>5 DEF ReadStream, LagCheck, PublishDeltas, LagCheckFails, DeltasFail
    <3> QED BY <3>1, Zenon
  <2>6. CASE IntervalPasses \/ Restart
    BY <2>6, Zenon DEF IntervalPasses, Restart, BootState
  <2>7. CASE ScheduleSwap \/ Writers \/ UNCHANGED vars
    BY <2>7, Zenon DEF ScheduleSwap, Writers, vars, syncVars
  <2> QED BY <2>1, <2>2, <2>3, <2>4, <2>5, <2>6, <2>7 DEF Next, Syncer, SyncerFault
<1>3. ThrottleInv /\ [Next]_vars => [StartResync => ~recent]_vars
  <2>1. "throttle" # "head" /\ "throttle" # "snapshot"
    OBVIOUS
  <2> QED BY <2>1, Zenon DEF ThrottleInv, StartResync
<1>4. TypeInv => SyncerType
  BY DEF TypeInv
<1> QED BY <1>1, <1>2, <1>3, <1>4, TypeInvInit, TypeInvStep, PTL DEF Spec, ResyncIsThrottled

(***************************************************************************)
(* What the buffer promises its readers, whatever fails                    *)
(***************************************************************************)

(* The buffer is never ahead of Redis; what a fetch has read lies between  *)
(* the two, and it has read nothing it was not asked for.                  *)
MirrorInv ==
    /\ \A t \in Trips : buffer[t] <= version[t]
    /\ pc \in {"snapshot", "deltas"} =>
         /\ todo \subseteq keys
         /\ \A t \in keys \ todo : staging[t] \in buffer[t] .. version[t]
         /\ \A t \in Trips \ (keys \ todo) : staging[t] = NoSignal

LEMMA MirrorInvInit == Init => MirrorInv
BY DEF Init, StoreInit, MirrorInv, Empty, NoSignal

LEMMA MirrorInvStep ==
    ASSUME StoreTypeOK, SyncerType, MirrorInv, [Next]_vars PROVE MirrorInv'
<1> USE DEF MirrorInv
<1>0. /\ buffer \in [Trips -> Nat] /\ version \in [Trips -> Nat] /\ staging \in [Trips -> Nat]
      /\ known \subseteq Trips /\ keys \subseteq Trips
  BY DEF StoreTypeOK, SyncerType
<1>1. CASE CaptureHead
  BY <1>1 DEF CaptureHead, Empty, storeVars
<1>2. CASE FetchChunk
  <2>1. PICK chunk \in SUBSET todo :
          /\ todo' = todo \ chunk
          /\ staging' = [t \in Trips |-> IF t \in chunk THEN version[t] ELSE staging[t]]
    BY <1>2 DEF FetchChunk
  <2>2. /\ pc \in {"snapshot", "deltas"} /\ keys' = keys /\ buffer' = buffer
        /\ version' = version
    BY <1>2 DEF FetchChunk, storeVars
  <2>3. \A t \in Trips : version[t] \in buffer[t] .. version[t]
    BY <1>0
  <2> QED BY <1>0, <2>1, <2>2, <2>3
<1>3. CASE PublishSnapshot
  <2>1. /\ pc' = "read" /\ version' = version /\ buffer' = staging
        /\ pc = "snapshot" /\ todo = {}
    BY <1>3 DEF PublishSnapshot, storeVars
  <2> QED BY <1>0, <2>1 DEF NoSignal
<1>4. CASE PublishDeltas
  <2>1. /\ pc' = "read" /\ version' = version /\ pc = "deltas" /\ todo = {}
        /\ buffer' = [t \in Trips |-> IF staging[t] # NoSignal THEN staging[t] ELSE buffer[t]]
    BY <1>4 DEF PublishDeltas, Merged, storeVars
  <2> QED BY <1>0, <2>1 DEF NoSignal
<1>5. CASE LagCheck \/ LagCheckFails
  BY <1>5 DEF LagCheck, LagCheckFails, ApplyBatch, Empty, storeVars
<1>6. CASE ReadStream \/ StartResync \/ ColdStartFails \/ DeltasFail
  <2>1. /\ pc' \notin {"snapshot", "deltas"} /\ version' = version /\ buffer' = buffer
    BY <1>6 DEF ReadStream, StartResync, AfterThrottle, ColdStartFails, DeltasFail, storeVars
  <2> QED BY <2>1
<1>7. CASE Restart
  BY <1>0, <1>7 DEF Restart, BootState, Empty, NoSignal, storeVars
<1>8. CASE IntervalPasses \/ ScheduleSwap
  BY <1>8 DEF IntervalPasses, ScheduleSwap, storeVars
<1>9. CASE Writers
  <2>1. UNCHANGED syncVars
    BY <1>9 DEF Writers
  <2>2. \/ version' = version
        \/ \E t \in Trips : version' = [version EXCEPT ![t] = @ + 1]
    BY <1>9, WritersKeepStore
  <2>3. \A t \in Trips : version'[t] \in Nat /\ version'[t] >= version[t]
    BY <1>0, <2>2
  <2> QED BY <1>0, <2>1, <2>3 DEF syncVars
<1>10. CASE UNCHANGED vars
  BY <1>10 DEF vars, storeVars, syncVars
<1> QED BY <1>1, <1>2, <1>3, <1>4, <1>5, <1>6, <1>7, <1>8, <1>9, <1>10 DEF Next, Syncer, SyncerFault

(* Each step of the syncer or its environment is a step of the mirror, or  *)
(* leaves all the mirror shows alone.                                      *)
LEMMA StepsAreMirrorSteps ==
    ASSUME StoreTypeOK, SyncerType, MirrorInv, [Next]_vars
    PROVE  [Mirror!Next]_(Mirror!mirrorVars)
<1> USE DEF Mirror!Next, Mirror!mirrorVars
<1>0. /\ buffer \in [Trips -> Nat] /\ version \in [Trips -> Nat] /\ staging \in [Trips -> Nat]
      /\ known \subseteq Trips /\ keys \subseteq Trips
  BY DEF StoreTypeOK, SyncerType
<1>1. CASE CaptureHead
  <2>1. pc = "head" /\ pc' = "snapshot" /\ keys' = known
        /\ version' = version /\ buffer' = buffer /\ known' = known
    BY <1>1 DEF CaptureHead, storeVars
  <2>2. Mirror!BeginScan
    BY <2>1 DEF Mirror!BeginScan
  <2> QED BY <2>2
<1>2. CASE FetchChunk \/ IntervalPasses \/ UNCHANGED vars
  <2>1. /\ pc' = pc /\ keys' = keys /\ version' = version /\ buffer' = buffer /\ known' = known
    BY <1>2 DEF FetchChunk, IntervalPasses, storeVars, vars, syncVars
  <2> QED BY <2>1
<1>3. CASE PublishSnapshot
  <2>1. /\ pc = "snapshot" /\ todo = {} /\ pc' = "read" /\ buffer' = staging
        /\ version' = version /\ known' = known
    BY <1>3 DEF PublishSnapshot, storeVars
  <2>2. \A t \in keys : buffer'[t] \in buffer[t] .. version[t]
    BY <2>1 DEF MirrorInv
  <2>3. \A t \in Trips \ keys : buffer'[t] = 0
    BY <2>1 DEF MirrorInv, NoSignal
  <2>4. Mirror!PublishScan
    BY <1>0, <2>1, <2>2, <2>3 DEF Mirror!PublishScan, Mirror!Advance
  <2> QED BY <2>4
<1>4. CASE PublishDeltas
  <2>1. /\ pc = "deltas" /\ todo = {} /\ pc' = "read"
        /\ buffer' = [t \in Trips |-> IF staging[t] # NoSignal THEN staging[t] ELSE buffer[t]]
        /\ version' = version /\ known' = known
    BY <1>4 DEF PublishDeltas, Merged, storeVars
  <2>2. \A t \in Trips : buffer'[t] \in buffer[t] .. version[t]
    BY <1>0, <2>1 DEF MirrorInv
  <2>3. Mirror!PublishDeltas
    BY <2>1, <2>2 DEF Mirror!PublishDeltas, Mirror!Advance
  <2> QED BY <2>3
<1>5. CASE ColdStartFails
  <2>1. /\ pc' \in {"head", "read"} /\ version' = version /\ buffer' = buffer /\ known' = known
    BY <1>5 DEF ColdStartFails, storeVars
  <2>2. Mirror!AbandonScan
    BY <2>1 DEF Mirror!AbandonScan
  <2> QED BY <2>2
<1>6. CASE ReadStream \/ LagCheck \/ LagCheckFails \/ DeltasFail \/ StartResync
  <2>1. /\ pc # "snapshot" /\ pc' # "snapshot"
        /\ version' = version /\ buffer' = buffer /\ known' = known
    BY <1>6 DEF ReadStream, LagCheck, LagCheckFails, ApplyBatch, DeltasFail, StartResync,
       AfterThrottle, storeVars
  <2> QED BY <2>1
<1>7. CASE ScheduleSwap
  <2>1. /\ known' \in SUBSET Trips
        /\ pc' = pc /\ keys' = keys /\ version' = version /\ buffer' = buffer
    BY <1>7 DEF ScheduleSwap, storeVars
  <2>2. Mirror!Reschedule
    BY <2>1 DEF Mirror!Reschedule
  <2> QED BY <2>2
<1>8. CASE Restart
  <2>1. /\ pc' = "head" /\ buffer' = [t \in Trips |-> 0]
        /\ version' = version /\ known' = known
    BY <1>8 DEF Restart, BootState, Empty, NoSignal, storeVars
  <2>2. Mirror!Crash
    BY <2>1 DEF Mirror!Crash
  <2> QED BY <2>2
<1>9. CASE Writers
  <2>1. /\ pc' = pc /\ keys' = keys /\ buffer' = buffer /\ known' = known
    BY <1>9 DEF Writers, syncVars
  <2>2. \/ version' = version
        \/ \E t \in Trips : version' = [version EXCEPT ![t] = @ + 1]
    BY <1>9, WritersKeepStore
  <2>3. CASE version' = version
    BY <2>1, <2>3
  <2>4. CASE \E t \in Trips : version' = [version EXCEPT ![t] = @ + 1]
    <3>1. Mirror!Change
      BY <2>1, <2>4 DEF Mirror!Change
    <3> QED BY <3>1
  <2> QED BY <2>2, <2>3, <2>4
<1> QED BY <1>1, <1>2, <1>3, <1>4, <1>5, <1>6, <1>7, <1>8, <1>9 DEF Next, Syncer, SyncerFault

(* What searches read (signal.go) is for every trip a version Redis has    *)
(* held, never an older one than before, and only a full scan of the       *)
(* schedule that leaves the trip out, or a restart, takes it away:         *)
(* whatever fails, crashes, is trimmed or seeded meanwhile.                *)
THEOREM BufferMirrorsRedis == Spec => ImplementsMirror
<1>1. Init => Mirror!Init
  BY DEF Init, StoreInit, Mirror!Init, Empty, NoSignal
<1>2. TypeInv /\ MirrorInv /\ [Next]_vars => MirrorInv' /\ [Mirror!Next]_(Mirror!mirrorVars)
  BY MirrorInvStep, StepsAreMirrorSteps DEF TypeInv
<1> QED BY <1>1, <1>2, MirrorInvInit, TypeInvInit, TypeInvStep, PTL
        DEF Spec, ImplementsMirror, Mirror!Spec
===============================================================================
