------------------------------- MODULE SeatSync -------------------------------
(***************************************************************************)
(* The seat syncer of internal/seat/refresher.go: it keeps the signal      *)
(* buffer in memory (internal/state/signal.go) in step with the seat maps  *)
(* in Redis (SeatStore), by a cold start at boot, by tailing the dirty     *)
(* stream, and by a throttled cold start when the stream was trimmed past  *)
(* its cursor.                                                             *)
(*                                                                         *)
(* The syncer is one goroutine.  Each of its Redis round trips is a step,  *)
(* so pollers and the seeder write between any two of them and between     *)
(* the chunks of one fetch.  Every round trip can fail.  The process can   *)
(* crash: the buffer, the cursor and the throttle are in memory only.      *)
(*                                                                         *)
(* A signal is abstracted to the version of the seat map it was read from. *)
(***************************************************************************)
EXTENDS SeatStore

CONSTANTS
    MGetChunk,          \* trips per MGET
    StreamBatch,        \* entries per XREAD
    ColdStartAttempts,  \* attempts at boot
    SnapshotMayFail,    \* a resync may fail after it moved the cursor
    MaxFaults,          \* bound: failed round trips
    MaxRestarts         \* bound: crashes of the process

ASSUME SyncAssumption ==
    /\ MGetChunk \in Nat \ {0} /\ StreamBatch \in Nat \ {0}
    /\ ColdStartAttempts \in Nat \ {0}
    /\ SnapshotMayFail \in BOOLEAN
    /\ MaxFaults \in Nat /\ MaxRestarts \in Nat

NoSignal == 0   \* the trip has no entry in the buffer

VARIABLES
    known,    \* the keys of TripIndex in the published schedule
    buffer,   \* buffer[t]: the version the published signal of t was read from
    cursor,   \* last stream ID consumed; 0 is the initial cursor "0"
    pc,       \* where the syncer is
    mode,     \* whether the cold start in progress is "boot" or "resync"
    attempt,  \* attempts made by ColdStartWithRetry
    keys,     \* the trips the fetch in progress was asked for
    todo,     \* those of them not fetched yet
    staging,  \* signals fetched so far
    lastID,   \* last ID of the batch being applied
    throttled,\* the last resync is more recent than MinResyncInterval
    covered,  \* ghost: trips the buffer speaks for: read, and followed since
    owed,     \* ghost: lag was detected and no snapshot was published since
    recent,   \* ghost: a full scan began, or one succeeded, within MinResyncInterval
    faults, restarts

syncVars == <<known, buffer, cursor, pc, mode, attempt, keys, todo, staging,
              lastID, throttled, covered, owed, recent, faults, restarts>>
vars == <<storeVars, syncVars>>

Empty == [t \in Trips |-> NoSignal]
StreamHead == Len(stream)
Min(a, b) == IF a < b THEN a ELSE b

(* The locals of a fetch that is over. *)
DropLocals == keys' = {} /\ todo' = {} /\ staging' = Empty /\ lastID' = 0

BootState ==
    /\ buffer' = Empty /\ cursor' = 0 /\ pc' = "head" /\ mode' = "boot"
    /\ attempt' = 0 /\ DropLocals
    /\ throttled' = FALSE /\ covered' = {} /\ owed' = FALSE
    /\ recent' = FALSE

Init ==
    /\ StoreInit
    /\ known \in SUBSET Trips
    /\ buffer = Empty /\ cursor = 0 /\ pc = "head" /\ mode = "boot"
    /\ attempt = 0 /\ keys = {} /\ todo = {} /\ staging = Empty
    /\ lastID = 0 /\ throttled = FALSE /\ covered = {} /\ owed = FALSE
    /\ recent = FALSE /\ faults = 0 /\ restarts = 0

Fault == faults < MaxFaults /\ faults' = faults + 1

(***************************************************************************)
(* ColdStart                                                               *)
(***************************************************************************)

(* Capture the stream head, then list the known trips.  An empty stream    *)
(* leaves the cursor where it is.                                          *)
CaptureHead ==
    /\ pc = "head"
    /\ cursor' = IF StreamHead > trimmed THEN StreamHead ELSE cursor
    /\ keys' = known /\ todo' = known
    /\ staging' = Empty
    /\ pc' = "snapshot"
    /\ UNCHANGED <<storeVars, known, buffer, mode, attempt, lastID, throttled,
                   covered, owed, recent, faults, restarts>>

(* fetchSignals, one chunk of MGETs; a trip without a map is skipped.  *)
FetchChunk ==
    /\ pc \in {"snapshot", "deltas"}
    /\ \E chunk \in (SUBSET todo) \ {{}} :
         /\ Cardinality(chunk) = Min(MGetChunk, Cardinality(todo))
         /\ todo' = todo \ chunk
         /\ staging' = [t \in Trips |-> IF t \in chunk THEN version[t] ELSE staging[t]]
    /\ UNCHANGED <<storeVars, known, buffer, cursor, pc, mode, attempt, keys, lastID,
                   throttled, covered, owed, recent, faults, restarts>>

(* The cursor was captured before the scan and stays there. *)
CursorAfterScan_Head == StreamHead
CursorAfterScan_PastHead == StreamHead + 1
CursorAfterScan == cursor

(* SwapSignal(staging), markResynced.  Trips outside the snapshot go. *)
PublishSnapshot ==
    /\ pc = "snapshot" /\ todo = {}
    /\ buffer' = staging
    /\ covered' = keys
    /\ owed' = FALSE
    /\ throttled' = TRUE /\ recent' = TRUE
    /\ cursor' = CursorAfterScan
    /\ pc' = "read"
    /\ DropLocals
    /\ UNCHANGED <<storeVars, known, mode, attempt, faults, restarts>>

(* resync counts a failed attempt for the throttle. *)
ThrottledAfterFailure_Not == throttled
ThrottledAfterFailure == TRUE

(* ColdStartWithRetry tries again, or gives up and lets the loop start     *)
(* with what there is; a failed resync still counts for the throttle.      *)
ColdStartFails ==
    /\ pc = "head" \/ (pc = "snapshot" /\ todo # {} /\ (mode = "resync" => SnapshotMayFail))
    /\ Fault
    /\ IF mode = "boot"
       THEN /\ attempt' = attempt + 1
            /\ pc' = IF attempt' < ColdStartAttempts THEN "head" ELSE "read"
            /\ UNCHANGED throttled
       ELSE /\ throttled' = ThrottledAfterFailure
            /\ pc' = "read"
            /\ UNCHANGED attempt
    /\ DropLocals
    /\ UNCHANGED <<storeVars, known, buffer, cursor, mode, covered, owed, recent, restarts>>

(***************************************************************************)
(* RefreshLoop                                                             *)
(***************************************************************************)

BatchEnd(from) == Min(from + StreamBatch, StreamHead)

(* XREAD: up to StreamBatch surviving entries after the cursor. *)
ReadStream ==
    /\ pc = "read"
    /\ LET from == IF cursor > trimmed THEN cursor ELSE trimmed IN
         /\ from < StreamHead
         /\ lastID' = BatchEnd(from)
         /\ keys' = {stream[i] : i \in from + 1 .. lastID'}
    /\ pc' = "lagcheck"
    /\ UNCHANGED <<storeVars, known, buffer, cursor, mode, attempt, todo, staging,
                   throttled, covered, owed, recent, faults, restarts>>

Lagged_Never == FALSE

(* lagged, seen on the stream as it is by now. *)
Lagged == cursor # 0 /\ cursor <= trimmed

ApplyBatch ==
    /\ pc' = "deltas"
    /\ todo' = keys
    /\ staging' = Empty

LagCheck ==
    /\ pc = "lagcheck"
    /\ \/ /\ Lagged
          /\ pc' = "throttle"
          /\ owed' = TRUE
          /\ DropLocals
       \/ /\ ~Lagged
          /\ ApplyBatch
          /\ UNCHANGED <<keys, lastID, owed>>
    /\ UNCHANGED <<storeVars, known, buffer, cursor, mode, attempt, throttled, covered, recent, faults, restarts>>

(* A failed read of the oldest entry is taken for "not lagged".  If it     *)
(* hides a lag, trimmed entries are passed over, and the buffer speaks for *)
(* no trip any more until it reads it again.                               *)
LagCheckFails ==
    /\ pc = "lagcheck"
    /\ Fault
    /\ ApplyBatch
    /\ covered' = IF Lagged THEN {} ELSE covered
    /\ UNCHANGED <<storeVars, known, buffer, cursor, mode, attempt, keys, lastID,
                   throttled, owed, recent, restarts>>

(* The published buffer: a clone of the live one with the deltas applied. *)
Merged_NoClone == staging
Merged == [t \in Trips |-> IF staging[t] # NoSignal THEN staging[t] ELSE buffer[t]]

(* Clone, merge, swap, advance the cursor. *)
PublishDeltas ==
    /\ pc = "deltas" /\ todo = {}
    /\ buffer' = Merged
    /\ covered' = covered \cup keys
    /\ cursor' = lastID
    /\ pc' = "read"
    /\ DropLocals
    /\ UNCHANGED <<storeVars, known, mode, attempt, throttled, owed, recent, faults, restarts>>

(* The batch is dropped and will be read again: the cursor has not moved. *)
DeltasFail ==
    /\ pc = "deltas" /\ todo # {}
    /\ Fault
    /\ pc' = "read"
    /\ DropLocals
    /\ UNCHANGED <<storeVars, known, buffer, cursor, mode, attempt, throttled, covered,
                   owed, recent, restarts>>

AfterThrottle_ReadOn == "read"
AfterThrottle == "head"

(* resync, after waiting out the throttle. *)
StartResync ==
    /\ pc = "throttle" /\ ~throttled
    /\ mode' = "resync"
    /\ pc' = AfterThrottle
    /\ recent' = TRUE
    /\ UNCHANGED <<storeVars, known, buffer, cursor, attempt, keys, todo, staging, lastID,
                   throttled, covered, owed, faults, restarts>>

Syncer ==
    \/ CaptureHead \/ FetchChunk \/ PublishSnapshot
    \/ ReadStream \/ LagCheck \/ PublishDeltas \/ StartResync

SyncerFault == ColdStartFails \/ LagCheckFails \/ DeltasFail

(***************************************************************************)
(* The environment                                                         *)
(***************************************************************************)

(* MinResyncInterval has passed since the last scan. *)
IntervalPasses ==
    /\ throttled \/ recent
    /\ throttled' = FALSE /\ recent' = FALSE
    /\ UNCHANGED <<storeVars, known, buffer, cursor, pc, mode, attempt, keys, todo, staging,
                   lastID, covered, owed, faults, restarts>>

(* A schedule reload publishes other trips. *)
ScheduleSwap ==
    /\ known' \in (SUBSET Trips) \ {known}
    /\ UNCHANGED <<storeVars, buffer, cursor, pc, mode, attempt, keys, todo, staging,
                   lastID, throttled, covered, owed, recent, faults, restarts>>

Restart ==
    /\ restarts < MaxRestarts
    /\ restarts' = restarts + 1
    /\ BootState
    /\ UNCHANGED <<storeVars, known, faults>>

Writers ==
    /\ \/ \E t \in Trips : SeedMap(t) \/ \E m \in SeatMaps : Gate(t, m)
       \/ SeedAnnounce
    /\ UNCHANGED syncVars

Next == Syncer \/ SyncerFault \/ IntervalPasses \/ ScheduleSwap \/ Restart \/ Writers

Spec == Init /\ [][Next]_vars

(* The syncer's goroutine keeps running, time passes, and a seeder that    *)
(* has sent its pipeline gets it executed.                                 *)
FairSpec ==
    /\ Spec
    /\ WF_vars(Syncer) /\ WF_vars(IntervalPasses)
    /\ WF_vars(SeedAnnounce /\ UNCHANGED syncVars)

(***************************************************************************)
(* Properties                                                              *)
(***************************************************************************)

(* The type of every variable. *)
TypeOK ==
    /\ StoreTypeOK
    /\ known \subseteq Trips
    /\ buffer \in [Trips -> Nat]
    /\ cursor \in 0..Len(stream)
    /\ pc \in {"head", "snapshot", "read", "lagcheck", "throttle", "deltas"}
    /\ mode \in {"boot", "resync"}
    /\ attempt \in 0..ColdStartAttempts
    /\ keys \subseteq Trips /\ todo \subseteq Trips
    /\ staging \in [Trips -> Nat]
    /\ lastID \in 0..Len(stream)
    /\ throttled \in BOOLEAN
    /\ covered \subseteq Trips
    /\ owed \in BOOLEAN /\ recent \in BOOLEAN
    /\ faults \in 0..MaxFaults /\ restarts \in 0..MaxRestarts

(* An entry for t follows position n in the stream, or the seeder has it   *)
(* still to append.                                                        *)
Announced(t, n) ==
    \/ \E i \in n + 1 .. Len(stream) : stream[i] = t
    \/ seeding = t

(* The syncer has an entry for t still to consume. *)
Pending(t) == Announced(t, cursor)

(* refresher.go:114-115: changes "are replayed rather than lost".  Where   *)
(* the buffer differs from Redis, the entry that will repair it is still   *)
(* ahead of the cursor, or a full snapshot is being taken.                 *)
NoDeltaLost ==
    \A t \in covered :
        buffer[t] # version[t] => Pending(t) \/ (mode = "resync" /\ pc = "snapshot")

(* refresher.go:241-242: "if the cursor predates the oldest surviving      *)
(* entry, deltas were dropped and the buffer must be resynchronised": once *)
(* the buffer speaks for some trip, the cursor only moves past entries     *)
(* that are in the batch being applied, however much was trimmed since it  *)
(* was read.  Before that nothing is claimed for the trips it skips.       *)
CursorSkipsNothing ==
    [][PublishDeltas /\ covered # {} =>
         \A i \in cursor + 1 .. lastID : stream[i] \in keys]_vars

(* refresher.go:321-322: lag found by the loop leads to a published        *)
(* snapshot, a failed one "is retried on the throttle".                    *)
LagIsRepaired == owed ~> ~owed

(* refresher.go:305-308: a full scan set off by lag never begins within    *)
(* MinResyncInterval of the beginning of another, whether that one failed  *)
(* or not, nor of a successful one.                                        *)
ResyncIsThrottled == [][StartResync => ~recent]_vars

(* What the buffer promises its readers, whatever fails. *)
Mirror == INSTANCE SeatMirror WITH
              current   <- version,
              shown     <- buffer,
              scheduled <- known,
              scan      <- IF pc = "snapshot" THEN <<keys>> ELSE <<>>
ImplementsMirror == Mirror!Spec

(* Once writes, faults and crashes cease, the buffer agrees with Redis on  *)
(* every trip it speaks for, and stays so.                                 *)
BufferConverges == <>[](\A t \in covered : buffer[t] = version[t])
===============================================================================
