------------------------------ MODULE SeatStore ------------------------------
(***************************************************************************)
(* The seat data in Redis: per trip the keys seat:map and seat:hash, and   *)
(* the stream seat:dirty_stream that announces changes.                    *)
(*                                                                         *)
(* It has two writers.  Pollers go through the Lua gate (seat_gate.lua,    *)
(* run by luaGate of internal/seat/luagate.go), one atomic script.  The    *)
(* seeder (seedSeats of internal/schedule/seeder.go) pipelines SET and     *)
(* XADD without a transaction, so a reader can come between the two.       *)
(*                                                                         *)
(* A seat map is abstracted to the version it is, its hash to the answer   *)
(* of the provider that has it.                                            *)
(*                                                                         *)
(* Stream IDs are positions in `stream', which keeps every entry ever      *)
(* appended; entries up to `trimmed' have been removed by MAXLEN.          *)
(***************************************************************************)
EXTENDS Integers, Sequences, FiniteSets

CONSTANTS
    Trips,       \* seat keys: (trip, date) pairs
    SeatMaps,    \* possible answers of the provider, by their hash
    NoHash,      \* seat:hash does not exist
    NoTrip,      \* the seeder is between trips
    StreamCap,   \* MAXLEN of the stream (200000)
    OldEntries,  \* entries already in the stream when the model starts
    MaxEntries   \* bound: entries ever appended

ASSUME StoreAssumption ==
    /\ NoHash \notin SeatMaps
    /\ NoTrip \notin Trips
    /\ StreamCap \in Nat \ {0}
    /\ OldEntries \in Seq(Trips)
    /\ MaxEntries \in Nat

VARIABLES
    version,  \* version[t]: seat:map, by how often it was written; 0 when absent
    seatHash, \* seatHash[t]: the answer whose canonical hash seat:hash holds
    stream,   \* the trips of all dirty-stream entries, in ID order
    trimmed,  \* entries 1..trimmed are gone
    seeding   \* the trip whose map the seeder has written but not announced

storeVars == <<version, seatHash, stream, trimmed, seeding>>

(* A trip has a map exactly if the stream has announced it. *)
StoreInit ==
    LET announced == {OldEntries[i] : i \in DOMAIN OldEntries} IN
    /\ version = [t \in Trips |-> IF t \in announced THEN 1 ELSE 0]
    /\ seatHash \in {h \in [Trips -> SeatMaps \cup {NoHash}] :
                       \A t \in Trips : h[t] # NoHash <=> t \in announced}
    /\ stream = OldEntries
    /\ trimmed = 0
    /\ seeding = NoTrip

(* XADD ... MAXLEN ~ cap: the trim is approximate, it may be late but      *)
(* never leaves fewer than the cap.                                        *)
XAdd(t) ==
    /\ stream' = Append(stream, t)
    /\ trimmed' \in {n \in trimmed..Len(stream') :
                        n = trimmed \/ Len(stream') - n >= StreamCap}

StoreMap(t) == version' = [version EXCEPT ![t] = @ + 1]

(* The bound on the length of the history. *)
MayAppend == Len(stream) + (IF seeding = NoTrip THEN 0 ELSE 1) < MaxEntries

(* A poll of trip t returned m and went through the gate. *)
Gate(t, m) ==
    /\ \/ /\ seatHash[t] # m
          /\ MayAppend
          /\ StoreMap(t)
          /\ seatHash' = [seatHash EXCEPT ![t] = m]
          /\ XAdd(t)
       \/ /\ seatHash[t] = m   \* only seat:ts is refreshed
          /\ UNCHANGED <<version, seatHash, stream, trimmed>>
    /\ UNCHANGED seeding

(* The seeder's SET: it leaves seat:hash alone, so the gate goes on        *)
(* comparing with an answer that is no longer what is stored.              *)
SeedMap(t) ==
    /\ seeding = NoTrip
    /\ MayAppend
    /\ StoreMap(t)
    /\ seeding' = t
    /\ UNCHANGED <<seatHash, stream, trimmed>>

(* The seeder's XADD, further down the same pipeline. *)
SeedAnnounce ==
    /\ seeding # NoTrip
    /\ XAdd(seeding)
    /\ seeding' = NoTrip
    /\ UNCHANGED <<version, seatHash>>

(* The type of every variable of the store. *)
StoreTypeOK ==
    /\ version \in [Trips -> Nat]
    /\ seatHash \in [Trips -> SeatMaps \cup {NoHash}]
    /\ stream \in Seq(Trips)
    /\ trimmed \in 0..Len(stream)
    /\ seeding \in Trips \cup {NoTrip}
==============================================================================
