------------------------------ MODULE SeatMirror ------------------------------
(***************************************************************************)
(* What the in-memory seat buffer promises the searches that read it, with *)
(* no stream, cursor, batches or faults: a trip's signal is always one     *)
(* Redis has held, it never goes back to an older one, and a trip only     *)
(* loses its signal when a full scan of the schedule did not include it    *)
(* or when the process restarts.                                           *)
(***************************************************************************)
EXTENDS Integers, Sequences

CONSTANT Trips

VARIABLES
    current,   \* current[t]: version of t's seat map in Redis, 0 if there is none
    shown,     \* shown[t]: the version searches see, 0 if none
    scheduled, \* trips in the published schedule
    scan       \* <<S>> while the trips of S are being scanned, <<>> otherwise

mirrorVars == <<current, shown, scheduled, scan>>

Init ==
    /\ current \in [Trips -> {0, 1}]
    /\ shown = [t \in Trips |-> 0]
    /\ scheduled \in SUBSET Trips
    /\ scan = <<>>

Change ==
    /\ \E t \in Trips : current' = [current EXCEPT ![t] = @ + 1]
    /\ UNCHANGED <<shown, scheduled, scan>>

Reschedule ==
    /\ scheduled' \in SUBSET Trips
    /\ UNCHANGED <<current, shown, scan>>

BeginScan ==
    /\ scan = <<>>
    /\ scan' = <<scheduled>>
    /\ UNCHANGED <<current, shown, scheduled>>

AbandonScan ==
    /\ scan' = <<>>
    /\ UNCHANGED <<current, shown, scheduled>>

(* A newer version, or the same. *)
Advance(t) == shown'[t] \in shown[t] .. current[t]

PublishScan ==
    /\ scan # <<>>
    /\ \A t \in scan[1] : Advance(t)
    /\ \A t \in Trips \ scan[1] : shown'[t] = 0
    /\ DOMAIN shown' = Trips
    /\ scan' = <<>>
    /\ UNCHANGED <<current, scheduled>>

PublishDeltas ==
    /\ scan = <<>>
    /\ \A t \in Trips : Advance(t)
    /\ DOMAIN shown' = Trips
    /\ UNCHANGED <<current, scheduled, scan>>

Crash ==
    /\ shown' = [t \in Trips |-> 0]
    /\ scan' = <<>>
    /\ UNCHANGED <<current, scheduled>>

Next ==
    \/ Change \/ Reschedule
    \/ BeginScan \/ AbandonScan \/ PublishScan \/ PublishDeltas
    \/ Crash

Spec == Init /\ [][Next]_mirrorVars
===============================================================================
