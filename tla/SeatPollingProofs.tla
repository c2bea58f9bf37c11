--------------------------- MODULE SeatPollingProofs ---------------------------
(***************************************************************************)
(* Polling, for any number of trips and instances, any zones and any       *)
(* failures and crashes: the lock rate-limits the provider, and the gap    *)
(* between two polls of a trip is bounded.                                 *)
(*                                                                         *)
(* The rate limit: until a call has kept its interval, the lock of its     *)
(* trip lasts for what is left of it.  The gap: a potential, the ticks     *)
(* that may still pass before the next poll, which time lowers as fast as  *)
(* the gap grows and only a fault can raise.                               *)
(***************************************************************************)
EXTENDS SeatPolling, WellFoundedInduction, TLAPS

LockInv ==
    /\ lock \in [Trips -> Nat]
    /\ calledAgo \in [Trips -> 0..Slowest]
    /\ spacing \in [Trips -> 0..Slowest]
    /\ \A t \in Trips : spacing[t] <= lock[t] + calledAgo[t]

(* A nonempty set of numbers has a least one. *)
LEMMA LeastExists ==
    ASSUME NEW S \in SUBSET Nat, S # {}
    PROVE  \E x \in S : \A y \in S : x <= y
<1> DEFINE R == {ss \in Nat \X Nat : ss[1] < ss[2]}
<1>1. OpToRel(<, Nat) = R
    BY Zenon DEF OpToRel
<1>2. \A x, y \in Nat : <<y, x>> \notin R => x <= y
    OBVIOUS
<1>3. IsWellFoundedOn(R, Nat)
    BY <1>1, NatLessThanWellFounded
<1> HIDE DEF R
<1>4. \E x \in S : \A y \in S : <<y, x>> \notin R
    BY <1>3, WFMin
<1> QED BY <1>2, <1>4

(* ClassifyZone always finds a zone, so an interval is one of the table. *)
LEMMA IntervalInTable ==
    ASSUME NEW t
    PROVE  Interval(t) \in 1..Slowest
<1> DEFINE matching == {z \in DOMAIN Zones : toDep[t] < Zones[z].below}
           index == IF matching = {} THEN Len(Zones)
                    ELSE CHOOSE z \in matching : \A y \in matching : z <= y
<1>1. /\ Slowest \in Nat
      /\ Zones \in Seq([below : Nat, every : 1..Slowest])
      /\ Zones # <<>>
    BY PollingAssumption DEF PollingAssumption
<1>2. DOMAIN Zones = 1..Len(Zones) /\ Len(Zones) \in Nat /\ Len(Zones) >= 1
    BY <1>1
<1>3. index \in DOMAIN Zones
  <2>1. CASE matching = {}
      BY <1>2, <2>1
  <2>2. CASE matching # {}
    <3>1. matching \in SUBSET Nat
        BY <1>2
    <3>2. \E z \in matching : \A y \in matching : z <= y
        BY <2>2, <3>1, LeastExists
    <3>3. (CHOOSE z \in matching : \A y \in matching : z <= y) \in matching
        BY <3>2
    <3> QED BY <2>2, <3>3
  <2> QED BY <2>1, <2>2
<1> HIDE DEF index
<1> DEFINE zone == [below : Nat, every : 1..Slowest]
<1> HIDE DEF zone
<1>4. Zones \in Seq(zone)
    BY <1>1 DEF zone
<1>5. Zones[index] \in zone
    BY <1>3, <1>4
<1>6. Zones[index] \in [below : Nat, every : 1..Slowest]
    BY <1>5 DEF zone
<1>7. Zones[index].every \in 1..Slowest
    BY <1>6
<1>8. Interval(t) = Zones[index].every
    BY DEF Interval, ClassifyZone, index
<1> QED BY <1>7, <1>8

LEMMA LockInvInit == Init => LockInv
BY PollingAssumption DEF Init, LockInv, Zero, PollingAssumption

(* The actions that touch neither the locks nor the ghosts of the calls. *)
LEMMA ElsewhereKeeps ==
    ASSUME LockInv, UNCHANGED <<lock, callVars>>
    PROVE  LockInv'
BY DEF LockInv, callVars

LEMMA WorkerKeeps ==
    ASSUME LockInv, NEW t \in Trips, Worker(t) \/ WorkerFault(t)
    PROVE  LockInv'
<1> USE DEF LockInv
<1>0. Interval(t) \in 1..Slowest /\ Slowest \in Nat
    BY IntervalInTable, PollingAssumption DEF PollingAssumption
<1>1. CASE SkipUnknown(t) \/ SkipLocked(t) \/ Acknowledge(t)
    BY <1>1, ElsewhereKeeps DEF SkipUnknown, SkipLocked, Acknowledge
<1>2. CASE TakeLock(t)
  <2> HIDE DEF LockInv
  <2>1. /\ lock' = [lock EXCEPT ![t] = Interval(t)]
        /\ calledAgo' = [calledAgo EXCEPT ![t] = 0]
        /\ spacing' = [spacing EXCEPT ![t] = Interval(t)]
      BY <1>2 DEF TakeLock, LockTTL
  <2> QED BY <1>0, <2>1 DEF LockInv
<1>3. CASE TakeLockFails(t)
  <2>1. \/ lock' = lock
        \/ lock[t] = 0 /\ lock' = [lock EXCEPT ![t] = Interval(t)]
      BY <1>3 DEF TakeLockFails, LockTTL
  <2>2. UNCHANGED callVars
      BY <1>3 DEF TakeLockFails
  <2> QED BY <1>0, <2>1, <2>2 DEF callVars
<1>4. CASE PollSucceeds(t)
  <2>1. lock' = lock /\ UNCHANGED callVars
      BY <1>4 DEF PollSucceeds, LockAfterPoll
  <2> QED BY <2>1, ElsewhereKeeps
<1>5. CASE PollFails(t)
  <2>1. /\ \/ lock' = [lock EXCEPT ![t] = 0]
           \/ lock' = lock
        /\ spacing' = [spacing EXCEPT ![t] = 0]
        /\ calledAgo' = calledAgo
      BY <1>5 DEF PollFails
  <2> QED BY <1>0, <2>1
<1> QED BY <1>1, <1>2, <1>3, <1>4, <1>5 DEF Worker, WorkerFault

LEMMA TickKeeps ==
    ASSUME LockInv, Tick
    PROVE  LockInv'
<1>1. /\ lock' = [t \in Trips |-> Down(lock[t])]
      /\ calledAgo' = [t \in Trips |-> Up(calledAgo[t], Slowest)]
      /\ spacing' = spacing
      /\ Slowest \in Nat
    BY PollingAssumption DEF Tick, PollingAssumption
<1>2. \A n \in Nat : Down(n) \in Nat
    BY DEF Down
<1>3. \A n \in 0..Slowest : Up(n, Slowest) \in 0..Slowest
    BY <1>1 DEF Up
<1>4. lock' \in [Trips -> Nat] /\ calledAgo' \in [Trips -> 0..Slowest]
    BY <1>1, <1>2, <1>3 DEF LockInv
<1>5. \A t \in Trips : spacing[t] <= Down(lock[t]) + Up(calledAgo[t], Slowest)
    BY <1>1 DEF LockInv, Down, Up
<1> QED BY <1>1, <1>4, <1>5 DEF LockInv

LEMMA LockInvNext == LockInv /\ [Next]_vars => LockInv'
<1> SUFFICES ASSUME LockInv, [Next]_vars PROVE LockInv'
    OBVIOUS
<1>1. CASE \E i \in Instances : StartSweep(i) \/ Crash(i) \/ ScheduleSwap(i)
    BY <1>1, ElsewhereKeeps DEF StartSweep, Crash, ScheduleSwap, workVars
<1>2. CASE \E i \in Instances, t \in Trips : Enqueue(i, t) \/ EnqueueFails(i, t) \/ Take(i, t)
    BY <1>2, ElsewhereKeeps DEF Enqueue, EnqueueFails, Take, workVars
<1>3. CASE \E t \in Trips : Queue(t)
    BY <1>3, ElsewhereKeeps DEF Queue, Forward, RemoveCompleted, Recover, workVars
<1>4. CASE \E t \in Trips : Worker(t) \/ WorkerFault(t)
    BY <1>4, WorkerKeeps
<1>5. CASE Tick
    BY <1>5, TickKeeps
<1>6. CASE UNCHANGED vars
    BY <1>6, ElsewhereKeeps DEF vars, workVars
<1> QED BY <1>1, <1>2, <1>3, <1>4, <1>5, <1>6 DEF Next

(* RateLimited for every number of trips and instances, every table of     *)
(* zones and any number of failures: when a worker finds the lock free,    *)
(* the last call that did not fail has kept its interval.                  *)
THEOREM CallsAreSpaced == Spec => RateLimited
<1>1. LockInv /\ [Next]_vars => [\A t \in Trips : TakeLock(t) => calledAgo[t] >= spacing[t]]_vars
    BY DEF LockInv, TakeLock
<1> QED BY <1>1, LockInvInit, LockInvNext, PTL DEF Spec, RateLimited

(***************************************************************************)
(* Types                                                                   *)
(***************************************************************************)

LEMMA Counting ==
    /\ \A m \in Nat : \A n \in 0..m : Down(n) \in 0..m /\ Up(n, m) \in 0..m
    /\ \A n \in Nat : Down(n) \in Nat
BY DEF Down, Up

LEMMA WorkKeepsTypes ==
    ASSUME TypeOK, NEW t \in Trips, Queue(t) \/ Worker(t) \/ WorkerFault(t)
    PROVE  TypeOK'
<1>1. /\ Interval(t) \in 0..Slowest /\ Interval(t) \in Nat
      /\ 0 \in 0..Slowest /\ MaxRetry \in Nat /\ MaxFaults \in Nat
      /\ RetryDelay \in Nat /\ Horizon \in Nat
    BY IntervalInTable, PollingAssumption DEF PollingAssumption
<1>2. ASSUME Retry(t) PROVE /\ task' \in [Trips -> {"none", "scheduled", "pending", "active", "retry",
                                                     "completed", "archived"}]
                            /\ wait' \in [Trips -> Nat] /\ keep' \in [Trips -> Nat]
                            /\ retried' \in [Trips -> 0..MaxRetry]
                            /\ worker' \in [Trips -> Instances \cup {NoWorker}]
                            /\ step' \in [Trips -> {"start", "fetch", "done"}]
  <2>1. retried[t] < MaxRetry => retried[t] + 1 \in 0..MaxRetry
      BY <1>1 DEF TypeOK
  <2> QED BY <1>1, <1>2, <2>1 DEF TypeOK, Retry, Retries, Move
<1>3. ASSUME Complete(t) PROVE /\ task' \in [Trips -> {"none", "scheduled", "pending", "active", "retry",
                                                        "completed", "archived"}]
                               /\ wait' \in [Trips -> Nat] /\ keep' \in [Trips -> Nat]
                               /\ retried' \in [Trips -> 0..MaxRetry]
                               /\ worker' \in [Trips -> Instances \cup {NoWorker}]
                               /\ step' \in [Trips -> {"start", "fetch", "done"}]
    BY <1>3 DEF TypeOK, Complete, Move
<1>4. CASE Forward(t) \/ RemoveCompleted(t)
    BY <1>4 DEF Forward, RemoveCompleted, TypeOK, Move, envVars, sweepVars, workVars, callVars, pollVars
<1>5. CASE Recover(t)
    BY <1>2, <1>5 DEF Recover, TypeOK, envVars, sweepVars, callVars, pollVars
<1>6. CASE SkipUnknown(t) \/ SkipLocked(t) \/ Acknowledge(t)
    BY <1>3, <1>6 DEF SkipUnknown, SkipLocked, Acknowledge, TypeOK, envVars, sweepVars, callVars, pollVars
<1>7. CASE TakeLock(t)
    BY <1>1, <1>7 DEF TakeLock, LockTTL, TypeOK, envVars, sweepVars, queueVars, pollVars
<1>8. CASE PollSucceeds(t)
    BY <1>1, <1>8 DEF PollSucceeds, LockAfterPoll, TypeOK, envVars, sweepVars, queueVars, callVars
<1>9. CASE TakeLockFails(t)
    BY <1>1, <1>2, <1>9 DEF TakeLockFails, LockTTL, Fault, TypeOK, envVars, sweepVars, callVars, pollVars
<1>10. CASE PollFails(t)
    BY <1>1, <1>2, <1>10 DEF PollFails, Fault, TypeOK, envVars, sweepVars, pollVars
<1> QED BY <1>4, <1>5, <1>6, <1>7, <1>8, <1>9, <1>10 DEF Queue, Worker, WorkerFault

LEMMA SweepsKeepTypes ==
    ASSUME TypeOK, NEW i \in Instances,
           \/ StartSweep(i) \/ Crash(i) \/ ScheduleSwap(i)
           \/ \E t \in Trips : Enqueue(i, t) \/ EnqueueFails(i, t) \/ Take(i, t)
    PROVE  TypeOK'
<1>1. /\ ClassifyEvery \in Nat /\ LeaseTicks \in Nat /\ FarAhead \in Nat
      /\ MaxFaults \in Nat /\ MaxSwaps \in Nat /\ MaxRetry \in Nat /\ Horizon \in Nat
    BY PollingAssumption DEF PollingAssumption
<1>2. CASE StartSweep(i)
    BY <1>1, <1>2 DEF StartSweep, TypeOK, envVars, queueVars, workVars, callVars, pollVars
<1>3. CASE Crash(i)
    BY <1>1, <1>3 DEF Crash, Fault, TypeOK, envVars, callVars, pollVars
<1>4. CASE ScheduleSwap(i)
  <2>1. swaps' \in 0..MaxSwaps
      BY <1>1, <1>4 DEF ScheduleSwap, TypeOK
  <2>2. steady' = FALSE /\ polledAgo' \in [Trips -> 0..Horizon] /\ retained' \in [Trips -> Nat]
      BY <1>1, <1>4 DEF ScheduleSwap, Unsteady, Zero
  <2>3. known' \in [Instances -> SUBSET Trips] /\ toDep' \in [Trips -> 0..FarAhead]
    <3>1. \A s \in SUBSET Trips : [known EXCEPT ![i] = s] \in [Instances -> SUBSET Trips]
        BY DEF TypeOK
    <3>2. \A u \in Trips, d \in 0..FarAhead : [toDep EXCEPT ![u] = d] \in [Trips -> 0..FarAhead]
        BY DEF TypeOK
    <3>3. CASE toDep' = toDep
      <4>1. known' \in {[known EXCEPT ![i] = s] : s \in SUBSET Trips} \/ known' = known
          BY <1>4 DEF ScheduleSwap
      <4> QED BY <3>1, <3>3, <4>1 DEF TypeOK
    <3>4. CASE toDep' # toDep
      <4>1. /\ toDep' \in {[toDep EXCEPT ![u] = d] : u \in Trips, d \in 0..FarAhead}
            /\ known' = known
          BY <1>4, <3>4 DEF ScheduleSwap
      <4>2. toDep' \in [Trips -> 0..FarAhead]
          BY <3>2, <4>1
      <4>3. known' \in [Instances -> SUBSET Trips]
          BY <4>1 DEF TypeOK
      <4> QED BY <4>2, <4>3
    <3> QED BY <3>3, <3>4
  <2>4. UNCHANGED <<sweepVars, queueVars, workVars, callVars, faults>>
      BY <1>4 DEF ScheduleSwap
  <2> QED BY <2>1, <2>2, <2>3, <2>4 DEF TypeOK, sweepVars, queueVars, workVars, callVars
<1>5. ASSUME NEW t \in Trips, Enqueue(i, t) PROVE TypeOK'
  <2>1. Interval(t) \in Nat
      BY IntervalInTable
  <2>2. sweeping' = [sweeping EXCEPT ![i] = @ \ {t}]
        /\ UNCHANGED <<envVars, sweepIn, workVars, callVars, pollVars, faults>>
      BY <1>5 DEF Enqueue, Swept
  <2>3. \/ UNCHANGED <<task, wait, keep, retried>>
        \/ /\ task' = [task EXCEPT ![t] = "scheduled"] /\ wait' = [wait EXCEPT ![t] = Interval(t)]
           /\ keep' = [keep EXCEPT ![t] = Interval(t)] /\ retried' = [retried EXCEPT ![t] = 0]
      BY <1>5 DEF Enqueue, FirstDelay, Retention, queueVars
  <2> QED BY <1>1, <2>1, <2>2, <2>3 DEF TypeOK, envVars, workVars, callVars, pollVars
<1>6. ASSUME NEW t \in Trips, EnqueueFails(i, t) PROVE TypeOK'
    BY <1>1, <1>6 DEF EnqueueFails, Swept, Fault, TypeOK, envVars, queueVars, workVars, callVars, pollVars
<1>7. ASSUME NEW t \in Trips, Take(i, t) PROVE TypeOK'
    BY <1>7 DEF Take, Move, TypeOK, envVars, sweepVars, callVars, pollVars
<1> QED BY <1>2, <1>3, <1>4, <1>5, <1>6, <1>7

LEMMA TickKeepsTypes ==
    ASSUME TypeOK, Tick
    PROVE  TypeOK'
<1>1. /\ ClassifyEvery \in Nat /\ FarAhead \in Nat /\ Slowest \in Nat /\ Horizon \in Nat
    BY PollingAssumption DEF PollingAssumption
<1>2. /\ polledAgo' \in [Trips -> 0..Horizon] /\ retained' \in [Trips -> Nat] /\ steady' \in BOOLEAN
  <2>1. CASE Unsteady
    <3>1. polledAgo' \in [Trips -> 0..Horizon] /\ retained' \in [Trips -> Nat]
        BY <1>1, <2>1 DEF Unsteady, Zero
    <3>2. steady' \in BOOLEAN
        BY <2>1, Zenon DEF Unsteady
    <3> QED BY <3>1, <3>2
  <2>2. CASE /\ polledAgo' = [t \in Trips |-> IF retained[t] = 0 THEN 0 ELSE Up(polledAgo[t], Horizon)]
             /\ UNCHANGED <<steady, retained>>
    <3>1. polledAgo' \in [Trips -> 0..Horizon]
        BY <1>1, <2>2, Counting DEF TypeOK
    <3>2. steady' \in BOOLEAN
        BY <2>2, Zenon DEF TypeOK
    <3> QED BY <2>2, <3>1, <3>2 DEF TypeOK
  <2> QED BY <2>1, <2>2 DEF Tick
<1>3. /\ toDep' \in [Trips -> 0..FarAhead] /\ sweepIn' \in [Instances -> 0..ClassifyEvery]
      /\ wait' \in [Trips -> Nat] /\ lock' \in [Trips -> 0..Slowest]
      /\ calledAgo' \in [Trips -> 0..Slowest]
    BY <1>1, Counting DEF Tick, TypeOK
<1>4. UNCHANGED <<known, swaps, sweeping, task, keep, retried, worker, step, spacing, faults>>
    BY DEF Tick
<1> QED BY <1>2, <1>3, <1>4 DEF TypeOK

(* Every variable of the polling keeps its type. *)
THEOREM TypeCorrect == Spec => []TypeOK
<1>1. Init => TypeOK
    BY PollingAssumption DEF Init, TypeOK, Zero, PollingAssumption
<1>2. ASSUME TypeOK, [Next]_vars PROVE TypeOK'
  <2>1. CASE UNCHANGED vars
      BY <1>2, <2>1 DEF TypeOK, vars, envVars, sweepVars, queueVars, workVars, callVars, pollVars
  <2> QED BY <1>2, <2>1, WorkKeepsTypes, SweepsKeepTypes, TickKeepsTypes DEF Next
<1> QED BY <1>1, <1>2, PTL DEF Spec

(***************************************************************************)
(* The gap between two polls                                               *)
(*                                                                         *)
(* The invariant bounds what is still to come: Owed ticks after now, the   *)
(* trip is polled unless something fails.  The worst is an attempt that    *)
(* finds a lock, for its task is retained, the trip swept and the next     *)
(* task delayed.                                                           *)
(***************************************************************************)

(* A trip does not get less urgent as its departure comes nearer. *)
ByUrgency == \A y, z \in DOMAIN Zones : y <= z => Zones[y].every <= Zones[z].every

(* Each retry is owed to a fault. *)
RetriesInv ==
    \A t \in Trips :
        /\ retried[t] <= faults
        /\ worker[t] # NoWorker => task[t] = "active"
        /\ task[t] = "active" /\ worker[t] = NoWorker => retried[t] < faults
        /\ task[t] # "archived"

(* A lock does not outlive the task that took it, unless that is retried.  *)
CadenceOK(t) ==
    /\ task[t] # "none" => Interval(t) <= keep[t] /\ lock[t] <= keep[t]
    /\ retained[t] > 0 => Interval(t) <= retained[t]
    /\ task[t] # "none" /\ retained[t] > 0 => keep[t] <= retained[t]
    /\ task[t] \in {"none", "scheduled"} => lock[t] = 0
    /\ task[t] = "completed" => lock[t] <= wait[t]

CadenceInv == steady => \A t \in Trips : CadenceOK(t)

(* Ticks from the completion of a task to the end of the next one's delay. *)
NextRound(t) == keep[t] + ClassifyEvery + retained[t]

SweepWait(i, t) == IF t \in sweeping[i] THEN 0 ELSE sweepIn[i]

Attempt(t) == IF lock[t] = 0 THEN 0 ELSE NextRound(t)

Bound(t) == Round(t) + faults * (FaultDelay + Round(t))

Within(t, owed) == polledAgo[t] + owed <= Bound(t)

GapOK(t) ==
    /\ task[t] = "none" => \A i \in Instances : Within(t, SweepWait(i, t) + retained[t])
    /\ task[t] = "scheduled" => Within(t, wait[t])
    /\ task[t] = "pending" => Within(t, Attempt(t))
    /\ Working(t, "start") => Within(t, Attempt(t))
    /\ Working(t, "fetch") => Within(t, 0)
    /\ Working(t, "done") => Within(t, NextRound(t))
    /\ task[t] = "active" /\ worker[t] = NoWorker =>
         Within(t, wait[t] + RetryDelay + NextRound(t))
    /\ task[t] = "retry" => Within(t, wait[t] + NextRound(t))
    /\ task[t] = "completed" => Within(t, wait[t] + ClassifyEvery + retained[t])

EverywhereKnown(t) == \A i \in Instances : t \in known[i]

GapInv ==
    \A t \in Trips : retained[t] > 0 => steady /\ (EverywhereKnown(t) => GapOK(t))

Plenty == MaxFaults <= MaxRetry

LEMMA FaultsCount ==
    ASSUME TypeOK
    PROVE  /\ faults \in Nat /\ MaxFaults \in Nat /\ MaxRetry \in Nat /\ faults <= MaxFaults
           /\ Fault => faults' = faults + 1 /\ faults' <= MaxFaults
BY PollingAssumption DEF PollingAssumption, TypeOK, Fault

LEMMA RetryCounted ==
    ASSUME Plenty, TypeOK, RetriesInv, NEW t \in Trips, Retry(t),
           faults' \in Nat, faults <= faults', faults' <= MaxFaults, retried[t] < faults'
    PROVE  RetriesInv'
<1>1. retried[t] < MaxRetry /\ \A u \in Trips : retried[u] \in Nat
    BY FaultsCount DEF Plenty, TypeOK
<1>2. /\ task' = [task EXCEPT ![t] = "retry"]
      /\ retried' = [retried EXCEPT ![t] = @ + 1]
      /\ worker' = [worker EXCEPT ![t] = NoWorker]
    BY <1>1 DEF Retry, Retries, Move
<1> QED BY <1>1, <1>2, FaultsCount DEF RetriesInv, TypeOK

LEMMA RetriesStep ==
    ASSUME Plenty, TypeOK, RetriesInv, [Next]_vars
    PROVE  RetriesInv'
<1>1. /\ \A u \in Trips : retried[u] \in Nat
      /\ faults \in Nat /\ MaxFaults \in Nat /\ faults <= MaxFaults
    BY FaultsCount DEF TypeOK
<1>2. ASSUME NEW t \in Trips, Complete(t), faults' = faults PROVE RetriesInv'
    BY <1>2 DEF Complete, Move, RetriesInv, TypeOK
<1>3. ASSUME NEW t \in Trips, Queue(t) PROVE RetriesInv'
  <2>1. CASE Forward(t) \/ RemoveCompleted(t)
      BY <2>1 DEF Forward, RemoveCompleted, Move, RetriesInv, TypeOK, workVars
  <2>2. CASE Recover(t)
      BY <1>1, <2>2, RetryCounted DEF Recover, RetriesInv
  <2> QED BY <1>3, <2>1, <2>2 DEF Queue
<1>4. ASSUME NEW t \in Trips, Worker(t) PROVE RetriesInv'
  <2>1. CASE SkipUnknown(t) \/ SkipLocked(t) \/ Acknowledge(t)
      BY <1>2, <2>1 DEF SkipUnknown, SkipLocked, Acknowledge
  <2>2. CASE TakeLock(t) \/ PollSucceeds(t)
      BY <2>2 DEF TakeLock, PollSucceeds, RetriesInv, queueVars
  <2> QED BY <1>4, <2>1, <2>2 DEF Worker
<1>5. ASSUME NEW t \in Trips, WorkerFault(t) PROVE RetriesInv'
  <2>1. Fault /\ Retry(t)
      BY <1>5 DEF WorkerFault, TakeLockFails, PollFails
  <2>2. faults' = faults + 1 /\ faults' <= MaxFaults
      BY <2>1, FaultsCount
  <2>3. retried[t] < faults'
      BY <1>1, <2>2 DEF RetriesInv
  <2> QED BY <1>1, <2>1, <2>2, <2>3, RetryCounted
<1>6. ASSUME NEW i \in Instances, NEW t \in Trips, Enqueue(i, t) PROVE RetriesInv'
  <2>1. UNCHANGED <<worker, faults>>
      BY <1>6 DEF Enqueue, workVars
  <2>2. \/ UNCHANGED <<task, retried>>
        \/ /\ task[t] = "none" /\ task' = [task EXCEPT ![t] = "scheduled"]
           /\ retried' = [retried EXCEPT ![t] = 0]
      BY <1>6 DEF Enqueue, queueVars
  <2> QED BY <1>1, <2>1, <2>2 DEF RetriesInv, TypeOK
<1>7. ASSUME NEW i \in Instances, NEW t \in Trips, EnqueueFails(i, t) PROVE RetriesInv'
  <2>1. UNCHANGED <<task, retried, worker>> /\ faults' = faults + 1
      BY <1>7, FaultsCount DEF EnqueueFails, queueVars, workVars
  <2> QED BY <1>1, <2>1 DEF RetriesInv
<1>8. ASSUME NEW i \in Instances, NEW t \in Trips, Take(i, t) PROVE RetriesInv'
  <2>1. i # NoWorker
      BY PollingAssumption DEF PollingAssumption
  <2> QED BY <1>8, <2>1 DEF Take, Move, RetriesInv, TypeOK
<1>9. ASSUME NEW i \in Instances, Crash(i) PROVE RetriesInv'
  <2>1. UNCHANGED <<task, retried>> /\ faults' = faults + 1
      BY <1>9, FaultsCount DEF Crash
  <2>2. \A t \in Trips : worker'[t] = worker[t] \/ worker'[t] = NoWorker
      BY <1>9 DEF Crash
  <2> QED BY <1>1, <2>1, <2>2 DEF RetriesInv
<1>10. ASSUME NEW i \in Instances, StartSweep(i) \/ ScheduleSwap(i) PROVE RetriesInv'
    BY <1>10 DEF StartSweep, ScheduleSwap, RetriesInv, queueVars, workVars
<1>11. CASE Tick
    BY <1>11 DEF Tick, RetriesInv
<1>12. CASE UNCHANGED vars
    BY <1>12 DEF vars, RetriesInv, queueVars, workVars
<1> QED BY <1>3, <1>4, <1>5, <1>6, <1>7, <1>8, <1>9, <1>10, <1>11, <1>12 DEF Next

(* The zone that ClassifyZone takes when those of m match. *)
FirstZone(m) == IF m = {} THEN Len(Zones) ELSE CHOOSE z \in m : \A y \in m : z <= y

LEMMA SoonerIsMoreUrgent ==
    ASSUME ByUrgency, NEW m \in SUBSET DOMAIN Zones, NEW n \in SUBSET DOMAIN Zones, m \subseteq n
    PROVE  /\ Zones[FirstZone(n)].every \in Nat
           /\ Zones[FirstZone(n)].every <= Zones[FirstZone(m)].every
<1>1. /\ DOMAIN Zones = 1..Len(Zones) /\ Len(Zones) \in Nat /\ Len(Zones) >= 1
      /\ \A z \in DOMAIN Zones : Zones[z].every \in Nat
  <2> DEFINE zone == [below : Nat, every : 1..Slowest]
  <2>1. Zones \in Seq(zone) /\ Zones # <<>> /\ \A z \in zone : z.every \in Nat
      BY PollingAssumption DEF PollingAssumption
  <2> HIDE DEF zone
  <2> QED BY <2>1
<1>2. ASSUME NEW s \in SUBSET DOMAIN Zones
      PROVE  /\ FirstZone(s) \in DOMAIN Zones
             /\ \A y \in s : FirstZone(s) \in s /\ FirstZone(s) <= y
  <2>1. CASE s = {}
      BY <1>1, <2>1 DEF FirstZone
  <2>2. CASE s # {}
    <3>1. \E z \in s : \A y \in s : z <= y
        BY <1>1, <2>2, LeastExists
    <3> QED BY <2>2, <3>1 DEF FirstZone
  <2> QED BY <2>1, <2>2
<1>3. FirstZone(n) <= FirstZone(m)
  <2>1. CASE m = {}
      BY <1>1, <1>2, <2>1 DEF FirstZone
  <2>2. CASE m # {}
      BY <1>2, <2>2
  <2> QED BY <2>1, <2>2
<1> QED BY <1>1, <1>2, <1>3 DEF ByUrgency

LEMMA IntervalFalls ==
    ASSUME ByUrgency, TypeOK, Tick, NEW t \in Trips
    PROVE  Interval(t)' \in Nat /\ Interval(t)' <= Interval(t)
<1> DEFINE m == {z \in DOMAIN Zones : toDep[t] < Zones[z].below}
           n == {z \in DOMAIN Zones : toDep'[t] < Zones[z].below}
<1>1. Interval(t) = Zones[FirstZone(m)].every /\ Interval(t)' = Zones[FirstZone(n)].every
    BY DEF Interval, ClassifyZone, FirstZone
<1>2. toDep[t] \in Nat /\ toDep'[t] \in Nat /\ toDep'[t] <= toDep[t]
  <2>1. toDep'[t] = Down(toDep[t])
      BY DEF Tick
  <2>2. toDep[t] \in Nat
      BY PollingAssumption DEF PollingAssumption, TypeOK
  <2> QED BY <2>1, <2>2 DEF Down
<1>3. \A z \in DOMAIN Zones : Zones[z].below \in Nat
  <2> DEFINE zone == [below : Nat, every : 1..Slowest]
  <2>1. Zones \in Seq(zone)
      BY PollingAssumption DEF PollingAssumption
  <2>2. \A z \in DOMAIN Zones : Zones[z] \in zone
    <3> HIDE DEF zone
    <3> QED BY <2>1
  <2> QED BY <2>2
<1>4. m \subseteq n
    BY <1>2, <1>3
<1>5. m \in SUBSET DOMAIN Zones /\ n \in SUBSET DOMAIN Zones
    OBVIOUS
<1> HIDE DEF m, n
<1> QED BY <1>1, <1>4, <1>5, SoonerIsMoreUrgent

LEMMA IntervalStays ==
    ASSUME toDep' = toDep, NEW t
    PROVE  Interval(t)' = Interval(t)
BY DEF Interval, ClassifyZone

(***************************************************************************)
(* Locks and retentions                                                    *)
(***************************************************************************)

(* What leaves a trip alone. *)
LEMMA CadenceOfOthers ==
    ASSUME NEW t, CadenceOK(t), toDep' = toDep, task'[t] = task[t], keep'[t] = keep[t],
           lock'[t] = lock[t], retained'[t] = retained[t], wait'[t] = wait[t]
    PROVE  CadenceOK(t)'
BY IntervalStays DEF CadenceOK

LEMMA CadenceWork ==
    ASSUME TypeOK, steady, CadenceInv, NEW t \in Trips, Queue(t) \/ Worker(t) \/ WorkerFault(t)
    PROVE  CadenceInv'
<1>1. toDep' = toDep /\ Interval(t)' = Interval(t) /\ Interval(t) \in Nat
  <2>1. toDep' = toDep
      BY DEF Queue, Forward, RemoveCompleted, Recover, Worker, SkipUnknown, TakeLock, SkipLocked,
             PollSucceeds, Acknowledge, WorkerFault, TakeLockFails, PollFails, envVars
  <2> QED BY <2>1, IntervalStays, IntervalInTable
<1>2. CadenceOK(t) /\ \A u \in Trips : CadenceOK(u)
    BY DEF CadenceInv
<1>3. ASSUME NEW u \in Trips \ {t} PROVE CadenceOK(u)'
  <2>1. /\ task'[u] = task[u] /\ keep'[u] = keep[u] /\ lock'[u] = lock[u]
        /\ retained'[u] = retained[u] /\ wait'[u] = wait[u]
    <3>1. CASE Queue(t)
        BY <3>1 DEF TypeOK, Queue, Forward, RemoveCompleted, Recover, Retry, Move, workVars, pollVars
    <3>2. CASE Worker(t)
        BY <3>2 DEF TypeOK, Worker, SkipUnknown, TakeLock, SkipLocked, PollSucceeds, Acknowledge,
                    Complete, Move, queueVars, workVars, pollVars, LockTTL, LockAfterPoll
    <3>3. CASE WorkerFault(t)
      <4>1. Retry(t) /\ retained' = retained
          BY <3>3 DEF WorkerFault, TakeLockFails, PollFails, pollVars
      <4>2. \/ lock' = lock
            \/ lock' = [lock EXCEPT ![t] = Interval(t)]
            \/ lock' = [lock EXCEPT ![t] = 0]
          BY <3>3 DEF WorkerFault, TakeLockFails, PollFails, LockTTL
      <4>3. lock'[u] = lock[u]
          BY <4>2 DEF TypeOK
      <4>4. task'[u] = task[u] /\ keep'[u] = keep[u] /\ wait'[u] = wait[u]
          BY <4>1 DEF Retry, Move, TypeOK
      <4> QED BY <4>1, <4>3, <4>4
    <3> QED BY <3>1, <3>2, <3>3
  <2> QED BY <1>1, <1>2, <2>1, CadenceOfOthers
<1>4. wait[t] \in Nat /\ keep[t] \in Nat /\ lock[t] \in Nat /\ retained[t] \in Nat
    BY PollingAssumption DEF PollingAssumption, TypeOK
<1>5. CadenceOK(t)'
  <2>1. ASSUME Complete(t), UNCHANGED <<lock, retained>>, task[t] # "none"
        PROVE  CadenceOK(t)'
    <3>1. task'[t] = "completed" /\ wait'[t] = keep[t] /\ keep' = keep
        BY <2>1 DEF Complete, Move, TypeOK
    <3> QED BY <1>1, <1>2, <2>1, <3>1 DEF CadenceOK
  <2>2. ASSUME Retry(t), UNCHANGED retained, task[t] # "none", lock'[t] <= keep[t]
        PROVE  CadenceOK(t)'
    <3>1. task'[t] \in {"retry", "archived"} /\ keep' = keep
        BY <2>2 DEF Retry, Move, TypeOK
    <3> QED BY <1>1, <1>2, <2>2, <3>1 DEF CadenceOK
  <2>3. CASE Forward(t)
    <3>1. task'[t] = "pending" /\ task[t] # "none" /\ UNCHANGED <<wait, keep, lock, retained>>
        BY <2>3 DEF Forward, Move, TypeOK, workVars, pollVars
    <3> QED BY <1>1, <1>2, <3>1 DEF CadenceOK
  <2>4. CASE RemoveCompleted(t)
    <3>1. /\ task[t] = "completed" /\ wait[t] = 0 /\ task'[t] = "none"
          /\ UNCHANGED <<wait, keep, lock, retained>>
        BY <2>4 DEF RemoveCompleted, Move, TypeOK, workVars, pollVars
    <3> QED BY <1>1, <1>2, <1>4, <3>1 DEF CadenceOK
  <2>5. CASE Recover(t)
    <3>1. Retry(t) /\ task[t] = "active" /\ UNCHANGED <<lock, retained>>
        BY <2>5 DEF Recover, pollVars
    <3> QED BY <1>2, <2>2, <3>1 DEF CadenceOK
  <2>6. CASE SkipUnknown(t) \/ SkipLocked(t) \/ Acknowledge(t)
    <3>1. Complete(t) /\ task[t] = "active" /\ UNCHANGED <<lock, retained>>
        BY <2>6 DEF SkipUnknown, SkipLocked, Acknowledge, MayTry, Working, pollVars
    <3> QED BY <2>1, <3>1
  <2>7. CASE TakeLock(t)
    <3>1. task[t] = "active" /\ lock'[t] = Interval(t) /\ UNCHANGED <<task, keep, wait, retained>>
        BY <2>7 DEF TakeLock, MayTry, Working, LockTTL, TypeOK, queueVars, pollVars
    <3> QED BY <1>1, <1>2, <3>1 DEF CadenceOK
  <2>8. CASE PollSucceeds(t)
    <3>1. /\ task[t] = "active" /\ lock'[t] = lock[t] /\ UNCHANGED <<task, keep, wait>>
          /\ retained'[t] = keep[t]
        BY <2>8 DEF PollSucceeds, Working, LockAfterPoll, TypeOK, queueVars
    <3> QED BY <1>1, <1>2, <1>4, <3>1 DEF CadenceOK
  <2>9. CASE TakeLockFails(t)
    <3>1. /\ Retry(t) /\ task[t] = "active" /\ UNCHANGED retained
          /\ lock'[t] = lock[t] \/ lock'[t] = Interval(t)
        BY <2>9 DEF TakeLockFails, MayTry, Working, LockTTL, TypeOK, pollVars
    <3> QED BY <1>2, <2>2, <3>1 DEF CadenceOK
  <2>10. CASE PollFails(t)
    <3>1. /\ Retry(t) /\ task[t] = "active" /\ UNCHANGED retained
          /\ lock'[t] = lock[t] \/ lock'[t] = 0
        BY <2>10 DEF PollFails, Working, TypeOK, pollVars
    <3> QED BY <1>2, <1>4, <2>2, <3>1 DEF CadenceOK
  <2> QED BY <2>3, <2>4, <2>5, <2>6, <2>7, <2>8, <2>9, <2>10 DEF Queue, Worker, WorkerFault
<1> QED BY <1>3, <1>5 DEF CadenceInv

LEMMA CadenceStep ==
    ASSUME ByUrgency, TypeOK, RetriesInv, CadenceInv, [Next]_vars
    PROVE  CadenceInv'
<1> SUFFICES ASSUME steady' PROVE CadenceInv'
    BY DEF CadenceInv
<1>1. CASE \E t \in Trips : Queue(t) \/ Worker(t) \/ WorkerFault(t)
  <2>1. steady
      BY <1>1 DEF Queue, Forward, RemoveCompleted, Recover, Worker, SkipUnknown, TakeLock, SkipLocked,
             PollSucceeds, Acknowledge, WorkerFault, TakeLockFails, PollFails, pollVars
  <2> QED BY <1>1, <2>1, CadenceWork
<1>2. ASSUME NEW i \in Instances, ScheduleSwap(i) PROVE FALSE
    BY <1>2 DEF ScheduleSwap, Unsteady
<1>3. CASE Tick
  <2>1. steady /\ ~SomethingDue /\ retained' = retained
      BY <1>3 DEF Tick, Unsteady
  <2>2. task' = task /\ keep' = keep
      BY <1>3 DEF Tick
  <2>3. ASSUME NEW t \in Trips PROVE CadenceOK(t)'
    <3>1. wait'[t] = Down(wait[t]) /\ lock'[t] = Down(lock[t])
        BY <1>3 DEF Tick
    <3>2. wait[t] \in Nat /\ keep[t] \in Nat /\ lock[t] \in Nat /\ retained[t] \in Nat
        BY PollingAssumption DEF PollingAssumption, TypeOK
    <3>3. Interval(t)' \in Nat /\ Interval(t) \in Nat /\ Interval(t)' <= Interval(t)
        BY <1>3, IntervalFalls, IntervalInTable
    <3>4. task[t] = "completed" => wait[t] # 0
        BY <2>1 DEF SomethingDue
    <3>5. CadenceOK(t)
        BY <2>1 DEF CadenceInv
    <3> QED BY <2>1, <2>2, <3>1, <3>2, <3>3, <3>4, <3>5 DEF CadenceOK, Down
  <2> QED BY <2>3 DEF CadenceInv
<1>4. CASE \E i \in Instances, t \in Trips : Enqueue(i, t)
  <2>1. PICK i \in Instances, t \in Trips : Enqueue(i, t)
      BY <1>4
  <2>2. steady /\ UNCHANGED <<toDep, lock, retained>>
      BY <2>1 DEF Enqueue, envVars, workVars, pollVars
  <2>3. \A u \in Trips : CadenceOK(u)
      BY <2>2 DEF CadenceInv
  <2>4. CASE UNCHANGED queueVars
      BY <2>2, <2>3, <2>4, CadenceOfOthers DEF queueVars, CadenceInv
  <2>5. CASE /\ task[t] = "none"
             /\ task' = [task EXCEPT ![t] = "scheduled"]
             /\ keep' = [keep EXCEPT ![t] = Interval(t)]
             /\ wait' = [wait EXCEPT ![t] = Interval(t)]
    <3>1. CadenceOK(t)'
      <4>1. task'[t] = "scheduled" /\ keep'[t] = Interval(t)
          BY <2>5 DEF TypeOK
      <4>2. Interval(t)' = Interval(t) /\ Interval(t) \in Nat
          BY <2>2, IntervalStays, IntervalInTable
      <4> QED BY <2>2, <2>3, <2>5, <4>1, <4>2 DEF CadenceOK
    <3>2. ASSUME NEW u \in Trips \ {t} PROVE CadenceOK(u)'
      <4>1. task'[u] = task[u] /\ keep'[u] = keep[u] /\ wait'[u] = wait[u]
          BY <2>5 DEF TypeOK
      <4> QED BY <2>2, <2>3, <4>1, CadenceOfOthers
    <3> QED BY <3>1, <3>2 DEF CadenceInv
  <2> QED BY <2>1, <2>4, <2>5 DEF Enqueue, FirstDelay, Retention
<1>5. CASE \E i \in Instances : Crash(i)
  <2>1. PICK i \in Instances : Crash(i)
      BY <1>5
  <2>2. steady /\ UNCHANGED <<toDep, task, keep, lock, retained>>
      BY <2>1 DEF Crash, envVars, pollVars
  <2>3. ASSUME NEW t \in Trips PROVE CadenceOK(t)'
    <3>1. i # NoWorker
        BY PollingAssumption DEF PollingAssumption
    <3>2. task[t] = "completed" => wait'[t] = wait[t]
        BY <2>1, <3>1 DEF Crash, RetriesInv
    <3>3. CadenceOK(t)
        BY <2>2 DEF CadenceInv
    <3> QED BY <2>2, <3>2, <3>3, IntervalStays DEF CadenceOK
  <2> QED BY <2>3 DEF CadenceInv
<1>6. CASE \E i \in Instances, t \in Trips : Take(i, t)
  <2>1. PICK i \in Instances, t \in Trips : Take(i, t)
      BY <1>6
  <2>2. steady /\ UNCHANGED <<toDep, wait, keep, lock, retained>>
      BY <2>1 DEF Take, envVars, pollVars
  <2>3. task[t] = "pending" /\ task' = [task EXCEPT ![t] = "active"]
      BY <2>1 DEF Take, Move
  <2>4. ASSUME NEW u \in Trips PROVE CadenceOK(u)'
    <3>1. CadenceOK(u)
        BY <2>2 DEF CadenceInv
    <3>2. \/ task'[u] = task[u]
          \/ task[u] = "pending" /\ task'[u] = "active"
        BY <2>3 DEF TypeOK
    <3> QED BY <2>2, <3>1, <3>2, IntervalStays DEF CadenceOK
  <2> QED BY <2>4 DEF CadenceInv
<1>7. ASSUME steady, UNCHANGED <<toDep, task, keep, lock, retained, wait>> PROVE CadenceInv'
    BY <1>7, CadenceOfOthers DEF CadenceInv
<1>8. CASE \/ \E i \in Instances : StartSweep(i)
           \/ \E i \in Instances, t \in Trips : EnqueueFails(i, t)
           \/ UNCHANGED vars
  <2>1. steady /\ UNCHANGED <<toDep, task, keep, lock, retained, wait>>
      BY <1>8 DEF StartSweep, EnqueueFails, vars, envVars, queueVars, workVars, pollVars
  <2> QED BY <1>7, <2>1
<1> QED BY <1>1, <1>2, <1>3, <1>4, <1>5, <1>6, <1>8 DEF Next

(***************************************************************************)
(* What is owed                                                            *)
(***************************************************************************)

LEMMA Products ==
    ASSUME NEW f \in Nat, NEW r \in Nat
    PROVE  f * r \in Nat /\ (f + 1) * r = f * r + r
OBVIOUS

LEMMA Amounts ==
    ASSUME TypeOK, NEW t \in Trips
    PROVE  /\ wait[t] \in Nat /\ keep[t] \in Nat /\ lock[t] \in Nat
           /\ retained[t] \in Nat /\ polledAgo[t] \in Nat
           /\ ClassifyEvery \in Nat /\ LeaseTicks \in Nat /\ RetryDelay \in Nat
           /\ \A i \in Instances : sweepIn[i] \in Nat /\ sweepIn[i] <= ClassifyEvery
           /\ FaultDelay = LeaseTicks + RetryDelay
           /\ Round(t) = 2 * retained[t] + ClassifyEvery
           /\ Bound(t) \in Nat /\ Round(t) <= Bound(t)
<1>1. /\ wait[t] \in Nat /\ keep[t] \in Nat /\ lock[t] \in Nat
      /\ retained[t] \in Nat /\ polledAgo[t] \in Nat /\ faults \in Nat
      /\ ClassifyEvery \in Nat /\ LeaseTicks \in Nat /\ RetryDelay \in Nat
      /\ \A i \in Instances : sweepIn[i] \in Nat /\ sweepIn[i] <= ClassifyEvery
    BY PollingAssumption DEF PollingAssumption, TypeOK
<1>2. Round(t) \in Nat /\ FaultDelay + Round(t) \in Nat
    BY <1>1 DEF Round, FaultDelay
<1>3. faults * (FaultDelay + Round(t)) \in Nat
    BY <1>1, <1>2, Products
<1> QED BY <1>1, <1>2, <1>3 DEF Bound, Round, FaultDelay

(* A fault buys the time to its retry and one more round. *)
LEMMA BoundGrows ==
    ASSUME TypeOK, NEW t \in Trips, retained'[t] = retained[t]
    PROVE  /\ faults' = faults => Bound(t)' = Bound(t)
           /\ faults' = faults + 1 => Bound(t)' = Bound(t) + FaultDelay + Round(t)
<1>1. faults \in Nat /\ Round(t) \in Nat /\ FaultDelay \in Nat /\ FaultDelay + Round(t) \in Nat
    BY Amounts, FaultsCount
<1>2. Round(t)' = Round(t)
    BY DEF Round
<1>3. Bound(t)' = Round(t) + faults' * (FaultDelay + Round(t))
    BY <1>2 DEF Bound
<1>4. faults * (FaultDelay + Round(t)) \in Nat
      /\ (faults + 1) * (FaultDelay + Round(t)) = faults * (FaultDelay + Round(t)) + (FaultDelay + Round(t))
    BY <1>1, Products
<1> QED BY <1>1, <1>3, <1>4 DEF Bound

(* A step elsewhere, which may be a fault. *)
LEMMA GapElsewhere ==
    ASSUME TypeOK, NEW t \in Trips, GapOK(t),
           task'[t] = task[t], wait'[t] = wait[t], keep'[t] = keep[t], lock'[t] = lock[t],
           worker'[t] = worker[t], step'[t] = step[t],
           polledAgo'[t] = polledAgo[t], retained'[t] = retained[t],
           task[t] = "none" => \A i \in Instances : SweepWait(i, t)' <= SweepWait(i, t),
           \A i \in Instances : SweepWait(i, t)' \in Nat,
           faults' \in {faults, faults + 1}
    PROVE  GapOK(t)'
<1>1. Bound(t)' \in Nat /\ Bound(t) <= Bound(t)'
    BY Amounts, BoundGrows, FaultsCount
<1>2. \A i \in Instances : SweepWait(i, t) \in Nat
    BY Amounts DEF SweepWait
<1> QED BY <1>1, <1>2, Amounts DEF GapOK, Within, Attempt, NextRound, Working

(* A poll owes the completion of its task and the next round. *)
LEMMA GapPolled ==
    ASSUME TypeOK, NEW t \in Trips, steady, PollSucceeds(t)
    PROVE  GapOK(t)'
<1>1. /\ task[t] = "active" /\ worker[t] # NoWorker /\ step'[t] = "done"
      /\ UNCHANGED <<task, worker, keep, faults>>
      /\ polledAgo'[t] = 0 /\ retained'[t] = keep[t]
    BY DEF PollSucceeds, Working, TypeOK, queueVars
<1>2. Bound(t)' \in Nat /\ 2 * keep[t] + ClassifyEvery <= Bound(t)'
  <2>1. faults \in Nat /\ ClassifyEvery \in Nat /\ keep[t] \in Nat /\ FaultDelay \in Nat
      BY Amounts, FaultsCount
  <2>2. Round(t)' = 2 * keep[t] + ClassifyEvery
      BY <1>1 DEF Round
  <2>3. Bound(t)' = Round(t)' + faults * (FaultDelay + Round(t)')
      BY <1>1 DEF Bound
  <2>4. faults * (FaultDelay + (2 * keep[t] + ClassifyEvery)) \in Nat
      BY <2>1, Products
  <2> QED BY <2>1, <2>2, <2>3, <2>4
<1> QED BY <1>1, <1>2, Amounts DEF GapOK, Within, NextRound, Working

(* The queue and the workers at the trip itself. *)
LEMMA GapWork ==
    ASSUME TypeOK, NEW t \in Trips, RetriesInv, RetriesInv', CadenceOK(t), steady,
           retained[t] > 0, EverywhereKnown(t), GapOK(t),
           Queue(t) \/ Worker(t) \/ WorkerFault(t)
    PROVE  GapOK(t)'
<1> USE DEF GapOK, Within, Attempt, NextRound, Working
<1>1. ASSUME Complete(t), task[t] = "active", UNCHANGED <<polledAgo, retained, faults>>,
             Within(t, NextRound(t))
      PROVE  GapOK(t)'
  <2>1. task'[t] = "completed" /\ wait'[t] = keep[t]
      BY <1>1 DEF Complete, Move, TypeOK
  <2>2. Bound(t)' = Bound(t)
      BY <1>1, BoundGrows
  <2> QED BY <1>1, <2>1, <2>2, Amounts
<1>2. ASSUME Retry(t), UNCHANGED <<polledAgo, retained>>,
             polledAgo[t] + RetryDelay + NextRound(t) <= Bound(t)'
      PROVE  GapOK(t)'
  <2>1. task'[t] = "retry" /\ wait'[t] = RetryDelay /\ keep' = keep
    <3>1. task'[t] # "archived"
        BY <1>2 DEF RetriesInv
    <3> QED BY <1>2, <3>1 DEF Retry, Move, TypeOK
  <2> QED BY <1>2, <2>1, Amounts
<1>3. CASE Forward(t)
  <2>1. /\ task[t] \in {"scheduled", "retry"} /\ wait[t] = 0 /\ task'[t] = "pending"
        /\ UNCHANGED <<keep, lock, polledAgo, retained, faults>>
      BY <1>3 DEF Forward, Move, TypeOK, workVars, pollVars
  <2>2. Bound(t)' = Bound(t)
      BY <2>1, BoundGrows
  <2> QED BY <2>1, <2>2, Amounts DEF CadenceOK
<1>4. CASE RemoveCompleted(t)
  <2>1. /\ task[t] = "completed" /\ wait[t] = 0 /\ task'[t] = "none"
        /\ UNCHANGED <<sweepIn, sweeping, polledAgo, retained, faults>>
      BY <1>4 DEF RemoveCompleted, Move, TypeOK, sweepVars, pollVars
  <2>2. Bound(t)' = Bound(t)
      BY <2>1, BoundGrows
  <2>3. \A i \in Instances : SweepWait(i, t)' <= ClassifyEvery /\ SweepWait(i, t)' \in Nat
      BY <2>1, Amounts DEF SweepWait
  <2> QED BY <2>1, <2>2, <2>3, Amounts
<1>5. CASE Recover(t)
  <2>1. /\ task[t] = "active" /\ worker[t] = NoWorker /\ wait[t] = 0 /\ Retry(t)
        /\ UNCHANGED <<polledAgo, retained, faults>>
      BY <1>5 DEF Recover, pollVars
  <2>2. Bound(t)' = Bound(t)
      BY <2>1, BoundGrows
  <2> QED BY <1>2, <2>1, <2>2, Amounts
<1>6. CASE SkipUnknown(t)
  <2>1. worker[t] \in Instances /\ t \notin known[worker[t]]
      BY <1>6 DEF SkipUnknown, TypeOK
  <2> QED BY <2>1 DEF EverywhereKnown
<1>7. CASE TakeLock(t)
  <2>1. /\ Working(t, "start") /\ lock[t] = 0 /\ step'[t] = "fetch"
        /\ UNCHANGED <<task, worker, wait, keep, polledAgo, retained, faults>>
      BY <1>7 DEF TakeLock, MayTry, TypeOK, queueVars, pollVars
  <2>2. Bound(t)' = Bound(t)
      BY <2>1, BoundGrows
  <2> QED BY <2>1, <2>2, Amounts
<1>8. CASE SkipLocked(t)
  <2>1. /\ Working(t, "start") /\ lock[t] > 0 /\ Complete(t)
        /\ UNCHANGED <<polledAgo, retained, faults>>
      BY <1>8 DEF SkipLocked, MayTry, pollVars
  <2> QED BY <1>1, <2>1, Amounts
<1>9. CASE Acknowledge(t)
  <2>1. Working(t, "done") /\ Complete(t) /\ UNCHANGED <<polledAgo, retained, faults>>
      BY <1>9 DEF Acknowledge, pollVars
  <2> QED BY <1>1, <2>1
<1>10. CASE TakeLockFails(t)
  <2>1. Working(t, "start") /\ Fault /\ Retry(t) /\ UNCHANGED <<polledAgo, retained>>
      BY <1>10 DEF TakeLockFails, MayTry, pollVars
  <2>2. Bound(t)' = Bound(t) + FaultDelay + Round(t)
      BY <2>1, BoundGrows, FaultsCount
  <2> QED BY <1>2, <2>1, <2>2, Amounts DEF CadenceOK
<1>11. CASE PollFails(t)
  <2>1. Working(t, "fetch") /\ Fault /\ Retry(t) /\ UNCHANGED <<polledAgo, retained>>
      BY <1>11 DEF PollFails, pollVars
  <2>2. Bound(t)' = Bound(t) + FaultDelay + Round(t)
      BY <2>1, BoundGrows, FaultsCount
  <2> QED BY <1>2, <2>1, <2>2, Amounts DEF CadenceOK
<1> QED BY <1>3, <1>4, <1>5, <1>6, <1>7, <1>8, <1>9, <1>10, <1>11, GapPolled DEF Queue, Worker, WorkerFault

(* Time passes only when what is due is done, so what is owed comes nearer. *)
LEMMA GapTick ==
    ASSUME TypeOK, NEW t \in Trips, RetriesInv, GapOK(t), Tick, retained'[t] > 0
    PROVE  GapOK(t)'
<1>1. /\ ~SomethingDue /\ retained'[t] = retained[t] /\ polledAgo'[t] <= polledAgo[t] + 1
      /\ polledAgo'[t] \in Nat
  <2>1. ~Unsteady
      BY DEF Unsteady, Zero
  <2>2. /\ steady /\ ~SomethingDue /\ retained' = retained
        /\ polledAgo' = [u \in Trips |-> IF retained[u] = 0 THEN 0 ELSE Up(polledAgo[u], Horizon)]
      BY <2>1 DEF Tick
  <2> QED BY <2>2, Amounts DEF Up
<1>2. /\ wait'[t] = Down(wait[t]) /\ lock'[t] = Down(lock[t])
      /\ \A i \in Instances : sweepIn'[i] = Down(sweepIn[i])
      /\ UNCHANGED <<sweeping, task, keep, worker, step, faults>>
    BY DEF Tick
<1>3. Bound(t)' = Bound(t)
    BY <1>1, <1>2, BoundGrows
<1>4. /\ \A i \in Instances : sweepIn[i] # 0 /\ t \notin sweeping[i]
      /\ task[t] # "pending" /\ worker[t] = NoWorker
      /\ task[t] \notin {"none", "archived"} => wait[t] # 0
    BY <1>1 DEF SomethingDue
<1>5. \A i \in Instances : SweepWait(i, t) = sweepIn[i] /\ SweepWait(i, t)' = sweepIn[i] - 1
    BY <1>2, <1>4, Amounts DEF SweepWait, Down
<1>6. task[t] \notin {"none", "archived"} => wait'[t] = wait[t] - 1
    BY <1>2, <1>4, Amounts DEF Down
<1> QED BY <1>1, <1>2, <1>3, <1>4, <1>5, <1>6, Amounts DEF GapOK, Within, NextRound, Working

(* A new task is due after the interval of its trip. *)
LEMMA GapEnqueue ==
    ASSUME TypeOK, NEW t \in Trips, CadenceOK(t), retained[t] > 0, GapOK(t),
           NEW i \in Instances, Enqueue(i, t)
    PROVE  GapOK(t)'
<1>1. /\ UNCHANGED <<sweepIn, lock, worker, step, polledAgo, retained, faults>>
      /\ sweeping' = [sweeping EXCEPT ![i] = @ \ {t}]
    BY DEF Enqueue, Swept, workVars, pollVars
<1>2. CASE task[t] = "none"
  <2>1. task'[t] = "scheduled" /\ wait'[t] = Interval(t)
      BY <1>2 DEF Enqueue, FirstDelay, TypeOK
  <2>2. Bound(t)' = Bound(t)
      BY <1>1, BoundGrows
  <2>3. Interval(t) \in Nat /\ Interval(t) <= retained[t]
      BY IntervalInTable DEF CadenceOK
  <2>4. SweepWait(i, t) \in Nat
      BY Amounts DEF SweepWait
  <2> QED BY <1>1, <1>2, <2>1, <2>2, <2>3, <2>4, Amounts DEF GapOK, Within, Working
<1>3. CASE task[t] # "none"
  <2>1. UNCHANGED <<task, wait, keep>>
      BY <1>3 DEF Enqueue, queueVars
  <2>2. \A j \in Instances : SweepWait(j, t)' \in Nat
      BY <1>1, Amounts DEF SweepWait
  <2> QED BY <1>1, <1>3, <2>1, <2>2, GapElsewhere
<1> QED BY <1>2, <1>3

(* A sweep that fails to enqueue the trip does it the next time. *)
LEMMA GapEnqueueFails ==
    ASSUME TypeOK, NEW t \in Trips, GapOK(t), NEW i \in Instances, EnqueueFails(i, t)
    PROVE  GapOK(t)'
<1>1. /\ UNCHANGED <<sweepIn, task, wait, keep, lock, worker, step, polledAgo, retained>>
      /\ sweeping' = [sweeping EXCEPT ![i] = @ \ {t}]
      /\ faults' = faults + 1
    BY FaultsCount DEF EnqueueFails, Swept, queueVars, workVars, pollVars
<1>2. Bound(t)' = Bound(t) + FaultDelay + Round(t)
    BY <1>1, BoundGrows
<1>3. \A j \in Instances : SweepWait(j, t)' \in Nat /\ SweepWait(j, t)' <= SweepWait(j, t) + ClassifyEvery
    BY <1>1, Amounts DEF SweepWait, TypeOK
<1>4. \A j \in Instances : SweepWait(j, t) \in Nat
    BY Amounts DEF SweepWait
<1>5. task[t] = "none" => \A j \in Instances : Within(t, SweepWait(j, t) + retained[t])'
    BY <1>1, <1>2, <1>3, <1>4, Amounts DEF GapOK, Within
<1> QED BY <1>1, <1>2, <1>5, Amounts DEF GapOK, Within, Attempt, NextRound, Working

(* A crash costs the lease, the retry and the round it may have to wait. *)
LEMMA GapCrash ==
    ASSUME TypeOK, NEW t \in Trips, RetriesInv, CadenceOK(t), retained[t] > 0, GapOK(t),
           NEW i \in Instances, Crash(i)
    PROVE  GapOK(t)'
<1>1. /\ UNCHANGED <<task, keep, lock, step, polledAgo, retained>>
      /\ faults' = faults + 1
      /\ worker'[t] = IF worker[t] = i THEN NoWorker ELSE worker[t]
      /\ wait'[t] = IF worker[t] = i THEN LeaseTicks ELSE wait[t]
      /\ sweeping' = [sweeping EXCEPT ![i] = {}] /\ sweepIn' = [sweepIn EXCEPT ![i] = 0]
    BY FaultsCount DEF Crash, pollVars
<1>2. Bound(t)' = Bound(t) + FaultDelay + Round(t)
    BY <1>1, BoundGrows
<1>3. CASE worker[t] = i
  <2>1. task[t] = "active" /\ worker[t] # NoWorker /\ keep[t] <= retained[t]
    <3>1. i # NoWorker
        BY PollingAssumption DEF PollingAssumption
    <3> QED BY <1>3, <3>1 DEF RetriesInv, CadenceOK
  <2>2. polledAgo[t] <= Bound(t)
      BY <2>1, Amounts DEF GapOK, Within, Attempt, NextRound, Working, TypeOK
  <2> QED BY <1>1, <1>2, <1>3, <2>1, <2>2, Amounts DEF GapOK, Within, NextRound, Working
<1>4. CASE worker[t] # i
  <2>1. \A j \in Instances : SweepWait(j, t)' \in Nat /\ SweepWait(j, t)' <= SweepWait(j, t)
      BY <1>1, Amounts DEF SweepWait, TypeOK
  <2> QED BY <1>1, <1>4, <2>1, GapElsewhere
<1> QED BY <1>3, <1>4

(* The work of other trips leaves this one alone. *)
LEMMA GapOthers ==
    ASSUME TypeOK, NEW t \in Trips, GapOK(t), NEW u \in Trips, u # t,
           \/ Queue(u) \/ Worker(u) \/ WorkerFault(u)
           \/ \E i \in Instances : Enqueue(i, u) \/ EnqueueFails(i, u) \/ Take(i, u)
    PROVE  GapOK(t)'
<1>1. /\ task'[t] = task[t] /\ wait'[t] = wait[t] /\ keep'[t] = keep[t] /\ lock'[t] = lock[t]
      /\ worker'[t] = worker[t] /\ step'[t] = step[t]
      /\ polledAgo'[t] = polledAgo[t] /\ retained'[t] = retained[t]
      /\ faults' \in {faults, faults + 1}
      /\ sweepIn' = sweepIn /\ \A i \in Instances : t \in sweeping'[i] <=> t \in sweeping[i]
  <2> USE DEF TypeOK
  <2>1. ASSUME Retry(u) PROVE /\ task'[t] = task[t] /\ wait'[t] = wait[t] /\ keep'[t] = keep[t]
                              /\ worker'[t] = worker[t] /\ step'[t] = step[t]
      BY <2>1 DEF Retry, Move
  <2>2. CASE Queue(u)
      BY <2>1, <2>2 DEF Queue, Forward, RemoveCompleted, Recover, Move, workVars, sweepVars, pollVars
  <2>3. CASE Worker(u)
    <3>1. CASE SkipUnknown(u) \/ SkipLocked(u) \/ Acknowledge(u)
        BY <3>1 DEF SkipUnknown, SkipLocked, Acknowledge, Complete, Move, sweepVars, pollVars
    <3>2. CASE TakeLock(u)
        BY <3>2 DEF TakeLock, queueVars, sweepVars, pollVars
    <3>3. CASE PollSucceeds(u)
        BY <3>3 DEF PollSucceeds, queueVars, sweepVars
    <3> QED BY <2>3, <3>1, <3>2, <3>3 DEF Worker
  <2>4. CASE WorkerFault(u)
    <3>1. Retry(u) /\ Fault /\ UNCHANGED <<sweepIn, sweeping, polledAgo, retained>>
        BY <2>4 DEF WorkerFault, TakeLockFails, PollFails, sweepVars, pollVars
    <3>2. \/ lock' = lock
          \/ lock' = [lock EXCEPT ![u] = Interval(u)]
          \/ lock' = [lock EXCEPT ![u] = 0]
        BY <2>4 DEF WorkerFault, TakeLockFails, PollFails, LockTTL
    <3>3. lock'[t] = lock[t]
        BY <3>2
    <3> QED BY <2>1, <3>1, <3>3, FaultsCount
  <2>5. ASSUME NEW i \in Instances, Enqueue(i, u) \/ EnqueueFails(i, u)
        PROVE  \A j \in Instances : t \in sweeping'[j] <=> t \in sweeping[j]
    <3>1. sweeping' = [sweeping EXCEPT ![i] = @ \ {u}]
        BY <2>5 DEF Enqueue, EnqueueFails, Swept
    <3> QED BY <3>1
  <2>6. ASSUME NEW i \in Instances, Enqueue(i, u)
        PROVE  task'[t] = task[t] /\ wait'[t] = wait[t] /\ keep'[t] = keep[t]
      BY <2>6 DEF Enqueue, queueVars
  <2>7. ASSUME NEW i \in Instances, Enqueue(i, u)
        PROVE  UNCHANGED <<sweepIn, lock, worker, step, polledAgo, retained, faults>>
      BY <2>7 DEF Enqueue, workVars, pollVars
  <2>8. ASSUME NEW i \in Instances, EnqueueFails(i, u)
        PROVE  /\ UNCHANGED <<task, wait, keep, sweepIn, lock, worker, step, polledAgo, retained>>
               /\ faults' = faults + 1
      BY <2>8, FaultsCount DEF EnqueueFails, queueVars, workVars, pollVars
  <2>9. ASSUME NEW i \in Instances, Take(i, u)
        PROVE  /\ UNCHANGED <<wait, keep, sweepIn, sweeping, lock, polledAgo, retained, faults>>
               /\ task'[t] = task[t] /\ worker'[t] = worker[t] /\ step'[t] = step[t]
      BY <2>9 DEF Take, Move, sweepVars, pollVars
  <2> QED BY <2>2, <2>3, <2>4, <2>5, <2>6, <2>7, <2>8, <2>9
<1>2. \A i \in Instances : SweepWait(i, t)' = SweepWait(i, t) /\ SweepWait(i, t)' \in Nat
    BY <1>1, Amounts DEF SweepWait
<1> QED BY <1>1, <1>2, GapElsewhere


LEMMA GapStep ==
    ASSUME TypeOK, RetriesInv, RetriesInv', CadenceInv, GapInv, [Next]_vars
    PROVE  GapInv'
<1> SUFFICES ASSUME NEW t \in Trips, retained'[t] > 0
             PROVE  steady' /\ (EverywhereKnown(t)' => GapOK(t)')
    BY DEF GapInv
<1>1. ASSUME steady' = steady, known' = known, retained'[t] = retained[t],
             ASSUME steady, CadenceOK(t), EverywhereKnown(t), GapOK(t), retained[t] > 0
             PROVE  GapOK(t)'
      PROVE  steady' /\ (EverywhereKnown(t)' => GapOK(t)')
  <2>1. retained[t] > 0
      BY <1>1
  <2>2. steady /\ CadenceOK(t) /\ (EverywhereKnown(t) => GapOK(t))
      BY <2>1 DEF GapInv, CadenceInv
  <2>3. steady'
      BY <1>1, <2>2, Zenon
  <2>4. EverywhereKnown(t)' => EverywhereKnown(t)
      BY <1>1 DEF EverywhereKnown
  <2> QED BY <1>1, <2>1, <2>2, <2>3, <2>4
<1>2. ASSUME NEW i \in Instances, ScheduleSwap(i) PROVE FALSE
    BY <1>2 DEF ScheduleSwap, Unsteady, Zero
<1>3. ASSUME NEW i \in Instances, StartSweep(i)
      PROVE  steady' /\ (EverywhereKnown(t)' => GapOK(t)')
  <2>1. /\ UNCHANGED <<known, steady, task, wait, keep, lock, worker, step, polledAgo, retained, faults>>
        /\ sweepIn[i] = 0 /\ sweeping' = [sweeping EXCEPT ![i] = known[i]]
        /\ sweepIn' = [sweepIn EXCEPT ![i] = ClassifyEvery]
      BY <1>3 DEF StartSweep, envVars, queueVars, workVars, pollVars
  <2>2. EverywhereKnown(t) =>
          \A j \in Instances : SweepWait(j, t)' \in Nat /\ SweepWait(j, t)' <= SweepWait(j, t)
      BY <2>1, Amounts DEF SweepWait, EverywhereKnown, TypeOK
  <2>3. ASSUME EverywhereKnown(t), GapOK(t) PROVE GapOK(t)'
      BY <2>1, <2>2, <2>3, GapElsewhere
  <2> QED BY <1>1, <2>1, <2>3
<1>4. ASSUME NEW i \in Instances, Crash(i)
      PROVE  steady' /\ (EverywhereKnown(t)' => GapOK(t)')
  <2>1. UNCHANGED <<known, steady, retained>>
      BY <1>4 DEF Crash, envVars, pollVars
  <2> QED BY <1>1, <1>4, <2>1, GapCrash
<1>5. ASSUME NEW i \in Instances, NEW u \in Trips, Enqueue(i, u) \/ EnqueueFails(i, u) \/ Take(i, u)
      PROVE  steady' /\ (EverywhereKnown(t)' => GapOK(t)')
  <2>1. UNCHANGED <<known, steady, retained>>
      BY <1>5 DEF Enqueue, EnqueueFails, Take, envVars, pollVars
  <2>2. CASE u # t
      BY <1>1, <1>5, <2>1, <2>2, GapOthers
  <2>3. CASE u = t /\ Enqueue(i, t)
      BY <1>1, <2>1, <2>3, GapEnqueue
  <2>4. CASE u = t /\ EnqueueFails(i, t)
      BY <1>1, <2>1, <2>4, GapEnqueueFails
  <2>5. CASE u = t /\ Take(i, t)
    <3>1. /\ task[t] = "pending" /\ task'[t] = "active" /\ worker'[t] = i /\ step'[t] = "start"
          /\ UNCHANGED <<wait, keep, lock, polledAgo, retained, faults>>
        BY <2>5 DEF Take, Move, TypeOK, pollVars
    <3>2. Bound(t)' = Bound(t) /\ i # NoWorker
        BY <3>1, BoundGrows, PollingAssumption DEF PollingAssumption
    <3>3. GapOK(t) => GapOK(t)'
        BY <3>1, <3>2, Amounts DEF GapOK, Within, Attempt, NextRound, Working
    <3> QED BY <1>1, <2>1, <3>3
  <2> QED BY <1>5, <2>2, <2>3, <2>4, <2>5
<1>6. ASSUME NEW u \in Trips, Queue(u) \/ Worker(u) \/ WorkerFault(u)
      PROVE  steady' /\ (EverywhereKnown(t)' => GapOK(t)')
  <2>1. UNCHANGED <<known, steady>>
      BY <1>6 DEF Queue, Forward, RemoveCompleted, Recover, Worker, SkipUnknown, TakeLock, SkipLocked,
             PollSucceeds, Acknowledge, WorkerFault, TakeLockFails, PollFails, envVars, pollVars
  <2>2. CASE PollSucceeds(t)
    <3>1. steady
        BY <2>2, Zenon DEF PollSucceeds, GapInv
    <3>2. GapOK(t)'
        BY <2>2, <3>1, GapPolled
    <3>3. steady'
        BY <2>1, <3>1, Zenon
    <3> QED BY <3>2, <3>3
  <2>3. CASE ~PollSucceeds(t)
    <3>1. retained'[t] = retained[t]
      <4>1. CASE UNCHANGED retained
          BY <4>1
      <4>2. CASE PollSucceeds(u)
          BY <2>3, <4>2 DEF PollSucceeds, TypeOK
      <4> QED BY <1>6, <4>1, <4>2
               DEF Queue, Forward, RemoveCompleted, Recover, Worker, SkipUnknown, TakeLock, SkipLocked,
                   Acknowledge, WorkerFault, TakeLockFails, PollFails, pollVars
    <3>2. CASE u = t
        BY <1>1, <1>6, <2>1, <3>1, <3>2, GapWork
    <3>3. CASE u # t
        BY <1>1, <1>6, <2>1, <3>1, <3>3, GapOthers
    <3> QED BY <3>2, <3>3
  <2> QED BY <2>2, <2>3
<1>7. CASE Tick
  <2>1. ~Unsteady
      BY DEF Unsteady, Zero
  <2>2. UNCHANGED <<steady, retained, known>>
      BY <1>7, <2>1 DEF Tick
  <2> QED BY <1>1, <1>7, <2>2, GapTick
<1>8. CASE UNCHANGED vars
  <2>1. UNCHANGED <<known, steady, task, wait, keep, lock, worker, step, polledAgo, retained, faults,
                    sweepIn, sweeping>>
      BY <1>8 DEF vars, envVars, sweepVars, queueVars, workVars, pollVars
  <2>2. \A j \in Instances : SweepWait(j, t)' \in Nat /\ SweepWait(j, t)' <= SweepWait(j, t)
      BY <2>1, Amounts DEF SweepWait
  <2>3. GapOK(t) => GapOK(t)'
      BY <2>1, <2>2, GapElsewhere
  <2> QED BY <1>1, <2>1, <2>3
<1> QED BY <1>2, <1>3, <1>4, <1>5, <1>6, <1>7, <1>8 DEF Next

(* While the workers keep up and the schedule stays, the gap between two   *)
(* polls of a trip is bounded, for any number of trips, instances and      *)
(* zones and any interleaving of sweeps, workers, expiries, failed calls   *)
(* and crashes.  Assumed of the constants: the intervals of zone.go ascend *)
(* with the time to departure, as they do there, and no task runs out of   *)
(* retries.                                                                *)
THEOREM GapsAreBounded ==
    ASSUME ByUrgency, Plenty PROVE Spec => []PollGapBounded
<1>1. Init => RetriesInv /\ CadenceInv /\ GapInv
    BY DEF Init, Zero, RetriesInv, CadenceInv, CadenceOK, GapInv
<1>2. TypeOK /\ RetriesInv /\ [Next]_vars => RetriesInv'
    BY RetriesStep
<1>3. TypeOK /\ RetriesInv /\ CadenceInv /\ [Next]_vars => CadenceInv'
    BY CadenceStep
<1>4. TypeOK /\ RetriesInv /\ RetriesInv' /\ CadenceInv /\ GapInv /\ [Next]_vars => GapInv'
    BY GapStep
<1>5. TypeOK /\ RetriesInv /\ GapInv => PollGapBounded
  <2> SUFFICES ASSUME TypeOK, RetriesInv, GapInv, NEW t \in Trips, retained[t] > 0, EverywhereKnown(t)
               PROVE  polledAgo[t] <= Bound(t)
      BY DEF PollGapBounded, Bound, EverywhereKnown
  <2>1. GapOK(t)
      BY DEF GapInv
  <2>2. \A i \in Instances : SweepWait(i, t) \in Nat
      BY Amounts DEF SweepWait
  <2>3. CASE task[t] = "none"
    <3>1. PICK i \in Instances : TRUE
        BY PollingAssumption DEF PollingAssumption
    <3>2. Within(t, SweepWait(i, t) + retained[t])
        BY <2>1, <2>3, <3>1 DEF GapOK
    <3> QED BY <2>2, <3>1, <3>2, Amounts DEF Within
  <2>4. CASE task[t] # "none"
      BY <2>1, <2>4, Amounts DEF GapOK, Within, Attempt, NextRound, Working, RetriesInv, TypeOK
  <2> QED BY <2>3, <2>4
<1> QED BY <1>1, <1>2, <1>3, <1>4, <1>5, TypeCorrect, PTL DEF Spec
================================================================================
