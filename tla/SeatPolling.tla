------------------------------ MODULE SeatPolling ------------------------------
(***************************************************************************)
(* How trips get polled (internal/seat/zone.go, poller.go).  Every         *)
(* instance of the program sweeps its schedule and enqueues one delayed    *)
(* task per trip, with an interval set by how soon the trip departs; a     *)
(* worker of any instance takes the task when it is due, takes the lock of *)
(* the trip for that interval, asks the provider and runs the Lua gate.    *)
(*                                                                         *)
(* The queue is a library (asynq) kept in Redis: a task id exists at most  *)
(* once, in whatever state, finished tasks stay for their retention, a     *)
(* failed task is retried MaxRetry times and archived after that, and a    *)
(* task whose worker died is retried when its lease is over.               *)
(*                                                                         *)
(* Time is counted in ticks; every deadline is a countdown.                *)
(***************************************************************************)
EXTENDS Integers, Sequences

CONSTANTS
    Trips,
    Instances,
    NoWorker,
    Zones,         \* zones by urgency, [below |-> ticks to departure, every |-> ticks]
    Slowest,       \* bound: the longest of their intervals
    ClassifyEvery, \* ticks between sweeps
    MaxRetry,      \* retries of a task
    RetryDelay,    \* ticks before a retry
    LeaseTicks,    \* ticks until the task of a dead worker is recovered
    FarAhead,      \* bound: ticks to the departure of a trip
    Horizon,       \* bound: ticks counted since a poll
    MaxFaults,     \* bound: failed calls and crashes
    MaxSwaps       \* bound: schedule changes

ASSUME PollingAssumption ==
    /\ Instances # {} /\ NoWorker \notin Instances
    /\ Slowest \in Nat
    /\ Zones \in Seq([below : Nat, every : 1..Slowest]) /\ Zones # <<>>
    /\ {ClassifyEvery, RetryDelay, LeaseTicks} \subseteq Nat \ {0}
    /\ {MaxRetry, FarAhead, Horizon, MaxFaults, MaxSwaps} \subseteq Nat

VARIABLES
    toDep,     \* ticks to departure, 0 when departed
    known,     \* known[i]: the trips in the schedule of instance i
    sweepIn,   \* ticks to the next sweep of instance i
    sweeping,  \* trips the sweep in progress has still to enqueue
    task,      \* where the task of trip t is in the queue
    wait,      \* ticks until it is due, recovered or removed
    keep,      \* its retention
    retried,   \* its retries
    worker,    \* the instance that works on it
    step,      \* where that worker is
    lock,      \* ticks until poll_lock of t expires, 0 when there is none
    calledAgo, \* ghost: ticks since the provider was last asked
    spacing,   \* ghost: the interval that call had to keep, 0 if it failed
    steady,    \* ghost: the schedule is the first, and all that was due so far
               \* was done within its tick
    polledAgo, \* ghost, while steady: ticks since the last successful poll
    retained,  \* ghost, while steady: the retention of its task, 0 before
    faults, swaps

queueVars == <<task, wait, keep, retried>>
workVars == <<worker, step, lock>>
sweepVars == <<sweepIn, sweeping>>
callVars == <<calledAgo, spacing>>
pollVars == <<polledAgo, retained, steady>>
envVars == <<toDep, known, swaps>>
vars == <<envVars, sweepVars, queueVars, workVars, callVars, pollVars, faults>>

(* The first zone that matches; the last one if none does. *)
ClassifyZone(t) ==
    LET matching == {z \in DOMAIN Zones : toDep[t] < Zones[z].below} IN
    Zones[IF matching = {} THEN Len(Zones)
          ELSE CHOOSE z \in matching : \A y \in matching : z <= y]

Interval(t) == ClassifyZone(t).every

Zero == [t \in Trips |-> 0]

Init ==
    /\ toDep \in [Trips -> 0..FarAhead]
    /\ known \in [Instances -> SUBSET Trips]
    /\ sweepIn = [i \in Instances |-> 0]
    /\ sweeping = [i \in Instances |-> {}]
    /\ task = [t \in Trips |-> "none"]
    /\ wait = Zero /\ keep = Zero /\ retried = Zero
    /\ worker = [t \in Trips |-> NoWorker]
    /\ step = [t \in Trips |-> "start"]
    /\ lock = Zero
    /\ calledAgo = Zero /\ spacing = Zero
    /\ polledAgo = Zero /\ retained = Zero /\ steady = TRUE
    /\ faults = 0 /\ swaps = 0

Fault == faults < MaxFaults /\ faults' = faults + 1

(***************************************************************************)
(* ZoneClassifyLoop                                                        *)
(***************************************************************************)

(* The first sweep runs at once, the next ones with the ticker. *)
StartSweep(i) ==
    /\ sweepIn[i] = 0 /\ sweeping[i] = {}
    /\ sweeping' = [sweeping EXCEPT ![i] = known[i]]
    /\ sweepIn' = [sweepIn EXCEPT ![i] = ClassifyEvery]
    /\ UNCHANGED <<envVars, queueVars, workVars, callVars, pollVars, faults>>

Swept(i, t) ==
    /\ t \in sweeping[i]
    /\ sweeping' = [sweeping EXCEPT ![i] = @ \ {t}]

(* ProcessIn, Retention and MaxRetry of a new task. *)
FirstDelay_Coldest(t) == Zones[Len(Zones)].every
FirstDelay(t) == Interval(t)
Retention(t) == Interval(t)
Retries_None == 0
Retries == MaxRetry

(* A task id that exists, in any state, is a conflict and nothing happens. *)
Enqueue(i, t) ==
    /\ Swept(i, t)
    /\ IF task[t] = "none"
       THEN /\ task' = [task EXCEPT ![t] = "scheduled"]
            /\ wait' = [wait EXCEPT ![t] = FirstDelay(t)]
            /\ keep' = [keep EXCEPT ![t] = Retention(t)]
            /\ retried' = [retried EXCEPT ![t] = 0]
       ELSE UNCHANGED queueVars
    /\ UNCHANGED <<envVars, sweepIn, workVars, callVars, pollVars, faults>>

(* The sweep goes on with the next trip. *)
EnqueueFails(i, t) ==
    /\ Swept(i, t)
    /\ Fault
    /\ UNCHANGED <<envVars, sweepIn, queueVars, workVars, callVars, pollVars>>

(***************************************************************************)
(* The queue                                                               *)
(***************************************************************************)

Move(t, to) == task' = [task EXCEPT ![t] = to]

Forward(t) ==
    /\ task[t] \in {"scheduled", "retry"} /\ wait[t] = 0
    /\ Move(t, "pending")
    /\ UNCHANGED <<envVars, sweepVars, wait, keep, retried, workVars, callVars, pollVars, faults>>

RemoveCompleted(t) ==
    /\ task[t] = "completed" /\ wait[t] = 0
    /\ Move(t, "none")
    /\ UNCHANGED <<envVars, sweepVars, wait, keep, retried, workVars, callVars, pollVars, faults>>

Take(i, t) ==
    /\ task[t] = "pending"
    /\ Move(t, "active")
    /\ worker' = [worker EXCEPT ![t] = i]
    /\ step' = [step EXCEPT ![t] = "start"]
    /\ UNCHANGED <<envVars, sweepVars, wait, keep, retried, lock, callVars, pollVars, faults>>

(* The handler returned nil. *)
Complete(t) ==
    /\ Move(t, "completed")
    /\ wait' = [wait EXCEPT ![t] = keep[t]]
    /\ worker' = [worker EXCEPT ![t] = NoWorker]
    /\ UNCHANGED <<keep, retried, step>>

(* It returned an error, or its worker died. *)
Retry(t) ==
    /\ IF retried[t] < Retries
       THEN /\ Move(t, "retry")
            /\ wait' = [wait EXCEPT ![t] = RetryDelay]
            /\ retried' = [retried EXCEPT ![t] = @ + 1]
       ELSE Move(t, "archived") /\ UNCHANGED <<wait, retried>>
    /\ worker' = [worker EXCEPT ![t] = NoWorker]
    /\ UNCHANGED <<keep, step>>

Recover(t) ==
    /\ task[t] = "active" /\ worker[t] = NoWorker /\ wait[t] = 0
    /\ Retry(t)
    /\ UNCHANGED <<envVars, sweepVars, lock, callVars, pollVars, faults>>

(***************************************************************************)
(* HandlePollTask                                                          *)
(***************************************************************************)

Working(t, where) == task[t] = "active" /\ worker[t] # NoWorker /\ step[t] = where

(* The trip left the schedule between enqueue and execution. *)
SkipUnknown(t) ==
    /\ Working(t, "start") /\ t \notin known[worker[t]]
    /\ Complete(t)
    /\ UNCHANGED <<envVars, sweepVars, lock, callVars, pollVars, faults>>

LockTTL(t) == Interval(t)

MayTry(t) == Working(t, "start") /\ t \in known[worker[t]]

(* SetNX succeeds, and the provider is asked. *)
TakeLock(t) ==
    /\ MayTry(t) /\ lock[t] = 0
    /\ lock' = [lock EXCEPT ![t] = LockTTL(t)]
    /\ step' = [step EXCEPT ![t] = "fetch"]
    /\ calledAgo' = [calledAgo EXCEPT ![t] = 0]
    /\ spacing' = [spacing EXCEPT ![t] = Interval(t)]
    /\ UNCHANGED <<envVars, sweepVars, queueVars, worker, pollVars, faults>>

SkipLocked(t) ==
    /\ MayTry(t) /\ lock[t] > 0
    /\ Complete(t)
    /\ UNCHANGED <<envVars, sweepVars, lock, callVars, pollVars, faults>>

(* SetNX returned an error; the key may have been set all the same. *)
TakeLockFails(t) ==
    /\ MayTry(t)
    /\ Fault
    /\ \/ UNCHANGED lock
       \/ lock[t] = 0 /\ lock' = [lock EXCEPT ![t] = LockTTL(t)]
    /\ Retry(t)
    /\ UNCHANGED <<envVars, sweepVars, callVars, pollVars>>

(* The lock is left to expire. *)
LockAfterPoll_Deleted(t) == 0
LockAfterPoll(t) == lock[t]

(* Provider and gate succeeded; the queue has not been told yet. *)
PollSucceeds(t) ==
    /\ Working(t, "fetch")
    /\ lock' = [lock EXCEPT ![t] = LockAfterPoll(t)]
    /\ step' = [step EXCEPT ![t] = "done"]
    /\ polledAgo' = [polledAgo EXCEPT ![t] = 0]
    /\ retained' = IF steady THEN [retained EXCEPT ![t] = keep[t]] ELSE retained
    /\ UNCHANGED <<envVars, sweepVars, queueVars, worker, callVars, steady, faults>>

Acknowledge(t) ==
    /\ Working(t, "done")
    /\ Complete(t)
    /\ UNCHANGED <<envVars, sweepVars, lock, callVars, pollVars, faults>>

(* Provider or gate failed: the task fails.  The lock is deleted, unless   *)
(* that fails too: nobody looks at its result.                             *)
PollFails(t) ==
    /\ Working(t, "fetch")
    /\ Fault
    /\ lock' \in {[lock EXCEPT ![t] = 0], lock}
    /\ spacing' = [spacing EXCEPT ![t] = 0]
    /\ Retry(t)
    /\ UNCHANGED <<envVars, sweepVars, calledAgo, pollVars>>

(***************************************************************************)
(* Crashes, schedule changes, time                                         *)
(***************************************************************************)

(* Workers and sweep of i are gone; it starts again. *)
Crash(i) ==
    /\ Fault
    /\ LET lost == {t \in Trips : worker[t] = i} IN
         /\ worker' = [t \in Trips |-> IF t \in lost THEN NoWorker ELSE worker[t]]
         /\ wait' = [t \in Trips |-> IF t \in lost THEN LeaseTicks ELSE wait[t]]
    /\ sweeping' = [sweeping EXCEPT ![i] = {}]
    /\ sweepIn' = [sweepIn EXCEPT ![i] = 0]
    /\ UNCHANGED <<envVars, task, keep, retried, step, lock, callVars, pollVars>>

Unsteady == steady' = FALSE /\ polledAgo' = Zero /\ retained' = Zero

(* A reload adds or drops trips, or moves a departure. *)
ScheduleSwap(i) ==
    /\ swaps < MaxSwaps
    /\ swaps' = swaps + 1
    /\ Unsteady
    /\ \/ /\ known' \in {[known EXCEPT ![i] = s] : s \in SUBSET Trips}
          /\ UNCHANGED toDep
       \/ /\ toDep' \in {[toDep EXCEPT ![t] = d] : t \in Trips, d \in 0..FarAhead}
          /\ UNCHANGED known
    /\ UNCHANGED <<sweepVars, queueVars, workVars, callVars, faults>>

Worker(t) ==
    \/ SkipUnknown(t) \/ TakeLock(t) \/ SkipLocked(t)
    \/ PollSucceeds(t) \/ Acknowledge(t)

WorkerFault(t) == TakeLockFails(t) \/ PollFails(t)

Queue(t) == Forward(t) \/ RemoveCompleted(t) \/ Recover(t)

(* Work that can be done without time passing. *)
SomethingDue ==
    \/ \E i \in Instances : sweepIn[i] = 0 \/ sweeping[i] # {}
    \/ \E t \in Trips : \/ task[t] = "pending"
                        \/ worker[t] # NoWorker
                        \/ task[t] \notin {"none", "archived"} /\ wait[t] = 0

Down(n) == IF n = 0 THEN 0 ELSE n - 1
Up(n, cap) == IF n = cap THEN cap ELSE n + 1

(* Time does not wait for what is due. *)
Tick ==
    /\ IF steady /\ ~SomethingDue
       THEN /\ polledAgo' = [t \in Trips |-> IF retained[t] = 0 THEN 0 ELSE Up(polledAgo[t], Horizon)]
            /\ UNCHANGED <<steady, retained>>
       ELSE Unsteady
    /\ toDep' = [t \in Trips |-> Down(toDep[t])]
    /\ sweepIn' = [i \in Instances |-> Down(sweepIn[i])]
    /\ wait' = [t \in Trips |-> Down(wait[t])]
    /\ lock' = [t \in Trips |-> Down(lock[t])]
    /\ calledAgo' = [t \in Trips |-> Up(calledAgo[t], Slowest)]
    /\ UNCHANGED <<known, swaps, sweeping, task, keep, retried, worker, step, spacing, faults>>

Next ==
    \/ \E i \in Instances : StartSweep(i) \/ Crash(i) \/ ScheduleSwap(i)
    \/ \E i \in Instances, t \in Trips : Enqueue(i, t) \/ EnqueueFails(i, t) \/ Take(i, t)
    \/ \E t \in Trips : Queue(t) \/ Worker(t) \/ WorkerFault(t)
    \/ Tick

Spec == Init /\ [][Next]_vars

(* Every sweep, the queue and every worker get their turn, and time goes on. *)
FairSpec ==
    /\ Spec
    /\ WF_vars(Tick)
    /\ \A i \in Instances : WF_vars(StartSweep(i))
    /\ \A t \in Trips :
         /\ WF_vars(\E i \in Instances : Enqueue(i, t))
         /\ WF_vars(\E i \in Instances : Take(i, t))
         /\ WF_vars(Queue(t)) /\ WF_vars(Worker(t))

(***************************************************************************)
(* Properties                                                              *)
(***************************************************************************)

(* The type of every variable. *)
TypeOK ==
    /\ toDep \in [Trips -> 0..FarAhead]
    /\ known \in [Instances -> SUBSET Trips]
    /\ sweepIn \in [Instances -> 0..ClassifyEvery]
    /\ sweeping \in [Instances -> SUBSET Trips]
    /\ task \in [Trips -> {"none", "scheduled", "pending", "active", "retry", "completed", "archived"}]
    /\ wait \in [Trips -> Nat] /\ keep \in [Trips -> Nat]
    /\ retried \in [Trips -> 0..MaxRetry]
    /\ worker \in [Trips -> Instances \cup {NoWorker}]
    /\ step \in [Trips -> {"start", "fetch", "done"}]
    /\ lock \in [Trips -> 0..Slowest]
    /\ calledAgo \in [Trips -> 0..Slowest] /\ spacing \in [Trips -> 0..Slowest]
    /\ polledAgo \in [Trips -> 0..Horizon] /\ retained \in [Trips -> Nat]
    /\ steady \in BOOLEAN
    /\ faults \in 0..MaxFaults /\ swaps \in 0..MaxSwaps

(* poller.go:31-34, README.md "expiry is the release, which is what        *)
(* rate-limits the upstream provider": unless the last call failed, the    *)
(* provider is not asked about a trip again within its interval, even when *)
(* a worker that crashed has its finished task done again.                 *)
RateLimited == [][\A t \in Trips : TakeLock(t) => calledAgo[t] >= spacing[t]]_vars

(* While the workers keep up and the schedule stays, a trip is polled      *)
(* again within twice the interval its last poll was scheduled with and    *)
(* one sweep: the delay of the next task only begins when the last one is  *)
(* no longer retained.  Every fault costs at most the time to its retry    *)
(* and, if that one finds the lock of the attempt that died or that failed *)
(* to release it, one more round, as long as no task runs out of retries.  *)
Round(t) == 2 * retained[t] + ClassifyEvery
FaultDelay == LeaseTicks + RetryDelay

PollGapBounded ==
    \A t \in Trips :
        retained[t] > 0 /\ (\A i \in Instances : t \in known[i]) =>
            polledAgo[t] <= Round(t) + faults * (FaultDelay + Round(t))

(* zone.go:120-121: a conflict "means the poll is already scheduled": a    *)
(* trip that stays in every schedule is polled again and again.            *)
EveryTripPolled ==
    \A t \in Trips :
        <>[](\A i \in Instances : t \in known[i]) => []<>(Working(t, "done"))
================================================================================
