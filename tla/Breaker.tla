------------------------------- MODULE Breaker -------------------------------
(***************************************************************************)
(* The circuit breaker of internal/breaker/breaker.go, shared by every     *)
(* search that wants to reach Redis.                                       *)
(*                                                                         *)
(* Each entry point runs under one mutex, so each is one action here.  The *)
(* callers are the goroutines that hold an admitted call: they call Allow, *)
(* are admitted, and some time later report Success or Failure, in any     *)
(* order.  A refused Allow changes nothing and is a stuttering step.       *)
(*                                                                         *)
(* Time is discrete.  The code compares now - openedAt with the cooldown,  *)
(* so `elapsed' keeps that difference, saturated at the cooldown.          *)
(***************************************************************************)
EXTENDS Integers, FiniteSets

CONSTANTS
    Callers,          \* goroutines that may hold a call through the breaker
    ThresholdSetting, \* first argument of New
    CooldownSetting,  \* second argument of New, in ticks
    CallTimeout       \* the longest an admitted call stays unreported, in ticks

ASSUME BreakerAssumption ==
    /\ IsFiniteSet(Callers)
    /\ ThresholdSetting \in Int
    /\ CooldownSetting \in Int
    /\ CallTimeout \in Nat

(* New falls back to 5 failures and 15 time units on non-positive values.  *)
Threshold == IF ThresholdSetting <= 0 THEN 5 ELSE ThresholdSetting
Cooldown  == IF CooldownSetting <= 0 THEN 15 ELSE CooldownSetting

Closed   == "closed"
Open     == "open"
HalfOpen == "half_open"

VARIABLES
    failures, \* consecutive failures since the last success
    state,    \* the stored state (State() reports an expired open breaker as half-open)
    elapsed,  \* now - openedAt, saturated at Cooldown
    probing,  \* a probe has been admitted and has not reported back
    call,     \* call[c]: what c's outstanding call was admitted as, or "none"
    age       \* age[c]: ticks since c's outstanding call was admitted

breakerVars == <<failures, state, elapsed, probing>>
callVars    == <<call, age>>
vars        == <<failures, state, elapsed, probing, call, age>>

InFlight == {c \in Callers : call[c] # "none"}
Probes   == {c \in Callers : call[c] = "probe"}

Init ==
    /\ failures = 0
    /\ state = Closed
    /\ elapsed = Cooldown   \* openedAt is the zero time
    /\ probing = FALSE
    /\ call = [c \in Callers |-> "none"]
    /\ age = [c \in Callers |-> 0]

(***************************************************************************)
(* Allow returns true                                                      *)
(***************************************************************************)

(* Variants of the rule below with a slip in them; the properties are      *)
(* checked to tell them from the code.  Other definitions have theirs.     *)
Admits_NoProbeLimit == state # Open \/ elapsed >= Cooldown

(* The state in which Allow admits its caller. *)
Admits ==
    \/ state = Closed
    \/ state = Open /\ elapsed >= Cooldown
    \/ state = HalfOpen /\ ~probing

(* An admission outside the closed state is a probe. *)
Allow(c) ==
    /\ call[c] = "none"
    /\ Admits
    /\ state' = IF state = Closed THEN Closed ELSE HalfOpen
    /\ probing' = (state # Closed)
    /\ call' = [call EXCEPT ![c] = IF state = Closed THEN "normal" ELSE "probe"]
    /\ age' = [age EXCEPT ![c] = 0]
    /\ UNCHANGED <<failures, elapsed>>

(* c's call is over: it has reported and holds no admission. *)
Settle(c) ==
    /\ call[c] # "none"
    /\ call' = [call EXCEPT ![c] = "none"]
    /\ age' = [age EXCEPT ![c] = 0]

Success(c) ==
    /\ Settle(c)
    /\ failures' = 0
    /\ probing' = FALSE
    /\ state' = Closed
    /\ UNCHANGED elapsed

(* Failures are counted except in the half-open state. *)
CountedFailures == IF state = HalfOpen THEN failures ELSE failures + 1

FailureOpens_OffByOne == state = HalfOpen \/ CountedFailures > Threshold
FailureOpens == state = HalfOpen \/ CountedFailures >= Threshold

(* openedAt = now() whenever a failure opens the breaker. *)
ElapsedAfter_OnlyTrips(opens) == IF opens /\ state = Closed THEN 0 ELSE elapsed
ElapsedAfter_Never(opens) == elapsed
ElapsedAfter(opens) == IF opens THEN 0 ELSE elapsed

ProbingAfterFailure == FALSE

(* Failure does not ask who reports: any failure that arrives in the       *)
(* half-open state ends the probe, and one that arrives while open counts  *)
(* and moves openedAt.                                                     *)
Failure(c) ==
    /\ Settle(c)
    /\ probing' = ProbingAfterFailure
    /\ failures' = CountedFailures
    /\ state' = IF FailureOpens THEN Open ELSE state
    /\ elapsed' = ElapsedAfter(FailureOpens)

(* Every call reports within CallTimeout: the request context and the      *)
(* Redis socket timeouts bound it.                                         *)
CallsInTime_NoTimeout == TRUE
CallsInTime == \A c \in InFlight : age[c] < CallTimeout

(* The wall clock. *)
Tick ==
    /\ CallsInTime
    /\ elapsed' = IF elapsed < Cooldown THEN elapsed + 1 ELSE Cooldown
    /\ age' = [c \in Callers |-> IF c \in InFlight THEN age[c] + 1 ELSE 0]
    /\ UNCHANGED <<failures, state, probing, call>>

Next ==
    \/ Tick
    \/ \E c \in Callers : Allow(c) \/ Success(c) \/ Failure(c)

Spec == Init /\ [][Next]_vars

(* What State() returns: observers see an expired open breaker as half-open. *)
ReportedState == IF state = Open /\ elapsed >= Cooldown THEN HalfOpen ELSE state

(***************************************************************************)
(* Properties                                                              *)
(***************************************************************************)

(* The type of every variable. *)
TypeOK ==
    /\ failures \in Nat
    /\ state \in {Closed, Open, HalfOpen}
    /\ elapsed \in 0..Cooldown
    /\ probing \in BOOLEAN
    /\ call \in [Callers -> {"none", "normal", "probe"}]
    /\ age \in [Callers -> 0..CallTimeout]

(* The `probing' flag and the half-open state always agree, so the branch  *)
(* of Allow that admits a caller in a half-open breaker without a probe    *)
(* (lines 80-83) is never taken, and a closed or open breaker never holds  *)
(* a leftover flag that would refuse the next probe.                       *)
ProbingIffHalfOpen == probing <=> state = HalfOpen

(* A half-open breaker is waiting for a call that is really outstanding,   *)
(* so it cannot refuse everybody forever; and every other call still in    *)
(* flight is at least a cooldown older than that probe.                    *)
HalfOpenAwaitsProbe ==
    state = HalfOpen =>
        \E p \in Probes : \A d \in InFlight \ {p} : age[d] >= age[p] + Cooldown

(* Whatever is in flight while the breaker is open was admitted no later   *)
(* than the failure the cooldown is counted from.                          *)
OpenCallsOlder == state = Open => \A c \in InFlight : age[c] >= elapsed

(* Two probes in flight at once were admitted at least one cooldown apart: *)
(* whatever order late reports arrive in, a struggling dependency gets at  *)
(* most one probe per cooldown.                                            *)
ProbesSpaced ==
    \A c, d \in Probes : c # d => \/ age[c] >= age[d] + Cooldown
                                  \/ age[d] >= age[c] + Cooldown

(* The failure counter of an open breaker cannot run away: each late       *)
(* failure that raises it uses up one of the calls that were in flight.    *)
FailuresBounded ==
    /\ state = Closed => failures < Threshold
    /\ state = Open =>
         failures + Cardinality(InFlight) < Threshold + Cardinality(Callers)

(* breaker.go:61-63: an open breaker "admits exactly one probe. Further    *)
(* calls are refused until that probe reports back".                       *)
SingleProbe == \A c, d \in Probes : c = d

(* README.md:190-192 promises a breaker that "stops sending calls entirely"*)
(* and then lets one through: while it is half-open, nothing but the probe *)
(* is at the dependency.                                                   *)
OnlyProbeInFlight == state = HalfOpen => \A c, d \in InFlight : c = d
==============================================================================
