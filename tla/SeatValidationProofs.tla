------------------------- MODULE SeatValidationProofs -------------------------
(***************************************************************************)
(* What the breaker guarantees for every number of callers, threshold,     *)
(* cooldown and call duration; then Validate for every number of searches, *)
(* every Redis that changes under them, every chunk size and every setting *)
(* of the breaker.                                                         *)
(***************************************************************************)
EXTENDS SeatValidation, FiniteSetTheorems, NaturalsInduction, WellFoundedInduction, TLAPS

LEMMA SettingsType == Threshold \in Nat \ {0} /\ Cooldown \in Nat \ {0}
BY BreakerAssumption DEF Threshold, Cooldown

(***************************************************************************)
(* Type correctness                                                        *)
(***************************************************************************)

(* `probing' is Boolean-valued, which the arithmetic prover handles badly; *)
(* its type is proved apart from the rest.                                 *)
DataTypeOK ==
    /\ failures \in Nat
    /\ state \in {Closed, Open, HalfOpen}
    /\ elapsed \in 0..Cooldown
    /\ call \in [Callers -> {"none", "normal", "probe"}]
    /\ age \in [Callers -> 0..CallTimeout]

LEMMA TypeOKSplit == TypeOK <=> DataTypeOK /\ probing \in BOOLEAN
BY DEF TypeOK, DataTypeOK

LEMMA TypeOKInit == Init => TypeOK
<1>1. Init => DataTypeOK
  BY SettingsType, BreakerAssumption DEF Init, DataTypeOK, Closed
<1>2. Init => probing \in BOOLEAN
  BY DEF Init
<1> QED BY <1>1, <1>2, TypeOKSplit

LEMMA TypeOKStep == TypeOK /\ [Next]_vars => TypeOK'
<1> SUFFICES ASSUME TypeOK, [Next]_vars PROVE TypeOK'
  OBVIOUS
<1>1. DataTypeOK'
  <2> USE SettingsType, BreakerAssumption DEF DataTypeOK, Closed, Open, HalfOpen
  <2>0. DataTypeOK
    BY TypeOKSplit
  <2>1. CASE Tick
    BY <2>0, <2>1 DEF Tick, CallsInTime, InFlight
  <2>2. ASSUME NEW c \in Callers, Allow(c) PROVE DataTypeOK'
    BY <2>0, <2>2 DEF Allow
  <2>3. ASSUME NEW c \in Callers, Success(c) PROVE DataTypeOK'
    BY <2>0, <2>3 DEF Success, Settle
  <2>4. ASSUME NEW c \in Callers, Failure(c) PROVE DataTypeOK'
    BY <2>0, <2>4 DEF Failure, Settle, CountedFailures, FailureOpens, ElapsedAfter
  <2>5. CASE UNCHANGED vars
    BY <2>0, <2>5 DEF vars
  <2> QED BY <2>1, <2>2, <2>3, <2>4, <2>5 DEF Next
<1>2. (probing \in BOOLEAN)'
  BY DEF TypeOK, Next, Tick, Allow, Success, Failure, ProbingAfterFailure, vars
<1>3. (DataTypeOK /\ probing \in BOOLEAN)' => TypeOK'
  BY DEF TypeOK, DataTypeOK
<1> QED BY <1>1, <1>2, <1>3

(* Every reachable state of the breaker and its callers has its type: the  *)
(* counters stay natural and no call outlives CallTimeout.                 *)
THEOREM TypeCorrect == Spec => []TypeOK
BY TypeOKInit, TypeOKStep, PTL DEF Spec

(***************************************************************************)
(* The probe                                                               *)
(***************************************************************************)

(* Calls admitted before the breaker opened are what makes the probe hard: *)
(* their late reports can end somebody else's probe.  The inductive        *)
(* invariant orders them by age against the cooldown.                      *)
ProbeInv ==
    /\ TypeOK
    /\ ProbingIffHalfOpen
    /\ OpenCallsOlder
    /\ HalfOpenAwaitsProbe
    /\ ProbesSpaced

LEMMA ProbeInvInit == Init => ProbeInv
<1> SUFFICES ASSUME Init PROVE ProbeInv
  OBVIOUS
<1>1. InFlight = {} /\ Probes = {}
  BY DEF Init, InFlight, Probes
<1>2. ProbingIffHalfOpen
  BY DEF Init, ProbingIffHalfOpen, Closed, HalfOpen
<1> QED
  BY <1>1, <1>2, TypeOKInit
     DEF Init, ProbeInv, OpenCallsOlder, HalfOpenAwaitsProbe, ProbesSpaced,
         Closed, HalfOpen

(* A report removes one call and leaves the ages of the others alone. *)
LEMMA SettleFacts ==
  ASSUME TypeOK, NEW c \in Callers, Settle(c)
  PROVE  /\ InFlight' = InFlight \ {c}
         /\ Probes' = Probes \ {c}
         /\ \A d \in Callers \ {c} : age'[d] = age[d]
BY DEF TypeOK, Settle, InFlight, Probes

LEMMA ProbeInvStep == ProbeInv /\ [Next]_vars => ProbeInv'
<1> SUFFICES ASSUME ProbeInv, [Next]_vars PROVE ProbeInv'
  OBVIOUS
<1>t. TypeOK'
  BY TypeOKStep DEF ProbeInv
<1> USE SettingsType DEF ProbeInv
<1>1. CASE Tick
  <2>1. /\ InFlight' = InFlight /\ Probes' = Probes /\ state' = state
        /\ Probes \subseteq InFlight /\ InFlight \subseteq Callers
        /\ \A c \in InFlight : age'[c] = age[c] + 1
    BY <1>1 DEF Tick, InFlight, Probes, TypeOK
  <2>2. \A c \in Callers : age[c] \in Nat /\ age'[c] \in Nat
    BY <1>t DEF TypeOK
  <2>3. ProbingIffHalfOpen'
    BY <1>1 DEF Tick, ProbingIffHalfOpen
  <2>4. OpenCallsOlder'
    <3>1. elapsed' <= elapsed + 1 /\ elapsed \in Nat /\ elapsed' \in Nat
      BY <1>1, <1>t DEF Tick, TypeOK
    <3> QED BY <2>1, <2>2, <3>1 DEF OpenCallsOlder
  <2>5. HalfOpenAwaitsProbe'
    <3> SUFFICES ASSUME state = HalfOpen PROVE HalfOpenAwaitsProbe'
      BY <2>1 DEF HalfOpenAwaitsProbe
    <3>1. PICK p \in Probes : \A d \in InFlight \ {p} : age[d] >= age[p] + Cooldown
      BY DEF HalfOpenAwaitsProbe
    <3>2. \A d \in InFlight \ {p} : age'[d] >= age'[p] + Cooldown
      BY <2>1, <2>2, <3>1
    <3> QED BY <2>1, <3>2 DEF HalfOpenAwaitsProbe
  <2>6. ProbesSpaced'
    BY <2>1, <2>2 DEF ProbesSpaced
  <2> QED BY <1>t, <2>3, <2>4, <2>5, <2>6
<1>2. ASSUME NEW c \in Callers, Allow(c) PROVE ProbeInv'
  <2>1. /\ InFlight' = InFlight \cup {c} /\ c \notin InFlight
        /\ age'[c] = 0 /\ \A d \in Callers \ {c} : age'[d] = age[d]
        /\ elapsed' = elapsed
        /\ Probes \subseteq InFlight /\ InFlight \subseteq Callers
    BY <1>2 DEF Allow, InFlight, Probes, TypeOK
  <2>2. \A d \in Callers : age[d] \in Nat
    BY DEF TypeOK
  <2>3. CASE state = Closed
    <3>1. state' = Closed /\ Probes' = Probes
      BY <1>2, <2>3 DEF Allow, Probes, TypeOK
    <3>2. ProbingIffHalfOpen'
      BY <1>2, <2>3 DEF Allow, ProbingIffHalfOpen, Closed, HalfOpen
    <3>3. ProbesSpaced'
      BY <2>1, <3>1 DEF ProbesSpaced
    <3> QED
      BY <1>t, <3>1, <3>2, <3>3
         DEF OpenCallsOlder, HalfOpenAwaitsProbe, Closed, Open, HalfOpen
  <2>4. CASE state # Closed
    <3>1. state = Open /\ elapsed >= Cooldown
      BY <1>2, <2>4 DEF Allow, Admits, ProbingIffHalfOpen
    <3>2. state' = HalfOpen /\ probing' = TRUE /\ Probes' = Probes \cup {c}
      BY <1>2, <2>4 DEF Allow, Probes, TypeOK
    <3>3. \A d \in InFlight : age[d] >= Cooldown
      BY <2>1, <2>2, <3>1 DEF OpenCallsOlder, TypeOK
    <3>4. \A d \in InFlight' \ {c} : age'[d] >= age'[c] + Cooldown
      BY <2>1, <3>3
    <3>5. HalfOpenAwaitsProbe'
      BY <3>2, <3>4 DEF HalfOpenAwaitsProbe
    <3>6. ProbesSpaced'
      BY <2>1, <3>2, <3>4 DEF ProbesSpaced
    <3> QED
      BY <1>t, <3>2, <3>5, <3>6
         DEF ProbingIffHalfOpen, OpenCallsOlder, Open, HalfOpen
  <2> QED BY <2>3, <2>4
<1>3. ASSUME NEW c \in Callers, Success(c) PROVE ProbeInv'
  <2>1. Settle(c) /\ state' = Closed /\ probing' = FALSE
    BY <1>3 DEF Success
  <2>2. ProbesSpaced'
    BY <2>1, SettleFacts DEF ProbesSpaced, Probes
  <2> QED
    BY <1>t, <2>1, <2>2
       DEF ProbingIffHalfOpen, OpenCallsOlder, HalfOpenAwaitsProbe, Closed, Open, HalfOpen
<1>4. ASSUME NEW c \in Callers, Failure(c) PROVE ProbeInv'
  <2>1. Settle(c) /\ probing' = FALSE
    BY <1>4 DEF Failure, ProbingAfterFailure
  <2>2. state' # HalfOpen
    BY <1>4 DEF Failure, FailureOpens, Open, HalfOpen
  <2>3. state' = Open => elapsed' = 0 \/ (state = Open /\ elapsed' = elapsed)
    BY <1>4 DEF Failure, ElapsedAfter
  <2>4. OpenCallsOlder'
    <3>1. \A d \in Callers : age'[d] \in Nat
      BY <1>t DEF TypeOK
    <3>2. /\ InFlight' \subseteq InFlight /\ InFlight' \subseteq Callers
          /\ \A d \in InFlight' : age'[d] = age[d]
      BY <2>1, SettleFacts DEF InFlight
    <3> QED BY <2>3, <3>1, <3>2 DEF OpenCallsOlder
  <2>5. ProbesSpaced'
    BY <2>1, SettleFacts DEF ProbesSpaced, Probes
  <2> QED
    BY <1>t, <2>1, <2>2, <2>4, <2>5 DEF ProbingIffHalfOpen, HalfOpenAwaitsProbe
<1>5. CASE UNCHANGED vars
  BY <1>5 DEF vars, TypeOK, ProbingIffHalfOpen, OpenCallsOlder, HalfOpenAwaitsProbe,
              ProbesSpaced, InFlight, Probes
<1> QED BY <1>1, <1>2, <1>3, <1>4, <1>5 DEF Next

THEOREM ProbeInvariant == Spec => []ProbeInv
BY ProbeInvInit, ProbeInvStep, PTL DEF Spec

(* A half-open breaker always waits for an outstanding probe, so it never  *)
(* refuses everybody for good.                                             *)
THEOREM HalfOpenNeverStuck == Spec => [](ProbingIffHalfOpen /\ HalfOpenAwaitsProbe)
<1>1. ProbeInv => ProbingIffHalfOpen /\ HalfOpenAwaitsProbe
  BY DEF ProbeInv
<1> QED BY <1>1, ProbeInvariant, PTL

(* While the breaker is open, every call in flight was admitted no later   *)
(* than the failure the cooldown is counted from, so a success that closes *)
(* it (breaker.go:88) tells of a request made before that failure.         *)
THEOREM OpenCallsPredateOpening == Spec => []OpenCallsOlder
<1>1. ProbeInv => OpenCallsOlder
  BY DEF ProbeInv
<1> QED BY <1>1, ProbeInvariant, PTL

(* Whatever order reports arrive in, probes are a cooldown apart. *)
THEOREM ProbesAreSpaced == Spec => []ProbesSpaced
<1>1. ProbeInv => ProbesSpaced
  BY DEF ProbeInv
<1> QED BY <1>1, ProbeInvariant, PTL

(* The one-probe promise of breaker.go:61-63 holds exactly under this      *)
(* condition on the settings: no call outlives the cooldown.               *)
THEOREM SingleProbeIfQuick ==
  ASSUME CallTimeout < Cooldown
  PROVE  Spec => [](SingleProbe /\ OnlyProbeInFlight)
<1>1. ProbeInv => SingleProbe /\ OnlyProbeInFlight
  <2> SUFFICES ASSUME ProbeInv PROVE SingleProbe /\ OnlyProbeInFlight
    OBVIOUS
  <2>1. \A c \in Callers : age[c] \in 0..CallTimeout
    BY DEF ProbeInv, TypeOK
  <2>2. \A c, d \in Callers : ~(age[c] >= age[d] + Cooldown)
    BY <2>1, SettingsType, BreakerAssumption
  <2>3. SingleProbe
    BY <2>2 DEF ProbeInv, ProbesSpaced, SingleProbe, Probes
  <2>4. OnlyProbeInFlight
    BY <2>2 DEF ProbeInv, HalfOpenAwaitsProbe, OnlyProbeInFlight, Probes, InFlight
  <2> QED BY <2>3, <2>4
<1> QED BY <1>1, ProbeInvariant, PTL

(***************************************************************************)
(* The failure counter                                                     *)
(***************************************************************************)

LEMMA InFlightFinite ==
  /\ IsFiniteSet(InFlight)
  /\ Cardinality(InFlight) \in Nat
  /\ Cardinality(InFlight) <= Cardinality(Callers)
BY FS_Subset, FS_CardinalityType, BreakerAssumption DEF InFlight

(* A failure counted while open, or a probe admitted, spends or takes one  *)
(* of the callers' calls; half-open, the probe itself is among them.       *)
CounterInv ==
    /\ ProbeInv
    /\ FailuresBounded
    /\ state = HalfOpen =>
         failures + Cardinality(InFlight) <= Threshold + Cardinality(Callers)

LEMMA CounterInvStep == CounterInv /\ [Next]_vars => CounterInv'
<1> SUFFICES ASSUME CounterInv, [Next]_vars PROVE CounterInv'
  OBVIOUS
<1> USE SettingsType DEF Closed, Open, HalfOpen
<1>p. ProbeInv /\ ProbeInv' /\ TypeOK
  BY ProbeInvStep DEF CounterInv, ProbeInv
<1>t. failures \in Nat /\ state \in {Closed, Open, HalfOpen}
  BY <1>p DEF TypeOK
<1>n. /\ Cardinality(Callers) \in Nat /\ Cardinality(InFlight) \in Nat
      /\ Cardinality(InFlight) <= Cardinality(Callers)
  BY InFlightFinite, FS_CardinalityType, BreakerAssumption
<1>1. CASE Tick \/ UNCHANGED vars
  <2>1. state' = state /\ failures' = failures /\ InFlight' = InFlight
    BY <1>1 DEF Tick, vars, InFlight
  <2> QED BY <1>p, <2>1 DEF CounterInv, FailuresBounded
<1>2. ASSUME NEW c \in Callers, Allow(c) PROVE CounterInv'
  <2>1. InFlight' = InFlight \cup {c} /\ c \notin InFlight /\ failures' = failures
    BY <1>2, <1>p DEF Allow, InFlight, TypeOK
  <2>2. Cardinality(InFlight') = Cardinality(InFlight) + 1
    BY <2>1, FS_AddElement, InFlightFinite
  <2>3. /\ state = Closed => state' = Closed
        /\ state # Closed => state = Open /\ state' = HalfOpen
    BY <1>2, <1>p DEF Allow, Admits, ProbeInv, ProbingIffHalfOpen
  <2> QED BY <1>p, <1>t, <1>n, <2>1, <2>2, <2>3 DEF CounterInv, FailuresBounded
<1>3. ASSUME NEW c \in Callers, Success(c) PROVE CounterInv'
  BY <1>3, <1>p DEF Success, CounterInv, FailuresBounded
<1>4. ASSUME NEW c \in Callers, Failure(c) PROVE CounterInv'
  <2>1. InFlight' = InFlight \ {c} /\ c \in InFlight
    BY <1>4, <1>p, SettleFacts DEF Failure, Settle, InFlight
  <2>2. Cardinality(InFlight') = Cardinality(InFlight) - 1
    BY <2>1, FS_RemoveElement, InFlightFinite
  <2>3. failures' = CountedFailures /\ state' = IF FailureOpens THEN Open ELSE state
    BY <1>4 DEF Failure
  <2> QED
    BY <1>p, <1>t, <1>n, <2>2, <2>3
       DEF CounterInv, FailuresBounded, CountedFailures, FailureOpens
<1> QED BY <1>1, <1>2, <1>3, <1>4 DEF Next

(* However many calls fail late (breaker.go: Failure counts them also      *)
(* while open), the counter stays below the threshold in a closed breaker  *)
(* and below the threshold plus the callers in an open one.                *)
THEOREM FailuresAreBounded == Spec => []FailuresBounded
<1>1. Init => CounterInv
  <2> SUFFICES ASSUME Init PROVE CounterInv
    OBVIOUS
  <2> QED BY ProbeInvInit, SettingsType
         DEF Init, CounterInv, FailuresBounded, Closed, Open, HalfOpen
<1>2. CounterInv => FailuresBounded
  BY DEF CounterInv
<1> QED BY <1>1, <1>2, CounterInvStep, PTL DEF Spec

(***************************************************************************)
(* The loops over the candidates                                           *)
(***************************************************************************)

(* A nonempty set of numbers has a least one. *)
LEMMA LeastNumber ==
  ASSUME NEW S \in SUBSET Nat, S # {}
  PROVE  \E x \in S : \A y \in S : x <= y
<1> DEFINE R == {ss \in Nat \X Nat : ss[1] < ss[2]}
<1>1. OpToRel(<, Nat) = R
  BY Zenon DEF OpToRel
<1>2. \A x, y \in Nat : <<y, x>> \notin R => x <= y
  OBVIOUS
<1>3. IsWellFoundedOn(R, Nat)
  BY <1>1, NatLessThanWellFounded
<1> HIDE DEF R
<1>4. \E x \in S : \A y \in S : <<y, x>> \notin R
  BY <1>3, WFMin
<1> QED BY <1>2, <1>4

(* One turn of the survivor loop: what is kept of the first n candidates.  *)
Kept(f, paths, confirmed, n) ==
    IF n = 0 THEN <<>>
    ELSE IF paths[n] \subseteq confirmed THEN Append(f[n-1], paths[n])
    ELSE f[n-1]

(* The loop computes something: the recursive function exists. *)
LEMMA KeptExists ==
  ASSUME NEW paths, NEW confirmed, NEW N \in Nat
  PROVE  \E f : f = [n \in 0..N |-> Kept(f, paths, confirmed, n)]
<1> DEFINE Loops(m) == \E f : f = [n \in 0..m |-> Kept(f, paths, confirmed, n)]
           Bad == {m \in Nat : ~Loops(m)}
<1> SUFFICES ASSUME Bad # {} PROVE FALSE
  OBVIOUS
<1>1. PICK m \in Bad : \A y \in Bad : m <= y
  BY LeastNumber
<1>2. CASE m = 0
  <2> DEFINE f == [n \in 0..0 |-> <<>>]
  <2>1. f = [n \in 0..0 |-> Kept(f, paths, confirmed, n)]
    BY DEF Kept
  <2> QED BY <1>1, <1>2, <2>1
<1>3. CASE m # 0
  <2>1. m - 1 \in Nat /\ m - 1 \notin Bad
    BY <1>1, <1>3
  <2>2. PICK f : f = [n \in 0..m-1 |-> Kept(f, paths, confirmed, n)]
    BY <2>1
  <2> DEFINE g == [n \in 0..m |-> IF n < m THEN f[n] ELSE Kept(f, paths, confirmed, m)]
  <2>3. ASSUME NEW n \in 0..m
        PROVE  g[n] = Kept(g, paths, confirmed, n)
    <3>1. Kept(f, paths, confirmed, n) = Kept(g, paths, confirmed, n)
      BY <1>1, <1>3 DEF Kept
    <3>2. CASE n < m
      <4>1. n \in 0..m-1 /\ g[n] = f[n]
        BY <1>1, <3>2
      <4> QED BY <2>2, <3>1, <4>1, Zenon
    <3>3. CASE n = m
      <4>1. g[m] = Kept(f, paths, confirmed, m)
        BY <1>1
      <4> QED BY <3>1, <3>3, <4>1
    <3> QED BY <1>1, <3>2, <3>3
  <2>4. g = [n \in 0..m |-> Kept(g, paths, confirmed, n)]
    BY <2>3
  <2> QED BY <1>1, <2>4
<1> QED BY <1>2, <1>3

(* The survivor loop of Validate: only confirmed journeys survive. *)
LEMMA SurvivorsConfirmed ==
  ASSUME NEW S, NEW paths \in Seq(S), NEW confirmed
  PROVE  /\ Survivors(paths, confirmed) \in Seq(S)
         /\ \A i \in DOMAIN Survivors(paths, confirmed) :
              Survivors(paths, confirmed)[i] \subseteq confirmed
<1> DEFINE N == Len(paths)
           kept == CHOOSE f : f = [n \in 0..N |-> Kept(f, paths, confirmed, n)]
           Good(n) == /\ kept[n] \in Seq(S)
                      /\ \A i \in DOMAIN kept[n] : kept[n][i] \subseteq confirmed
           Bad == {n \in 0..N : ~Good(n)}
<1>1. N \in Nat /\ \A n \in 1..N : paths[n] \in S
  OBVIOUS
<1>2. Survivors(paths, confirmed) = kept[N]
  BY DEF Survivors, Kept
<1>3. kept = [n \in 0..N |-> Kept(kept, paths, confirmed, n)]
  BY <1>1, KeptExists
<1> HIDE DEF kept, N
<1>4. kept[0] = <<>>
  BY <1>1, <1>3 DEF Kept
<1>5. \A n \in 0..N : kept[n] = Kept(kept, paths, confirmed, n)
  BY <1>3, Zenon
<1>6. \A n \in 1..N : kept[n] = IF paths[n] \subseteq confirmed
                                THEN Append(kept[n-1], paths[n]) ELSE kept[n-1]
  <2> SUFFICES ASSUME NEW n \in 1..N
               PROVE  kept[n] = IF paths[n] \subseteq confirmed
                                THEN Append(kept[n-1], paths[n]) ELSE kept[n-1]
    OBVIOUS
  <2>1. n \in 0..N /\ n # 0
    BY <1>1
  <2> QED BY <1>5, <2>1 DEF Kept
<1>7. Bad = {}
  <2> SUFFICES ASSUME Bad # {} PROVE FALSE
    OBVIOUS
  <2>0. Bad \in SUBSET Nat
    BY <1>1
  <2>1. PICK m \in Bad : \A y \in Bad : m <= y
    BY <2>0, LeastNumber
  <2>2. m # 0
    <3>1. Good(0)
      BY <1>4
    <3> QED BY <2>1, <3>1
  <2>3. m \in 1..N /\ m - 1 \in 0..N /\ m - 1 \notin Bad
    BY <1>1, <2>1, <2>2
  <2>4. Good(m-1)
    BY <2>3
  <2>5. Good(m)
    <3>1. CASE paths[m] \subseteq confirmed
      <4>1. kept[m] = Append(kept[m-1], paths[m]) /\ paths[m] \in S
        BY <1>1, <1>6, <2>3, <3>1
      <4>2. /\ kept[m] \in Seq(S)
            /\ \A i \in DOMAIN kept[m] : \/ i \in DOMAIN kept[m-1] /\ kept[m][i] = kept[m-1][i]
                                       \/ kept[m][i] = paths[m]
        BY <2>4, <4>1
      <4> QED BY <2>4, <3>1, <4>2
    <3>2. CASE ~(paths[m] \subseteq confirmed)
      BY <1>6, <2>3, <2>4, <3>2
    <3> QED BY <3>1, <3>2
  <2> QED BY <2>1, <2>5
<1> QED BY <1>1, <1>2, <1>7

(* truncate keeps a prefix. *)
LEMMA TruncateKeeps ==
  ASSUME NEW S, NEW paths \in Seq(S)
  PROVE  /\ Truncate(paths) \in Seq(S)
         /\ \A i \in DOMAIN Truncate(paths) :
              i \in DOMAIN paths /\ Truncate(paths)[i] = paths[i]
BY ValidationAssumption DEF Truncate

(***************************************************************************)
(* Validate is a client of the breaker                                     *)
(***************************************************************************)

LEMMA StepsAreBreakerSteps ==
  ASSUME [ValidationNext]_allVars
  PROVE  [Next]_vars
<1>1. ASSUME NEW c \in Callers, Search(c) \/ CancelRequest(c) PROVE [Next]_vars
  BY <1>1 DEF Search, AnswerWithoutRedis, StartFetch, MGet, MGetError, Confirm, GiveUp,
     ReportFailure, CancelRequest, Next
<1>2. CASE \E k \in SeatKeys : SeatsChange(k)
  BY <1>2 DEF SeatsChange
<1>3. CASE RedisFlips \/ Clock \/ UNCHANGED allVars
  BY <1>3 DEF RedisFlips, Clock, Next, allVars
<1> QED BY <1>1, <1>2, <1>3 DEF ValidationNext

LEMMA IsABreaker == ValidationSpec => Spec
<1>1. ValidationInit => Init
  BY DEF ValidationInit
<1>2. [ValidationNext]_allVars => [Next]_vars
  BY StepsAreBreakerSteps
<1> QED BY <1>1, <1>2, PTL DEF ValidationSpec, Spec

(* The searches use the breaker by its protocol (validator.go): each call  *)
(* it admits is reported exactly once, on every way out of Validate, so    *)
(* all that is proved of the breaker holds of the searches.                *)
THEOREM ValidateUsesBreaker == ValidationSpec => UsesBreaker
<1>1. Init => BreakerProtocol!Init
  BY DEF Init, BreakerProtocol!Init, Cooldown, BreakerProtocol!Cooldown, Closed,
     BreakerProtocol!Closed
<1>2. [Next]_vars => [BreakerProtocol!Next]_(BreakerProtocol!vars)
  BY DEF Next, BreakerProtocol!Next, vars, BreakerProtocol!vars, Tick, BreakerProtocol!Tick,
     CallsInTime, BreakerProtocol!CallsInTime, InFlight, BreakerProtocol!InFlight,
     Cooldown, BreakerProtocol!Cooldown, Threshold, BreakerProtocol!Threshold,
     Allow, BreakerProtocol!Allow, Admits, BreakerProtocol!Admits,
     Settle, BreakerProtocol!Settle, Success, BreakerProtocol!Success,
     Failure, BreakerProtocol!Failure, ProbingAfterFailure, BreakerProtocol!ProbingAfterFailure,
     CountedFailures, BreakerProtocol!CountedFailures,
     FailureOpens, BreakerProtocol!FailureOpens, ElapsedAfter, BreakerProtocol!ElapsedAfter,
     Closed, BreakerProtocol!Closed, Open, BreakerProtocol!Open,
     HalfOpen, BreakerProtocol!HalfOpen
<1> QED BY <1>1, <1>2, IsABreaker, PTL DEF Spec, UsesBreaker, BreakerProtocol!Spec

(* So the searches never leave the breaker waiting for a probe nobody runs,*)
(* and its counter stays bounded.                                          *)
THEOREM BreakerServesSearches == ValidationSpec => [](HalfOpenAwaitsProbe /\ FailuresBounded)
BY IsABreaker, HalfOpenNeverStuck, FailuresAreBounded, PTL

(***************************************************************************)
(* Types                                                                   *)
(***************************************************************************)

Answers == [how : {"none", "on_foot", "unavailable", "confirmed"}, paths : Seq(SUBSET SeatKeys)]

(* ValidationTypeOK without the breaker's part; the Booleans are apart.    *)
SearchTypeOK ==
    /\ seats \in [SeatKeys -> SeatLevel]
    /\ pc \in [Callers -> {"idle", "fetch", "fetched", "failed"}]
    /\ todo \in [Callers -> SUBSET SeatKeys]
    /\ cache \in [Callers -> SUBSET SeatKeys]
    /\ cands \in [Callers -> CandidateLists \cup {<<>>}]
    /\ answer \in [Callers -> Answers]
    /\ witnessed \in [Callers -> SUBSET SUBSET SeatKeys]

FlagsTypeOK == up \in BOOLEAN /\ cancelled \in [Callers -> BOOLEAN]

LEMMA AnswerTypes ==
  ASSUME NEW paths \in CandidateLists \cup {<<>>}, NEW confirmed
  PROVE  /\ paths \in Seq(SUBSET SeatKeys)
         /\ Truncate(paths) \in Seq(SUBSET SeatKeys)
         /\ KeysOf(paths) \in SUBSET SeatKeys
         /\ NoAnswer \in Answers
         /\ [how |-> "on_foot", paths |-> Truncate(paths)] \in Answers
         /\ Unavailable(paths) \in Answers
         /\ [how |-> "confirmed", paths |-> Truncate(Survivors(paths, confirmed))] \in Answers
<1>1. paths \in Seq(SUBSET SeatKeys)
  <2>1. <<>> \in Seq(SUBSET SeatKeys) /\ CandidateLists \subseteq Seq(SUBSET SeatKeys)
    BY ValidationAssumption DEF ValidationAssumption
  <2> QED BY <2>1, Zenon
<1>2. Truncate(paths) \in Seq(SUBSET SeatKeys)
  BY <1>1, TruncateKeeps
<1>3. Truncate(Survivors(paths, confirmed)) \in Seq(SUBSET SeatKeys)
  BY <1>1, SurvivorsConfirmed, TruncateKeeps
<1>4. KeysOf(paths) \in SUBSET SeatKeys
  BY <1>1 DEF KeysOf
<1>5. <<>> \in Seq(SUBSET SeatKeys)
  OBVIOUS
<1>6. Unavailable(paths) \in Answers
  <2>1. (IF Strict THEN <<>> ELSE Truncate(paths)) \in Seq(SUBSET SeatKeys)
    BY <1>2, <1>5
  <2> QED BY <2>1 DEF Unavailable, Answers
<1> QED BY <1>1, <1>2, <1>3, <1>4, <1>5, <1>6 DEF Answers, NoAnswer

LEMMA SearchTypeInit == ValidationInit => SearchTypeOK
<1> SUFFICES ASSUME ValidationInit PROVE SearchTypeOK
  OBVIOUS
<1>1. NoAnswer \in Answers
  BY DEF NoAnswer, Answers
<1> QED BY <1>1 DEF ValidationInit, SearchTypeOK

LEMMA SearchTypeStep ==
  ASSUME SearchTypeOK, [ValidationNext]_allVars
  PROVE  SearchTypeOK'
<1> USE DEF SearchTypeOK
<1>1. ASSUME NEW c \in Callers, AnswerWithoutRedis(c) PROVE SearchTypeOK'
  <2>1. PICK a \in Answers : Return(c, a)
    BY <1>1, AnswerTypes DEF AnswerWithoutRedis
  <2> QED BY <1>1, <2>1 DEF AnswerWithoutRedis, Return, redisVars
<1>2. ASSUME NEW c \in Callers, StartFetch(c) PROVE SearchTypeOK'
  <2>1. EnoughNow \in SUBSET SeatKeys
    BY DEF EnoughNow
  <2>2. PICK paths \in CandidateLists : /\ cands' = [cands EXCEPT ![c] = paths]
                                         /\ todo' = [todo EXCEPT ![c] = KeysOf(paths)]
    BY <1>2 DEF StartFetch
  <2>3. KeysOf(paths) \in SUBSET SeatKeys /\ NoAnswer \in Answers
    BY AnswerTypes
  <2> QED BY <1>2, <2>1, <2>2, <2>3 DEF StartFetch, redisVars
<1>3. ASSUME NEW c \in Callers, MGet(c) PROVE SearchTypeOK'
  BY <1>3 DEF MGet, redisVars
<1>4. ASSUME NEW c \in Callers, MGetError(c) PROVE SearchTypeOK'
  BY <1>4 DEF MGetError, redisVars
<1>5. ASSUME NEW c \in Callers, Confirm(c) PROVE SearchTypeOK'
  <2>1. PICK a \in Answers : Return(c, a)
    BY <1>5, AnswerTypes DEF Confirm
  <2> QED BY <1>5, <2>1 DEF Confirm, Return, redisVars
<1>6. ASSUME NEW c \in Callers, GiveUp(c) PROVE SearchTypeOK'
  <2>1. PICK a \in Answers : Return(c, a)
    BY <1>6, AnswerTypes DEF GiveUp
  <2> QED BY <1>6, <2>1 DEF GiveUp, Return, redisVars
<1>7. ASSUME NEW c \in Callers, CancelRequest(c) PROVE SearchTypeOK'
  BY <1>7 DEF CancelRequest, redisVars
<1>8. ASSUME NEW j \in SeatKeys, SeatsChange(j) PROVE SearchTypeOK'
  BY <1>8 DEF SeatsChange
<1>9. CASE RedisFlips \/ Clock \/ UNCHANGED allVars
  BY <1>9 DEF RedisFlips, Clock, redisVars, searchVars, allVars
<1> QED
  BY <1>1, <1>2, <1>3, <1>4, <1>5, <1>6, <1>7, <1>8, <1>9 DEF ValidationNext, Search

LEMMA FlagsTypeStep ==
  ASSUME FlagsTypeOK, [ValidationNext]_allVars
  PROVE  FlagsTypeOK'
<1>1. up' = up \/ up' = ~up
  BY DEF ValidationNext, Search, AnswerWithoutRedis, StartFetch, MGet, MGetError, Confirm,
     GiveUp, CancelRequest, SeatsChange, RedisFlips, Clock, redisVars, allVars
<1>2. \/ cancelled' = cancelled
      \/ \E c \in Callers : \E b \in BOOLEAN : cancelled' = [cancelled EXCEPT ![c] = b]
  BY DEF ValidationNext, Search, AnswerWithoutRedis, StartFetch, MGet, MGetError, Confirm,
     GiveUp, Return, CancelRequest, SeatsChange, RedisFlips, Clock, searchVars, allVars
<1> QED BY <1>1, <1>2 DEF FlagsTypeOK

(* Every reachable state of the searches and their breaker has its type.   *)
THEOREM ValidationTypeCorrect == ValidationSpec => []ValidationTypeOK
<1> DEFINE Inv == SearchTypeOK /\ FlagsTypeOK
<1>1. ValidationInit => Inv
  BY SearchTypeInit DEF ValidationInit, FlagsTypeOK
<1>2. Inv /\ [ValidationNext]_allVars => Inv'
  BY SearchTypeStep, FlagsTypeStep
<1>3. Inv /\ TypeOK => ValidationTypeOK
  BY DEF SearchTypeOK, FlagsTypeOK, ValidationTypeOK, Answers
<1> QED BY <1>1, <1>2, <1>3, IsABreaker, TypeCorrect, PTL DEF ValidationSpec

(***************************************************************************)
(* What a search has seen                                                  *)
(***************************************************************************)

(* All the keys of c's candidates fit one MGET. *)
OneChunk(c) == Cardinality(KeysOf(cands[c])) <= MGetChunk

(* What c has fetched it has seen in Redis during this call; with a single *)
(* chunk, all of it at one instant.                                        *)
SearchInv(c) ==
    /\ call[c] # "none" <=> pc[c] # "idle"
    /\ pc[c] = "idle" => cache[c] = {}
    /\ pc[c] = "fetch" => EnoughNow \in witnessed[c]
    /\ cache[c] \subseteq UNION witnessed[c]
    /\ Strict => \A i \in DOMAIN answer[c].paths : answer[c].paths[i] \subseteq UNION witnessed[c]
    /\ pc[c] = "fetch" /\ OneChunk(c) => todo[c] = KeysOf(cands[c]) /\ cache[c] = {}
    /\ pc[c] = "fetched" /\ OneChunk(c) => \E w \in witnessed[c] : cache[c] \subseteq w

LEMMA SearchFrame ==
  ASSUME NEW c \in Callers, SearchInv(c), seats' = seats,
         call'[c] = call[c], pc'[c] = pc[c], cands'[c] = cands[c], todo'[c] = todo[c],
         cache'[c] = cache[c], answer'[c] = answer[c], witnessed'[c] = witnessed[c]
  PROVE  SearchInv(c)'
BY DEF SearchInv, OneChunk, EnoughNow

(* One caller's step leaves every other caller's data alone. *)
LEMMA OtherSearchesKeep ==
  ASSUME SearchTypeOK, TypeOK, NEW c \in Callers, NEW d \in Callers \ {c}, SearchInv(d),
         Search(c)
  PROVE  SearchInv(d)'
<1>1. seats' = seats /\ call'[d] = call[d]
  BY DEF Search, AnswerWithoutRedis, StartFetch, MGet, MGetError, Confirm, GiveUp, ReportFailure,
     Allow, Success, Failure, Settle, TypeOK, vars, redisVars
<1>2. /\ pc'[d] = pc[d] /\ cands'[d] = cands[d] /\ todo'[d] = todo[d]
      /\ cache'[d] = cache[d] /\ answer'[d] = answer[d] /\ witnessed'[d] = witnessed[d]
  BY DEF Search, AnswerWithoutRedis, StartFetch, MGet, MGetError, Confirm, GiveUp, Return,
     SearchTypeOK
<1> QED BY <1>1, <1>2, SearchFrame

(* An answer made without Redis, or after a failed MGET, offers in strict  *)
(* mode only journeys on foot.                                             *)
LEMMA UnconfirmedOffersNothing ==
  ASSUME NEW paths \in CandidateLists \cup {<<>>}, Strict
  PROVE  Unavailable(paths).paths = <<>>
BY DEF Unavailable

LEMMA OnFootNeedsNoSeat ==
  ASSUME NEW paths \in CandidateLists, KeysOf(paths) = {}
  PROVE  \A i \in DOMAIN Truncate(paths) : Truncate(paths)[i] = {}
<1>1. paths \in Seq(SUBSET SeatKeys)
  BY AnswerTypes
<1>2. \A i \in DOMAIN paths : paths[i] = {}
  BY DEF KeysOf
<1> QED BY <1>1, <1>2, TruncateKeeps

(* A chunk as large as the rest is the rest. *)
LEMMA WholeChunk ==
  ASSUME SearchTypeOK, NEW c \in Callers, OneChunk(c), todo[c] = KeysOf(cands[c]),
         NEW chunk \in SUBSET todo[c], Cardinality(chunk) = ChunkSize(c)
  PROVE  chunk = todo[c]
<1>1. IsFiniteSet(todo[c])
  BY FS_Subset, ValidationAssumption DEF ValidationAssumption, SearchTypeOK
<1>2. Cardinality(chunk) = Cardinality(todo[c])
  BY <1>1, FS_CardinalityType, ValidationAssumption DEF ValidationAssumption, ChunkSize, OneChunk
<1> QED BY <1>1, <1>2, FS_Subset

LEMMA SearchInvStep ==
  ASSUME TypeOK, SearchTypeOK, \A c \in Callers : SearchInv(c), [ValidationNext]_allVars
  PROVE  \A c \in Callers : SearchInv(c)'
<1>1. ASSUME NEW c \in Callers, AnswerWithoutRedis(c) PROVE SearchInv(c)'
  <2>1. PICK paths \in CandidateLists :
          \/ KeysOf(paths) = {} /\ Return(c, [how |-> "on_foot", paths |-> Truncate(paths)])
          \/ Return(c, Unavailable(paths))
    BY <1>1 DEF AnswerWithoutRedis
  <2>2. /\ pc'[c] = "idle" /\ cache'[c] = {} /\ call'[c] = call[c] /\ pc[c] = "idle"
        /\ \/ KeysOf(paths) = {} /\ answer'[c].paths = Truncate(paths)
           \/ answer'[c] = Unavailable(paths)
    BY <1>1, <2>1 DEF AnswerWithoutRedis, Return, SearchTypeOK, vars
  <2>3. Strict => \A i \in DOMAIN answer'[c].paths : answer'[c].paths[i] = {}
    BY <2>2, OnFootNeedsNoSeat, UnconfirmedOffersNothing
  <2> QED BY <2>2, <2>3 DEF SearchInv
<1>2. ASSUME NEW c \in Callers, StartFetch(c) PROVE SearchInv(c)'
  <2>1. /\ pc[c] = "idle" /\ pc'[c] = "fetch" /\ call'[c] # "none"
        /\ todo'[c] = KeysOf(cands'[c]) /\ cache'[c] = cache[c]
        /\ answer'[c] = NoAnswer /\ witnessed'[c] = {EnoughNow} /\ seats' = seats
    BY <1>2 DEF StartFetch, Allow, SearchTypeOK, TypeOK, redisVars
  <2>2. cache'[c] = {} /\ EnoughNow' = EnoughNow
    BY <2>1 DEF SearchInv, EnoughNow
  <2>3. DOMAIN answer'[c].paths = {}
    BY <2>1 DEF NoAnswer
  <2> QED BY <2>1, <2>2, <2>3 DEF SearchInv, OneChunk
<1>3. ASSUME NEW c \in Callers, MGet(c) PROVE SearchInv(c)'
  <2>1. PICK chunk \in SUBSET todo[c] :
          /\ Cardinality(chunk) = ChunkSize(c)
          /\ cache' = [cache EXCEPT ![c] = @ \cup (chunk \cap EnoughNow)]
          /\ todo' = [todo EXCEPT ![c] = @ \ chunk]
          /\ pc' = [pc EXCEPT ![c] = IF todo'[c] = {} THEN "fetched" ELSE "fetch"]
    BY <1>3 DEF MGet
  <2>2. /\ cache'[c] = cache[c] \cup (chunk \cap EnoughNow) /\ todo'[c] = todo[c] \ chunk
        /\ pc'[c] = IF todo'[c] = {} THEN "fetched" ELSE "fetch"
    BY <2>1 DEF SearchTypeOK
  <2>3. /\ pc[c] = "fetch" /\ call' = call /\ seats' = seats /\ cands' = cands
        /\ answer' = answer /\ witnessed' = witnessed
    BY <1>3 DEF MGet, vars, redisVars
  <2>4. EnoughNow \in witnessed[c] /\ EnoughNow' = EnoughNow
    BY <2>3 DEF SearchInv, EnoughNow
  <2>5. ASSUME OneChunk(c) PROVE pc'[c] = "fetched" /\ cache'[c] \subseteq EnoughNow
    <3>1. todo[c] = KeysOf(cands[c]) /\ cache[c] = {}
      BY <2>3, <2>5 DEF SearchInv
    <3>2. chunk = todo[c]
      BY <2>1, <2>5, <3>1, WholeChunk
    <3> QED BY <2>2, <3>1, <3>2
  <2>6. OneChunk(c)' <=> OneChunk(c)
    BY <2>3 DEF OneChunk
  <2> QED BY <2>2, <2>3, <2>4, <2>5, <2>6 DEF SearchInv
<1>4. ASSUME NEW c \in Callers, MGetError(c) PROVE SearchInv(c)'
  BY <1>4 DEF MGetError, SearchInv, SearchTypeOK, vars, redisVars
<1>5. ASSUME NEW c \in Callers, Confirm(c) PROVE SearchInv(c)'
  <2> DEFINE found == Survivors(cands[c], cache[c])
  <2>1. /\ pc'[c] = "idle" /\ cache'[c] = {} /\ call'[c] = "none"
        /\ answer'[c].paths = Truncate(found) /\ witnessed'[c] = witnessed[c]
    BY <1>5 DEF Confirm, Return, Success, Settle, SearchTypeOK, TypeOK
  <2>2. cands[c] \in Seq(SUBSET SeatKeys)
    BY AnswerTypes DEF SearchTypeOK
  <2>3. found \in Seq(SUBSET SeatKeys) /\ \A i \in DOMAIN found : found[i] \subseteq cache[c]
    BY <2>2, SurvivorsConfirmed
  <2>4. \A i \in DOMAIN Truncate(found) : Truncate(found)[i] \subseteq cache[c]
    BY <2>3, TruncateKeeps
  <2> QED BY <2>1, <2>4 DEF SearchInv
<1>6. ASSUME NEW c \in Callers, GiveUp(c) PROVE SearchInv(c)'
  <2>1. /\ pc'[c] = "idle" /\ cache'[c] = {} /\ call'[c] = "none"
        /\ answer'[c] = Unavailable(cands[c])
    BY <1>6 DEF GiveUp, Return, ReportFailure, Failure, Settle, SearchTypeOK, TypeOK
  <2>2. Strict => DOMAIN answer'[c].paths = {}
    BY <2>1, UnconfirmedOffersNothing DEF SearchTypeOK
  <2> QED BY <2>1, <2>2 DEF SearchInv
<1>7. ASSUME NEW c \in Callers, Search(c) PROVE \A d \in Callers : SearchInv(d)'
  BY <1>1, <1>2, <1>3, <1>4, <1>5, <1>6, <1>7, OtherSearchesKeep DEF Search
<1>8. ASSUME NEW c \in Callers, CancelRequest(c), NEW d \in Callers PROVE SearchInv(d)'
  BY <1>8, SearchFrame DEF CancelRequest, vars, redisVars
<1>9. ASSUME NEW j \in SeatKeys, SeatsChange(j), NEW d \in Callers PROVE SearchInv(d)'
  <2>1. /\ call' = call /\ pc' = pc /\ cands' = cands /\ todo' = todo /\ cache' = cache
        /\ answer' = answer
    BY <1>9 DEF SeatsChange, vars
  <2>2. witnessed'[d] = IF pc[d] = "fetch" THEN witnessed[d] \cup {EnoughNow'}
                        ELSE witnessed[d]
    BY <1>9 DEF SeatsChange, EnoughNow
  <2> QED BY <2>1, <2>2 DEF SearchInv, OneChunk
<1>10. ASSUME RedisFlips \/ Clock \/ UNCHANGED allVars, NEW d \in Callers PROVE SearchInv(d)'
  BY <1>10, SearchFrame DEF RedisFlips, Clock, Tick, allVars, vars, redisVars, searchVars
<1> QED BY <1>7, <1>8, <1>9, <1>10 DEF ValidationNext

LEMMA SearchInvariant ==
  ValidationSpec => [](SearchTypeOK /\ \A c \in Callers : SearchInv(c))
<1> DEFINE Inv == SearchTypeOK /\ \A c \in Callers : SearchInv(c)
<1>1. ValidationInit => Inv
  <2> SUFFICES ASSUME ValidationInit, NEW c \in Callers PROVE SearchInv(c)
    BY SearchTypeInit
  <2>1. /\ call[c] = "none" /\ pc[c] = "idle" /\ cache[c] = {} /\ answer[c] = NoAnswer
    BY DEF ValidationInit, Init
  <2>2. DOMAIN answer[c].paths = {}
    BY <2>1 DEF NoAnswer
  <2> QED BY <2>1, <2>2 DEF SearchInv
<1>2. Inv /\ TypeOK /\ [ValidationNext]_allVars => Inv'
  BY SearchTypeStep, SearchInvStep
<1> QED BY <1>1, <1>2, IsABreaker, TypeCorrect, PTL DEF ValidationSpec

(* Whoever is in the middle of a Redis call holds an admission, and nobody *)
(* else does (validator.go: each way out of Validate reports to the        *)
(* breaker): no probe is leaked, and none is reported twice.               *)
THEOREM AdmissionsAreHeld == ValidationSpec => []AdmissionHeldWhileFetching
<1>1. (\A c \in Callers : SearchInv(c)) => AdmissionHeldWhileFetching
  BY DEF SearchInv, AdmissionHeldWhileFetching
<1> QED BY <1>1, SearchInvariant, PTL

(* In strict mode every leg offered was seen with enough seats during this *)
(* very call (validator.go:69-71), whatever fails, is cancelled or changes *)
(* between two chunks.                                                     *)
THEOREM StrictOffersAreConfirmed == ValidationSpec => []StrictOffersConfirmed
<1>1. (\A c \in Callers : SearchInv(c)) => StrictOffersConfirmed
  BY DEF SearchInv, StrictOffersConfirmed
<1> QED BY <1>1, SearchInvariant, PTL

(* When the keys fit one MGET, all legs of a confirmed journey were free   *)
(* at one and the same instant of the call (validator.go: the chunks).     *)
THEOREM OneChunkConfirmsTogether == ValidationSpec => ConfirmedTogether
<1> DEFINE Inv == SearchTypeOK /\ \A c \in Callers : SearchInv(c)
<1>1. ASSUME Inv, NEW c \in Callers, Confirm(c), OneChunk(c)
      PROVE  \A i \in DOMAIN answer'[c].paths :
               \E w \in witnessed[c] : answer'[c].paths[i] \subseteq w
  <2> DEFINE found == Survivors(cands[c], cache[c])
  <2>1. answer'[c].paths = Truncate(found)
    BY <1>1 DEF Confirm, Return, SearchTypeOK
  <2>2. cands[c] \in Seq(SUBSET SeatKeys)
    BY <1>1, AnswerTypes DEF SearchTypeOK
  <2>3. found \in Seq(SUBSET SeatKeys) /\ \A i \in DOMAIN found : found[i] \subseteq cache[c]
    BY <2>2, SurvivorsConfirmed
  <2>4. \A i \in DOMAIN Truncate(found) : Truncate(found)[i] \subseteq cache[c]
    BY <2>3, TruncateKeeps
  <2>5. PICK w \in witnessed[c] : cache[c] \subseteq w
    BY <1>1 DEF Confirm, SearchInv
  <2> QED BY <2>1, <2>4, <2>5
<1>2. Inv => [\A c \in Callers : Confirm(c) /\ Cardinality(KeysOf(cands[c])) <= MGetChunk =>
                \A i \in DOMAIN answer'[c].paths :
                  \E w \in witnessed[c] : answer'[c].paths[i] \subseteq w]_allVars
  BY <1>1 DEF OneChunk
<1> QED BY <1>2, SearchInvariant, PTL DEF ConfirmedTogether
==============================================================================
