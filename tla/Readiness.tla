------------------------------ MODULE Readiness ------------------------------
(***************************************************************************)
(* The seat signal buffer as its readers outside the search see it:        *)
(* SwapSignal and the counters of internal/state/signal.go, and the        *)
(* readiness probe of internal/api/health.go.                              *)
(*                                                                         *)
(* SwapSignal stores the buffer, two counters and a latch one after the    *)
(* other, each atomically; the probe loads the latch and the counters one  *)
(* after the other.  A buffer is the number of its signals and of the      *)
(* stale ones.  Nothing keeps a probe and a swap apart: a probe may load   *)
(* one counter before a store and the other one after it.  The ghosts say  *)
(* which buffers it can have met.                                          *)
(***************************************************************************)
EXTENDS Integers

CONSTANT Buffers \* buffers the syncer may publish: [size, stale]

ASSUME ReadinessAssumption ==
    \A b \in Buffers : b.size \in Nat /\ b.stale \in 0..b.size

VARIABLES
    ready,       \* the readiness flag
    live,        \* the published buffer
    signalCount, staleCount, seatDataPresent, \* what is kept beside it
    swap,        \* where SwapSignal is: none, pointer, count, stale
    between,     \* ghost: the live buffer and, during a swap, the one before it
    probe        \* the readiness probe in progress

counterVars == <<live, signalCount, staleCount, seatDataPresent, swap, between>>
readinessVars == <<ready, counterVars, probe>>

NoBuffer == [size |-> 0, stale |-> 0]

(* A probe also has a ghost: the buffers published, or being replaced, at  *)
(* some time since it began.                                               *)
NoProbe == [at |-> "none", total |-> 0, seen |-> {}]

ReadinessInit ==
    /\ ready = FALSE
    /\ live = NoBuffer
    /\ signalCount = 0 /\ staleCount = 0 /\ seatDataPresent = FALSE
    /\ swap = "none" /\ between = {NoBuffer}
    /\ probe = NoProbe

(* What a process that ends leaves to the next one. *)
ReadinessReset ==
    /\ ready' = FALSE
    /\ live' = NoBuffer
    /\ signalCount' = 0 /\ staleCount' = 0 /\ seatDataPresent' = FALSE
    /\ swap' = "none" /\ between' = {NoBuffer}
    /\ probe' = NoProbe

(***************************************************************************)
(* SwapSignal                                                              *)
(***************************************************************************)

InProbe == probe.at # "none"

StorePointer(b) ==
    /\ swap = "none"
    /\ swap' = "pointer" /\ live' = b
    /\ between' = {live, b}
    /\ probe' = IF InProbe THEN [probe EXCEPT !.seen = @ \cup {b}] ELSE probe
    /\ UNCHANGED <<ready, signalCount, staleCount, seatDataPresent>>

StoreSignalCount ==
    /\ swap = "pointer"
    /\ swap' = "count" /\ signalCount' = live.size
    /\ UNCHANGED <<ready, live, staleCount, seatDataPresent, between, probe>>

StaleStored_Fresh == live.size - live.stale
StaleStored == live.stale

StoreStaleCount ==
    /\ swap = "count"
    /\ swap' = "stale" /\ staleCount' = StaleStored
    /\ UNCHANGED <<ready, live, signalCount, seatDataPresent, between, probe>>

(* The latch never opens again. *)
StoreLatch ==
    /\ swap = "stale"
    /\ swap' = "none" /\ seatDataPresent' = (seatDataPresent \/ live.size > 0)
    /\ between' = {live}
    /\ UNCHANGED <<ready, live, signalCount, staleCount, probe>>

SwapContinues == StoreSignalCount \/ StoreStaleCount \/ StoreLatch

(***************************************************************************)
(* handleReady and degradation                                             *)
(***************************************************************************)

(* IsReady, then HasSeatData; a request may come at any time.  One that    *)
(* comes before readiness is told so and no more.                          *)
ProbeStarts ==
    /\ ~InProbe /\ ready
    /\ probe' = [NoProbe EXCEPT !.at = "latch", !.seen = between]
    /\ UNCHANGED <<ready, counterVars>>

Answers == probe' = NoProbe /\ UNCHANGED <<ready, counterVars>>

(* The worst problem first. *)
AnswersNoSeatData == probe.at = "latch" /\ ~seatDataPresent /\ Answers

(* The breaker's state is the validator's. *)
AnswersUnavailable == probe.at = "latch" /\ seatDataPresent /\ Answers

(* StaleFraction loads the two counters, and more than half is degraded. *)
ProbeLoadsCount ==
    /\ \/ probe.at = "latch" /\ seatDataPresent /\ probe' = [probe EXCEPT !.at = "count"]
       \/ /\ probe.at = "count" /\ signalCount # 0
          /\ probe' = [probe EXCEPT !.at = "stale", !.total = signalCount]
    /\ UNCHANGED <<ready, counterVars>>

AnswersStale == probe.at = "stale" /\ 2 * staleCount > probe.total /\ Answers

AnswersReady ==
    /\ \/ probe.at = "count" /\ signalCount = 0
       \/ probe.at = "stale" /\ 2 * staleCount <= probe.total
    /\ Answers

ProbeStep ==
    \/ ProbeStarts \/ ProbeLoadsCount
    \/ AnswersNoSeatData \/ AnswersUnavailable \/ AnswersStale \/ AnswersReady

(***************************************************************************)
(* Properties                                                              *)
(***************************************************************************)

(* The type of every variable; each counter is that of some buffer. *)
ReadinessTypeOK ==
    /\ ready \in BOOLEAN
    /\ live \in Buffers \cup {NoBuffer}
    /\ signalCount \in {b.size : b \in Buffers \cup {NoBuffer}}
    /\ staleCount \in {b.stale : b \in Buffers \cup {NoBuffer}}
    /\ seatDataPresent \in BOOLEAN
    /\ swap \in {"none", "pointer", "count", "stale"}
    /\ between \in SUBSET (Buffers \cup {NoBuffer})
    /\ probe \in [at : {"none", "latch", "count", "stale"}, total : Nat,
                  seen : SUBSET (Buffers \cup {NoBuffer})]

(* A probe tells, worst problem first as health.go:45-47 promises, what    *)
(* the searches had to work with while it ran, however many swaps overlap  *)
(* it: a buffer of that time was empty, or the stale signals of one were   *)
(* more, or no more, than half of the signals of one.  It is one and the   *)
(* same buffer unless a swap overlaps the probe.                           *)
ProbeTellsTheTruth ==
    [][/\ AnswersNoSeatData => \E b \in probe.seen : b.size = 0
       /\ AnswersStale => \E b, c \in probe.seen : 2 * c.stale > b.size
       /\ AnswersReady => \E b, c \in probe.seen : 2 * c.stale <= b.size]_readinessVars
==============================================================================
