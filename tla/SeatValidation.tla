---------------------------- MODULE SeatValidation ----------------------------
(***************************************************************************)
(* Layer two of the seat check: Validator.Validate of                      *)
(* internal/raptor/validator.go, called by every search (handleSearch of   *)
(* internal/api/search.go) with its candidate journeys, over the shared    *)
(* breaker and a Redis whose seat maps change underneath it.               *)
(*                                                                         *)
(* A journey is the set of seat:map keys its transit legs need; a journey  *)
(* on foot needs none.  A seat map is abstracted to what Validate asks of  *)
(* it for one class and passenger count: enough seats, too few, or no      *)
(* usable record (absent, evicted or unparseable).                         *)
(*                                                                         *)
(* Validate's steps that another search or a poller can come between are   *)
(* separate actions: asking the breaker, each chunked MGET, and reporting  *)
(* back to the breaker.                                                    *)
(***************************************************************************)
EXTENDS Breaker, Sequences

CONSTANTS
    SeatKeys,       \* seat:map:{trip}:{date} keys
    CandidateLists, \* what RaptorSearch may hand over: sequences of sets of keys
    Configured,     \* a Redis client exists (NewValidator permits nil)
    Strict,         \* STRICT_SEAT_MODE
    MGetChunk,      \* keys per MGET
    MaxResults      \* SEARCH_RESULTS; 0 does not truncate

ASSUME ValidationAssumption ==
    /\ IsFiniteSet(SeatKeys)
    /\ CandidateLists \subseteq Seq(SUBSET SeatKeys)
    /\ Configured \in BOOLEAN /\ Strict \in BOOLEAN
    /\ MGetChunk \in Nat \ {0}
    /\ MaxResults \in Nat

SeatLevel == {"enough", "short", "absent"}

VARIABLES
    seats,     \* seats[k]: Redis's record for the requested class
    up,        \* Redis answers
    pc,        \* pc[c]: where c's Validate is: idle, fetch, fetched or failed
    cands,     \* cands[c]: the candidates c is validating
    todo,      \* todo[c]: keys not fetched yet
    cache,     \* cache[c]: keys fetched so far with enough seats
    cancelled, \* cancelled[c]: c's request context is done
    answer,    \* answer[c]: what c's last Validate returned, and how
    witnessed  \* ghost: the sets of keys that had enough seats at some instant of c's call

redisVars  == <<seats, up>>
searchVars == <<pc, cands, todo, cache, cancelled, answer, witnessed>>
allVars    == <<vars, redisVars, searchVars>>

EnoughNow == {k \in SeatKeys : seats[k] = "enough"}
KeysOf(paths) == UNION {paths[i] : i \in DOMAIN paths}

(* truncate, and the early exit of the survivor loop. *)
Truncate(paths) ==
    IF MaxResults > 0 /\ Len(paths) > MaxResults
    THEN SubSeq(paths, 1, MaxResults) ELSE paths

Unavailable_IgnoresStrict(paths) == [how |-> "unavailable", paths |-> Truncate(paths)]

(* unavailable: Strict decides what callers get when Redis was not asked. *)
Unavailable(paths) ==
    [how |-> "unavailable", paths |-> IF Strict THEN <<>> ELSE Truncate(paths)]

(* The survivors, in their order: every leg that needs a seat has a        *)
(* confirmed one.                                                          *)
Survivors(paths, confirmed) ==
    LET kept[n \in 0..Len(paths)] ==
          IF n = 0 THEN <<>>
          ELSE IF paths[n] \subseteq confirmed THEN Append(kept[n-1], paths[n])
          ELSE kept[n-1]
    IN  kept[Len(paths)]

NoAnswer == [how |-> "none", paths |-> <<>>]

ValidationInit ==
    /\ Init
    /\ seats \in [SeatKeys -> SeatLevel]
    /\ up = TRUE
    /\ pc = [c \in Callers |-> "idle"]
    /\ cands = [c \in Callers |-> <<>>]
    /\ todo = [c \in Callers |-> {}]
    /\ cache = [c \in Callers |-> {}]
    /\ cancelled = [c \in Callers |-> FALSE]
    /\ answer = [c \in Callers |-> NoAnswer]
    /\ witnessed = [c \in Callers |-> {}]

(***************************************************************************)
(* Validate                                                                *)
(***************************************************************************)

(* Validate returns a to c; its locals are gone. *)
Return(c, a) ==
    /\ pc' = [pc EXCEPT ![c] = "idle"]
    /\ answer' = [answer EXCEPT ![c] = a]
    /\ cands' = [cands EXCEPT ![c] = <<>>]
    /\ todo' = [todo EXCEPT ![c] = {}]
    /\ cache' = [cache EXCEPT ![c] = {}]
    /\ cancelled' = [cancelled EXCEPT ![c] = FALSE]

(* No seat is needed, there is no client, or the breaker refuses: Validate *)
(* returns without a call to Redis.                                        *)
AnswerWithoutRedis(c) ==
    /\ pc[c] = "idle"
    /\ \E paths \in CandidateLists :
         \/ /\ KeysOf(paths) = {}
            /\ Return(c, [how |-> "on_foot", paths |-> Truncate(paths)])
         \/ /\ KeysOf(paths) # {}
            /\ ~Configured \/ ~Admits
            /\ Return(c, Unavailable(paths))
    /\ witnessed' = [witnessed EXCEPT ![c] = {}]
    /\ UNCHANGED <<vars, redisVars>>

(* The breaker admits the call. *)
StartFetch(c) ==
    /\ pc[c] = "idle"
    /\ Configured
    /\ \E paths \in CandidateLists :
         /\ KeysOf(paths) # {}
         /\ Allow(c)
         /\ pc' = [pc EXCEPT ![c] = "fetch"]
         /\ cands' = [cands EXCEPT ![c] = paths]
         /\ todo' = [todo EXCEPT ![c] = KeysOf(paths)]
    /\ answer' = [answer EXCEPT ![c] = NoAnswer]
    /\ witnessed' = [witnessed EXCEPT ![c] = {EnoughNow}]
    /\ UNCHANGED <<redisVars, cache, cancelled>>

(* Keys of the next MGET. *)
ChunkSize_OneByOne(c) == 1
ChunkSize(c) ==
    IF MGetChunk < Cardinality(todo[c]) THEN MGetChunk ELSE Cardinality(todo[c])

(* One MGET.  The keys come out of a Go map, so the chunks are arbitrary.  *)
MGet(c) ==
    /\ pc[c] = "fetch" /\ up /\ ~cancelled[c]
    /\ \E chunk \in SUBSET todo[c] :
         /\ Cardinality(chunk) = ChunkSize(c)
         /\ cache' = [cache EXCEPT ![c] = @ \cup (chunk \cap EnoughNow)]
         /\ todo' = [todo EXCEPT ![c] = @ \ chunk]
         /\ pc' = [pc EXCEPT ![c] = IF todo'[c] = {} THEN "fetched" ELSE "fetch"]
    /\ UNCHANGED <<vars, redisVars, cands, cancelled, answer, witnessed>>

MGetErrs_NoSocketTimeout(c) == cancelled[c]
MGetErrs(c) == ~up \/ cancelled[c]

(* An MGET errs: Redis does not answer, or the request context is done.    *)
MGetError(c) ==
    /\ pc[c] = "fetch"
    /\ MGetErrs(c)
    /\ pc' = [pc EXCEPT ![c] = "failed"]
    /\ UNCHANGED <<vars, redisVars, cands, todo, cache, cancelled, answer, witnessed>>

(* All chunks arrived: tell the breaker, filter, truncate. *)
Confirm(c) ==
    /\ pc[c] = "fetched"
    /\ Success(c)
    /\ Return(c, [how |-> "confirmed",
                  paths |-> Truncate(Survivors(cands[c], cache[c]))])
    /\ UNCHANGED <<redisVars, witnessed>>

ReportFailure_Skipped(c) == UNCHANGED vars
ReportFailure_NotIfCancelled(c) ==
    IF cancelled[c] THEN Settle(c) /\ UNCHANGED breakerVars ELSE Failure(c)
ReportFailure(c) == Failure(c)

(* A chunk failed: tell the breaker, drop what was fetched, apply Strict. *)
GiveUp(c) ==
    /\ pc[c] = "failed"
    /\ ReportFailure(c)
    /\ Return(c, Unavailable(cands[c]))
    /\ UNCHANGED <<redisVars, witnessed>>

(***************************************************************************)
(* The environment                                                         *)
(***************************************************************************)

(* REQUEST_TIMEOUT_SEC runs out, or the user context is cancelled. *)
CancelRequest(c) ==
    /\ pc[c] = "fetch" /\ ~cancelled[c]
    /\ cancelled' = [cancelled EXCEPT ![c] = TRUE]
    /\ UNCHANGED <<vars, redisVars, pc, cands, todo, cache, answer, witnessed>>

(* A poller, a booking or an eviction changes one seat map. *)
SeatsChange(k) ==
    /\ \E v \in SeatLevel \ {seats[k]} : seats' = [seats EXCEPT ![k] = v]
    /\ witnessed' = [c \in Callers |->
                       IF pc[c] = "fetch"
                       THEN witnessed[c] \cup {{j \in SeatKeys : seats'[j] = "enough"}}
                       ELSE witnessed[c]]
    /\ UNCHANGED <<vars, up, pc, cands, todo, cache, cancelled, answer>>

RedisFlips ==
    /\ up' = ~up
    /\ UNCHANGED <<vars, seats, searchVars>>

Clock == Tick /\ UNCHANGED <<redisVars, searchVars>>

Search(c) ==
    \/ AnswerWithoutRedis(c) \/ StartFetch(c)
    \/ MGet(c) \/ MGetError(c) \/ Confirm(c) \/ GiveUp(c)

ValidationNext ==
    \/ \E c \in Callers : Search(c) \/ CancelRequest(c)
    \/ \E k \in SeatKeys : SeatsChange(k)
    \/ RedisFlips
    \/ Clock

ValidationSpec == ValidationInit /\ [][ValidationNext]_allVars

(* Goroutines run, the clock runs, and searches that need seats keep       *)
(* coming, the only thing here that is traffic rather than scheduling.     *)
FairValidationSpec ==
    /\ ValidationSpec
    /\ WF_allVars(Clock)
    /\ \A c \in Callers : WF_allVars(MGet(c) \/ MGetError(c))
    /\ \A c \in Callers : WF_allVars(Confirm(c)) /\ WF_allVars(GiveUp(c))
    /\ WF_allVars(\E c \in Callers : StartFetch(c))

(***************************************************************************)
(* Properties                                                              *)
(***************************************************************************)

(* The type of every variable added to the breaker's. *)
ValidationTypeOK ==
    /\ TypeOK
    /\ seats \in [SeatKeys -> SeatLevel]
    /\ up \in BOOLEAN
    /\ pc \in [Callers -> {"idle", "fetch", "fetched", "failed"}]
    /\ todo \in [Callers -> SUBSET SeatKeys]
    /\ cache \in [Callers -> SUBSET SeatKeys]
    /\ cancelled \in [Callers -> BOOLEAN]
    /\ cands \in [Callers -> CandidateLists \cup {<<>>}]
    /\ answer \in [Callers -> [how : {"none", "on_foot", "unavailable", "confirmed"},
                               paths : Seq(SUBSET SeatKeys)]]
    /\ witnessed \in [Callers -> SUBSET SUBSET SeatKeys]

(* Validate keeps the breaker's protocol: each admitted call is reported   *)
(* exactly once, on every way out of Validate, and nothing else touches    *)
(* the breaker.                                                            *)
BreakerProtocol == INSTANCE Breaker
UsesBreaker == BreakerProtocol!Spec

(* A probe is never leaked: whoever is in the middle of a Redis call, and  *)
(* nobody else, holds an admission.                                        *)
AdmissionHeldWhileFetching == \A c \in Callers : call[c] # "none" <=> pc[c] # "idle"

(* In strict mode (validator.go:69-71) a journey is only offered if Redis  *)
(* showed enough seats on each of its legs at some instant of this very    *)
(* call; no failure, refusal or half-fetched set of chunks lets one by.    *)
StrictOffersConfirmed ==
    \A c \in Callers : \A i \in DOMAIN answer[c].paths :
        Strict => \A k \in answer[c].paths[i] : \E w \in witnessed[c] : k \in w

(* When one MGET carries all keys, the seats of all legs of a confirmed    *)
(* journey were free together, not just one after the other.               *)
ConfirmedTogether ==
    [][\A c \in Callers : Confirm(c) /\ Cardinality(KeysOf(cands[c])) <= MGetChunk =>
         \A i \in DOMAIN answer'[c].paths :
             \E w \in witnessed[c] : answer'[c].paths[i] \subseteq w]_allVars

(* Every search gets its answer, whatever Redis and the breaker do. *)
SearchesAnswered == \A c \in Callers : pc[c] # "idle" ~> pc[c] = "idle"

(* Once Redis stays up and clients stop giving up, the breaker ends up     *)
(* closed for good: neither late failures nor a lost probe keep it open.   *)
BreakerRecovers ==
    <>[](up /\ \A c \in Callers : ~cancelled[c]) => <>[](state = Closed)
==============================================================================
