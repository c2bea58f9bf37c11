------------------------------ MODULE Lifecycle ------------------------------
(***************************************************************************)
(* run of cmd/axentra/main.go: one process from boot to exit, and again    *)
(* after a crash.  It composes the migrations (Migrate), the readiness     *)
(* flag and the signal buffer (Readiness), the goroutines that hold        *)
(* Postgres connections (internal/schedule/watcher.go), the seat refresher *)
(* and the classifier, the task workers, the HTTP server and the grace     *)
(* period of the shutdown.                                                 *)
(*                                                                         *)
(* Fiber, asynq and pgxpool are libraries: a shutdown of the HTTP server   *)
(* closes a listener that is open and waits for running requests until the *)
(* context it is given ends; a pool closes when every connection is back.  *)
(* Server.Run of asynq waits for signals itself and then calls Shutdown    *)
(* like run does.  The first call of Shutdown waits for the tasks up to a  *)
(* timeout of its own, any other, and one on a server that has not started *)
(* yet, returns at once and changes nothing.                               *)
(***************************************************************************)
EXTENDS Migrate, Readiness

CONSTANTS
    Self,       \* this instance
    Modes,      \* flags it may be started with: serve, migrate, seed
    AutoMigrate,\* AUTO_MIGRATE
    MaxConns,   \* PG_MAX_CONNS
    MaxSwaps    \* bound: signal buffers published by one process

ASSUME LifecycleAssumption ==
    /\ Instances = {Self}
    /\ Modes \subseteq {"serve", "migrate", "seed"}
    /\ AutoMigrate \in BOOLEAN
    /\ MaxConns \in Nat \ {0} /\ MaxSwaps \in Nat

VARIABLES
    main,      \* where run is
    mode,      \* how it was started
    loaded,    \* a timetable is in memory
    grace,     \* the 20 s of the shutdown: unused, running, over
    swaps,     \* signal buffers published
    at,        \* at[g]: where goroutine g is
    conns,     \* connections out of the Postgres pool
    signalled, \* SIGINT or SIGTERM arrived
    listener,  \* the HTTP listener: none, starting, open, closed, failed
    request,   \* an API request past the gate is running
    workers,   \* asynq: none, starting, running, draining, stopped, failed
    told       \* asynq has got a signal it has not acted on yet

mainVars    == <<main, mode, loaded, grace, swaps>>
routineVars == <<at, conns>>
outsideVars == <<signalled, listener, request, workers, told>>
processVars == <<mainVars, routineVars, outsideVars>>
allVars     == <<migrateVars, readinessVars, processVars>>

(* WatcherLoop, its listenForChanges, RefreshLoop and ZoneClassifyLoop. *)
Goroutines == {"watcher", "listen", "refresh", "classifier"}
Places == {"none", "idle", "waiting", "reloading", "acquiring", "listening", "running", "ended"}

(* run has returned from its select. *)
Unwinding == main \in {"drain", "stopWorkers", "stopping", "wait", "closeRedis", "closePool"}

(* The root context is done: by a signal, or by stop() after the select.   *)
(* The early returns of a boot run the deferred stop last, when no         *)
(* goroutine has been started yet.                                         *)
CtxDone == signalled \/ (Unwinding /\ grace # "unused")

InMemory ==
    /\ loaded' = FALSE /\ grace' = "unused" /\ swaps' = 0
    /\ at' = [g \in Goroutines |-> "none"] /\ conns' = 0
    /\ signalled' = FALSE /\ listener' = "none" /\ request' = "none"
    /\ workers' = "none" /\ told' = FALSE

LifecycleInit ==
    /\ MigrateInit /\ ReadinessInit
    /\ main = "off" /\ mode = "serve"
    /\ loaded = FALSE /\ grace = "unused" /\ swaps = 0
    /\ at = [g \in Goroutines |-> "none"] /\ conns = 0
    /\ signalled = FALSE /\ listener = "none" /\ request = "none"
    /\ workers = "none" /\ told = FALSE

(* main moves on, and nothing else of the process changes. *)
Main(next) ==
    /\ main' = next
    /\ UNCHANGED <<mode, loaded, grace, swaps, routineVars, outsideVars>>

Failing == (CtxDone /\ UNCHANGED faults) \/ (~CtxDone /\ Fault)
Succeeding == ~CtxDone /\ UNCHANGED faults

(***************************************************************************)
(* Boot                                                                    *)
(***************************************************************************)

Boot ==
    /\ main = "off"
    /\ mode' \in Modes
    /\ main' = IF AutoMigrate \/ mode' = "migrate" THEN "migrate" ELSE "redis"
    /\ UNCHANGED <<migrateVars, readinessVars, loaded, grace, swaps, routineVars, outsideVars>>

Migrates ==
    /\ main = "migrate"
    /\ \/ StartUp(Self)
       \/ UpStep(Self) /\ ~CtxDone
       \/ UpFails(Self) /\ Failing
    /\ UNCHANGED <<readinessVars, processVars>>

AfterFailedUp_Serve == "redis"
AfterFailedUp == "closePool"

(* The migrations are done, or the boot is over. *)
MigrationsEnd ==
    /\ main = "migrate" /\ up[Self] \in {"done", "failed"}
    /\ Main(IF up[Self] = "failed" THEN AfterFailedUp
            ELSE IF mode = "migrate" THEN "closePool" ELSE "redis")
    /\ UNCHANGED <<migrateVars, readinessVars>>

(* InitRedis; with -seed the process only fills the stores. *)
ConnectRedis ==
    /\ main = "redis"
    /\ \/ Succeeding /\ Main(IF mode = "seed" THEN "closeRedis" ELSE "load")
       \/ Failing /\ Main("closePool")
    /\ UNCHANGED <<dbVars, upVars, readinessVars>>

(* ReloadRouteArrays, and the watcher with its listening goroutine. *)
LoadSchedule ==
    /\ main = "load"
    /\ \/ /\ Succeeding
          /\ loaded' = TRUE
          /\ at' = [at EXCEPT !["watcher"] = "idle", !["listen"] = "acquiring"]
          /\ main' = "coldstart"
          /\ UNCHANGED <<mode, grace, swaps, conns, outsideVars>>
       \/ Failing /\ Main("closeRedis")
    /\ UNCHANGED <<dbVars, upVars, readinessVars>>

PublishBuffer ==
    /\ swaps < MaxSwaps /\ swaps' = swaps + 1
    /\ \E b \in Buffers : StorePointer(b)

(* A cold start publishes what it found, or gives up; run goes on anyway. *)
ColdStart ==
    /\ main = "coldstart"
    /\ main' = "coldstarted"
    /\ \/ Succeeding /\ PublishBuffer
       \/ Failing /\ UNCHANGED <<readinessVars, swaps>>
    /\ UNCHANGED <<dbVars, upVars, mode, loaded, grace, routineVars, outsideVars>>

(* The refresher, the workers, the classifier, MarkReady and the listener. *)
StartServing ==
    /\ main = "coldstarted" /\ swap = "none"
    /\ main' = "serving"
    /\ at' = [at EXCEPT !["refresh"] = "running", !["classifier"] = "running"]
    /\ workers' = "starting" /\ listener' = "starting"
    /\ ready' = TRUE
    /\ UNCHANGED <<migrateVars, counterVars, probe, mode, loaded, grace, swaps, conns,
                   signalled, request, told>>

(***************************************************************************)
(* Shutdown                                                                *)
(***************************************************************************)

ReadyAfterSelect_Kept == ready
ReadyAfterSelect == FALSE

(* A signal, or the HTTP server or the workers failed: MarkNotReady and    *)
(* stop, and the grace period begins.                                      *)
LeaveSelect ==
    /\ main = "serving"
    /\ signalled \/ listener = "failed" \/ workers = "failed"
    /\ main' = "drain"
    /\ ready' = ReadyAfterSelect
    /\ grace' = "running"
    /\ UNCHANGED <<migrateVars, counterVars, probe, mode, loaded, swaps, routineVars, outsideVars>>

(* app.ShutdownWithContext.  A listener that has not started yet is not    *)
(* stopped by it.                                                          *)
CloseListener ==
    /\ main = "drain" /\ listener = "open"
    /\ listener' = "closed"
    /\ UNCHANGED <<migrateVars, readinessVars, mainVars, routineVars, signalled, request, workers,
                   told>>

Answering == request = "running" \/ InProbe

DrainOver_NoContext == ~Answering
DrainOver == ~Answering \/ grace = "over"

Drained ==
    /\ main = "drain" /\ listener # "open"
    /\ DrainOver
    /\ Main("stopWorkers")
    /\ UNCHANGED <<migrateVars, readinessVars>>

(* Shutdown closes the queue; if a task is running, it goes on. *)
WorkersClose ==
    /\ workers = "running" /\ workers' \in {"draining", "stopped"}
    /\ told' = FALSE

(* asynqServer.Shutdown of run: it waits only if nobody has called it yet. *)
StopWorkers ==
    /\ main = "stopWorkers"
    /\ \/ WorkersClose /\ main' = "stopping"
       \/ workers # "running" /\ main' = "wait" /\ UNCHANGED <<workers, told>>
    /\ UNCHANGED <<migrateVars, readinessVars, mode, loaded, grace, swaps, routineVars,
                   signalled, listener, request>>

WorkersStopped ==
    /\ main = "stopping" /\ workers = "stopped"
    /\ Main("wait")
    /\ UNCHANGED <<migrateVars, readinessVars>>

(* The wait group; WatcherLoop waits for its listening goroutine itself. *)
RoutinesEnded == \A g \in Goroutines \ {"listen"} : at[g] = "ended"

WaitGroup ==
    /\ main = "wait"
    /\ RoutinesEnded \/ grace = "over"
    /\ Main("closeRedis")
    /\ UNCHANGED <<migrateVars, readinessVars>>

(* The deferred closes: queue client and Redis, then the pool, which waits *)
(* for its connections; then the process is gone.                          *)
CloseRedis ==
    /\ main = "closeRedis"
    /\ Main("closePool")
    /\ UNCHANGED <<migrateVars, readinessVars>>

Gone ==
    /\ Forget(Self) /\ ReadinessReset /\ InMemory
    /\ main' = "off"
    /\ UNCHANGED mode

ClosePool ==
    /\ main = "closePool" /\ conns = 0
    /\ Gone /\ UNCHANGED faults

Crash == main # "off" /\ Gone /\ Fault

(***************************************************************************)
(* The goroutines                                                          *)
(***************************************************************************)

(* Goroutine g moves on and takes n connections from the pool. *)
Move(g, from, to, n) ==
    /\ at[g] = from /\ at' = [at EXCEPT ![g] = to]
    /\ conns + n \in 0..MaxConns /\ conns' = conns + n
    /\ UNCHANGED <<dbVars, upVars, readinessVars, mainVars, outsideVars>>

(* WatcherLoop: a notification or the ticker; each query needs a           *)
(* connection, and ends by itself or with the context.                     *)
ReloadCalled == ~CtxDone /\ Move("watcher", "idle", "waiting", 0) /\ UNCHANGED faults

WatcherStep ==
    /\ \/ Move("watcher", "waiting", "reloading", 1)
       \/ Move("watcher", "reloading", "idle", -1)
       \/ CtxDone /\ Move("watcher", "waiting", "idle", 0)
       \/ CtxDone /\ at["listen"] = "ended" /\ Move("watcher", "idle", "ended", 0)
    /\ UNCHANGED faults

(* listenForChanges keeps a connection while it listens. *)
ListenBegins == ~CtxDone /\ Move("listen", "acquiring", "listening", 1) /\ UNCHANGED faults

ReleasedByBreak_None == 0
ReleasedByBreak == 1

(* The connection breaks; it is released before another is acquired.  *)
ListenBreaks ==
    ~CtxDone /\ Move("listen", "listening", "acquiring", -ReleasedByBreak) /\ Fault

ListenStops ==
    /\ CtxDone
    /\ \/ Move("listen", "acquiring", "ended", 0)
       \/ Move("listen", "listening", "ended", -1)
    /\ UNCHANGED faults

(* RefreshLoop publishes, or ends between two batches; the classifier ends *)
(* between two sweeps.                                                     *)
RefreshPublishes ==
    /\ at["refresh"] = "running"
    /\ PublishBuffer
    /\ UNCHANGED <<migrateVars, main, mode, loaded, grace, routineVars, outsideVars>>

SwapGoesOn == SwapContinues /\ UNCHANGED <<migrateVars, processVars>>

RefreshStops ==
    CtxDone /\ swap = "none" /\ Move("refresh", "running", "ended", 0) /\ UNCHANGED faults

ClassifierStops == CtxDone /\ Move("classifier", "running", "ended", 0) /\ UNCHANGED faults

(***************************************************************************)
(* The HTTP server, the workers and the outside                            *)
(***************************************************************************)

Outside == UNCHANGED <<dbVars, upVars, readinessVars, main, mode, loaded, swaps, routineVars>>

(* Listen binds the port, or fails. *)
Listens ==
    /\ listener = "starting"
    /\ \/ listener' = "open" /\ UNCHANGED faults
       \/ listener' = "failed" /\ Fault
    /\ Outside /\ UNCHANGED <<signalled, request, workers, told, grace>>

(* A search past readyGate. *)
RequestBegins ==
    /\ listener = "open" /\ ready /\ request = "none" /\ request' = "running"
    /\ Outside /\ UNCHANGED <<faults, signalled, listener, workers, told, grace>>

RequestEnds ==
    /\ request = "running" /\ request' = "none"
    /\ Outside /\ UNCHANGED <<faults, signalled, listener, workers, told, grace>>

Probing ==
    /\ listener = "open" \/ InProbe
    /\ ProbeStep
    /\ UNCHANGED <<migrateVars, processVars>>

(* Run starts the workers, or cannot, whatever run is doing by then; and   *)
(* asynq answers a signal with a Shutdown of its own.                      *)
WorkersMove ==
    /\ \/ workers = "starting" /\ workers' = "running" /\ UNCHANGED <<faults, told>>
       \/ workers = "starting" /\ workers' = "failed" /\ Fault /\ UNCHANGED told
       \/ told /\ WorkersClose /\ UNCHANGED faults
    /\ Outside /\ UNCHANGED <<signalled, listener, request, grace>>

(* The last task ends, or asynq's timeout gives up on it. *)
WorkersDrained ==
    /\ workers = "draining" /\ workers' = "stopped"
    /\ Outside /\ UNCHANGED <<faults, signalled, listener, request, told, grace>>

(* Both run and asynq hear of a signal, but asynq only once it has started *)
(* and asked to be notified.  After stop(), asynq alone hears of another;  *)
(* where it does not either, that is a Crash.                              *)
Signal ==
    /\ main # "off"
    /\ \/ /\ ~CtxDone /\ signalled' = TRUE
          /\ told' \in {FALSE, workers = "running"}
       \/ /\ CtxDone /\ ~told /\ workers = "running" /\ told' = TRUE
          /\ UNCHANGED signalled
    /\ Outside /\ UNCHANGED <<faults, listener, request, workers, grace>>

GraceExpires ==
    /\ grace = "running" /\ grace' = "over"
    /\ Outside /\ UNCHANGED <<faults, outsideVars>>

MainStep ==
    \/ Migrates \/ MigrationsEnd \/ ConnectRedis \/ LoadSchedule
    \/ ColdStart \/ StartServing
    \/ LeaveSelect \/ CloseListener \/ Drained \/ StopWorkers \/ WorkersStopped \/ WaitGroup
    \/ CloseRedis \/ ClosePool

LifecycleNext ==
    \/ Boot \/ MainStep \/ Crash \/ Signal \/ GraceExpires
    \/ ReloadCalled \/ WatcherStep \/ ListenBegins \/ ListenBreaks \/ ListenStops
    \/ RefreshPublishes \/ SwapGoesOn \/ RefreshStops \/ ClassifierStops
    \/ Listens \/ RequestBegins \/ RequestEnds \/ Probing
    \/ WorkersMove \/ WorkersDrained

(* The goroutines run and time passes.  Nothing makes requests or tasks    *)
(* end, so the grace period and asynq's timeout are needed.                *)
LifecycleSpec ==
    /\ LifecycleInit /\ [][LifecycleNext]_allVars
    /\ WF_allVars(MainStep)
    /\ WF_allVars(WatcherStep) /\ WF_allVars(ListenBegins \/ ListenStops)
    /\ WF_allVars(SwapGoesOn \/ RefreshStops \/ ClassifierStops \/ WorkersDrained \/ GraceExpires)

(***************************************************************************)
(* Properties                                                              *)
(***************************************************************************)

(* The type of every variable. *)
LifecycleTypeOK ==
    /\ MigrateTypeOK /\ ReadinessTypeOK
    /\ main \in {"off", "migrate", "redis", "load", "coldstart", "coldstarted", "serving",
                 "drain", "stopWorkers", "stopping", "wait", "closeRedis", "closePool"}
    /\ mode \in Modes \cup {"serve"}
    /\ loaded \in BOOLEAN /\ grace \in {"unused", "running", "over"} /\ swaps \in 0..MaxSwaps
    /\ at \in [Goroutines -> Places] /\ conns \in 0..MaxConns
    /\ signalled \in BOOLEAN
    /\ listener \in {"none", "starting", "open", "closed", "failed"}
    /\ request \in {"none", "running"}
    /\ workers \in {"none", "starting", "running", "draining", "stopped", "failed"}
    /\ told \in BOOLEAN

(* main.go:6-7: "the schema exists before anything queries it" and "route  *)
(* arrays in RAM before any goroutine or handler reads them".  A request   *)
(* runs only after ReloadRouteArrays has succeeded in this very process    *)
(* and, with migrations on, only over the whole schema, whatever crashed,  *)
(* failed or was adopted before.  What it finds may be empty: a timetable  *)
(* without trips is only warned of (main.go:115-119), so is a cold start   *)
(* that failed.                                                            *)
RequestsFollowBoot ==
    request = "running" => loaded /\ (AutoMigrate => schema = Versions)

(* README.md:485-486: requests finish, "then the workers stop, then the    *)
(* pools close".  No request is left, nor does one begin, once the server  *)
(* is drained, even if the listener only comes up then, unless the grace   *)
(* period ran out.                                                         *)
DrainedForGood ==
    Unwinding /\ main # "drain" /\ request = "running" => grace = "over"

(* README.md:485-486: "then the workers stop, then the pools close": when  *)
(* Redis is closed within the grace period, workers that were told to stop *)
(* have stopped, or asynq's timeout has passed.                            *)
WorkersStopFirst == main = "closePool" /\ grace = "running" => workers # "draining"

(* "One Ctrl-C or one SIGTERM unwinds every goroutine in the process"      *)
(* (main.go:64-65) and the process exits, whatever requests, tasks and     *)
(* queries are doing; the pool gets its connections back.                  *)
StopsWhenTold == CtxDone ~> main = "off"

(* The watcher is never starved of connections by its own LISTEN, however  *)
(* often that breaks and reconnects.                                       *)
ReloadsGetConnection == at["watcher"] = "waiting" ~> at["watcher"] # "waiting"
==============================================================================
