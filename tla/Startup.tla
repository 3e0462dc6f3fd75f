------------------------------- MODULE Startup -------------------------------
(***************************************************************************)
(* The life of the process: inner_main (main.rs) and serve (server/mod.rs), *)
(* step by step, with the export pipeline for spans (telemetry.rs), the     *)
(* CORS allowlist (config.rs) and the discovery of module Discovery, up to  *)
(* a server that serves, an orderly exit, or a kill at any point.           *)
(*                                                                          *)
(* What module Gateway says in detail is one step here: the boot load reads *)
(* the config file again, and ends when no task of its devices waits to     *)
(* merge what it found, which it cannot as long as the load runs.  That     *)
(* both modules mean the same by this is what module BootLoad is for.       *)
(***************************************************************************)
EXTENDS Discovery

CONSTANT Troubles  \* which obstacles of a start the model looks at

\* The data directory cannot be created, TAPO_CORS_ORIGINS lists "*", the sessions
\* file does not parse, the port is taken.
ASSUME StartupAssumption == Troubles \subseteq {"dataDir", "wildcard", "sessions", "port"}

\* What TAPO_CORS_ORIGINS may list: blank entries, invalid header values, origins and
\* "*"; their order and number do not matter.
CorsLists == SUBSET {"blank", "invalid", "origin", "*"}

VARIABLES
    stage,    \* the step of inner_main and serve the process is at
    config,   \* the config file: "good", or "bad": missing or malformed
    trouble,  \* the obstacle in the way of this start, or "none"
    layer,    \* the tracing subscriber: "none", "plain" or "otel"
    provider, \* the export pipeline: "none", "live" or "down"
    spans     \* whether spans have ended that the pipeline has not exported yet

telemetry == <<layer, provider, spans>>
startVars == <<stage, config, trouble, telemetry>>
vars == <<discVars, startVars>>

Goto(s) == stage' = s

\* TelemetryGuard::drop: the pipeline, if there is one, is flushed and shut down.
DropGuard ==
    /\ provider' = IF provider = "live" THEN "down" ELSE provider
    /\ spans' = (spans /\ provider # "live")
    /\ UNCHANGED layer

\* inner_main returns an error, or panics, and drops its locals; the runtime, its
\* tasks and the subscriber are still there.
Leave ==
    /\ Goto("returned")
    /\ DropGuard
    /\ UNCHANGED <<discVars, config, trouble>>

\* The process is gone, with all that was in its memory.
Gone ==
    /\ layer' = "none" /\ provider' = "none" /\ spans' = FALSE
    /\ Forget
    /\ UNCHANGED <<config, trouble>>

-----------------------------------------------------------------------------
(* inner_main                                                              *)

Start ==
    /\ stage \in {"off", "exited"}
    /\ \E t \in Troubles \cup {"none"} : trouble' = t
    /\ Goto("telemetry")
    /\ UNCHANGED <<discVars, config, telemetry>>

\* init_telemetry: no endpoint or no exporter (plain logging), a pipeline, or a
\* pipeline that is shut down again because its subscriber is refused.
InitTelemetry ==
    /\ stage = "telemetry"
    /\ \/ layer' = "plain" /\ UNCHANGED provider
       \/ layer' = "otel" /\ provider' = "live"
       \/ layer' = "plain" /\ provider' = "down"
    /\ Goto("dataDir")
    /\ UNCHANGED <<discVars, config, trouble, spans>>

DataDir ==
    /\ stage = "dataDir"
    /\ trouble # "dataDir"
    /\ Goto("peek")
    /\ UNCHANGED <<discVars, config, trouble, telemetry>>

\* The config file exists and parses: its credentials are used for a first sweep.
Peek ==
    /\ stage = "peek"
    /\ config = "good"
    /\ Goto("sweep")
    /\ UNCHANGED <<discVars, config, trouble, telemetry>>

InitialSweepStart ==
    /\ stage = "sweep"
    /\ SweepLoad
    /\ UNCHANGED startVars

\* Mutant of InitialSweepEnd: a first search that finds nothing ends the start.
InitialSweepEndStrict ==
    /\ stage = "sweep"
    /\ sweep.rows # <<>>
    /\ SweepDrop
    /\ Goto("cors")
    /\ UNCHANGED <<config, trouble, telemetry>>

InitialSweepEnd ==
    /\ stage = "sweep"
    /\ SweepDrop
    /\ Goto("cors")
    /\ UNCHANGED <<config, trouble, telemetry>>

-----------------------------------------------------------------------------
(* serve and StateData::init                                               *)

\* cors_origins: what can be parsed, or the two loopback origins.
CorsOrigins(list) ==
    LET parsed == list \ {"blank", "invalid"}
    IN  IF parsed = {} THEN {"loopback"} ELSE parsed

\* AllowOrigin::list panics when it is given "*" (tower_http).
Cors ==
    /\ stage = "cors"
    /\ \E list \in CorsLists :
         /\ "*" \in list <=> trouble = "wildcard"
         /\ IF "*" \in CorsOrigins(list)
            THEN Leave
            ELSE /\ Goto("initLoad")
                 /\ UNCHANGED <<discVars, config, trouble, telemetry>>

\* StateData::init loads the cache file once more; the boot load begins.
InitLoad ==
    /\ stage = "initLoad"
    /\ MemLoad
    /\ Goto("load")
    /\ UNCHANGED <<config, trouble, telemetry>>

\* Mutant of LoadDone: a task that found nothing is not waited for.
LoadDoneEarly ==
    /\ stage = "load"
    /\ config = "good"
    /\ fresh.rows = <<>>
    /\ Goto("sessions")
    /\ UNCHANGED <<discVars, config, trouble, telemetry>>

\* Every task has been joined.
LoadDone ==
    /\ stage = "load"
    /\ config = "good"
    /\ ~fresh.waits
    /\ Goto("sessions")
    /\ UNCHANGED <<discVars, config, trouble, telemetry>>

SessionsCreate ==
    /\ stage = "sessions"
    /\ trouble # "sessions"
    /\ Goto("bind")
    /\ UNCHANGED <<discVars, config, trouble, telemetry>>

Bind ==
    /\ stage = "bind"
    /\ trouble # "port"
    /\ Goto("serving")
    /\ UNCHANGED <<discVars, config, trouble, telemetry>>

\* The obstacle stage s of a start meets.
Blocked(s) ==
    \/ s = trouble
    \/ s = "bind" /\ trouble = "port"
    \/ s \in {"peek", "load"} /\ config = "bad"

\* The ways out of inner_main by `?' and bail!.
Fail ==
    /\ Blocked(stage)
    /\ Leave

\* main logs the error and returns; the runtime drops its tasks.
Exit ==
    /\ stage = "returned"
    /\ Goto("exited")
    /\ Gone

-----------------------------------------------------------------------------
(* What goes on in a process that has got so far.                          *)

\* The periodic task is spawned when the load is over, and runs until the runtime
\* ends, also when the start has failed after it was spawned; a tick starts a sweep.
Spawned ==
    \/ stage \in {"sessions", "bind", "serving"}
    \/ stage = "returned" /\ config = "good" /\ trouble \in {"sessions", "port"}

PeriodicStart   == Spawned /\ SweepLoad /\ UNCHANGED startVars
PeriodicEnd     == Spawned /\ SweepStore /\ UNCHANGED startVars
SweepGoesOn     == SweepStep /\ UNCHANGED startVars

\* Tasks of the boot load and, later, requests rediscover; only when the load has
\* dropped its guard on the cache can they merge.
Rediscover ==
    /\ stage = "serving" \/ (stage = "load" /\ config = "good")
    /\ OnDemandFind
    /\ UNCHANGED startVars
RediscoverMerge == stage = "serving" /\ OnDemandMerge /\ UNCHANGED startVars
RediscoverDrop  == stage = "serving" /\ OnDemandDrop /\ UNCHANGED startVars

\* TraceLayer: the span of a request ends and is queued for export; the pipeline
\* exports or drops what is queued, now and then.
SpanEnds ==
    /\ stage = "serving"
    /\ layer = "otel"
    /\ spans' = TRUE
    /\ UNCHANGED <<discVars, stage, config, trouble, layer, provider>>

Export ==
    /\ provider = "live"
    /\ spans
    /\ spans' = FALSE
    /\ UNCHANGED <<discVars, stage, config, trouble, layer, provider>>

\* The operator edits the config file while the server starts.
EditConfig ==
    /\ stage \in {"off", "sweep", "exited"}
    /\ config' \in {"good", "bad"} \ {config}
    /\ UNCHANGED <<discVars, stage, trouble, telemetry>>

\* A signal: nothing handles it, no local is dropped, no queue is flushed.
Kill ==
    /\ stage \notin {"off", "exited"}
    /\ Goto("off")
    /\ Gone

SInit ==
    /\ DInit
    /\ stage = "off"
    /\ config \in {"good", "bad"}
    /\ trouble = "none"
    /\ layer = "none"
    /\ provider = "none"
    /\ spans = FALSE

MainStep ==
    \/ InitTelemetry \/ DataDir \/ Peek \/ InitialSweepStart \/ InitialSweepEnd
    \/ Cors \/ InitLoad \/ LoadDone \/ SessionsCreate \/ Bind \/ Fail
    \/ Exit

SNext ==
    \/ Start \/ MainStep
    \/ PeriodicStart \/ PeriodicEnd \/ SweepGoesOn
    \/ Rediscover \/ RediscoverMerge \/ RediscoverDrop
    \/ SpanEnds \/ Export
    \/ EditConfig \/ Kill

\* The runtime polls main and its sweep, and a search of the LAN times out.
SSpec == SInit /\ [][SNext]_vars
SFairSpec == SSpec /\ WF_vars(MainStep) /\ WF_vars(SweepGoesOn)

-----------------------------------------------------------------------------
(* Properties                                                              *)

STypeOK ==
    /\ DTypeOK
    /\ stage \in {"off", "telemetry", "dataDir", "peek", "sweep", "cors", "initLoad",
                  "load", "sessions", "bind", "serving", "returned", "exited"}
    /\ config \in {"good", "bad"}
    /\ trouble \in Troubles \cup {"none"}
    /\ layer \in {"none", "plain", "otel"}
    /\ provider \in {"none", "live", "down"}
    /\ spans \in BOOLEAN

\* The boot load waits for a task that waits for the load (see Gateway).
Wedged == stage = "load" /\ fresh.waits

\* The boot load as module BootLoad has it.
BootState ==
    CASE Wedged                     -> "waiting"
      [] stage = "load" /\ ~Wedged -> "loading"
      [] Spawned                    -> "done"
      [] OTHER                      -> "off"

Load == INSTANCE BootLoad WITH boot <- BootState

\* The one step that stands for the boot load does what module Gateway proves of
\* the real one: it is never taken past a task that waits for the cache, whatever
\* that task has found, and what has begun ends once at most.
LoadIsBootLoad == Load!Spec

\* The telemetry collector, the LAN, the cache file and its disk never keep the
\* server from starting (telemetry.rs:12, discovery.rs:48): if nothing else is in
\* its way it serves, and in any case the start comes to an end, unless it is
\* killed or the boot load wedges (for which a device that does not answer and a
\* LAN that can be searched are enough, be there anything on it or not).
StartEnds ==
    /\ stage = "telemetry" ~> stage \in {"serving", "exited", "off"} \/ Wedged
    /\ (stage = "telemetry" /\ trouble = "none")
         ~> stage \in {"serving", "off"} \/ Wedged \/ config = "bad"

-----------------------------------------------------------------------------
(* What the documentation says and the code does not do.                   *)

\* discovery.rs:124-126: "devices that briefly drop off the LAN are kept so a single
\* missed broadcast does not orphan them": a running server that knows a device
\* goes on knowing it, as long as it can read its cache file.
KnownAddressesKept ==
    [][stage = "serving" /\ stage' = "serving" /\ sweep.read
         => Known(mem) \subseteq Known(mem')]_vars

\* main.rs:47-48: the guard "is held for the process lifetime and flushes the export
\* pipeline on shutdown": no process ends with spans that were not exported.
SpansFlushed ==
    [][stage' \in {"off", "exited"} /\ stage' # stage => ~spans]_vars
=============================================================================
