---------------------------- MODULE StartupProofs ----------------------------
(***************************************************************************)
(* The boot load as a step of the start (module Startup) is the boot load   *)
(* of module BootLoad, whatever the devices, the LAN, the cache file and    *)
(* the troubles of the start.  GatewayProofs shows the same of the load with *)
(* its tasks and locks.                                                     *)
(***************************************************************************)
EXTENDS Startup, TLAPS

\* A task waits for the cache only in a process whose load has begun: no search
\* outlives its process, and none is over when the load begins.  (The trouble with
\* the port is met at another stage than its own.)
NoEarlySearch ==
    /\ fresh.waits => stage \in {"load", "serving", "returned"}
    /\ stage # "port"

\* The states of module BootLoad, one at a time.
LEMMA BootStates ==
    /\ BootState = "waiting" <=> Wedged
    /\ BootState = "loading" <=> stage = "load" /\ ~Wedged
    /\ BootState = "done" <=> Spawned
    /\ BootState = "off" <=> stage # "load" /\ ~Spawned
<1>1. Wedged => stage = "load"
  BY DEF Wedged
<1>2. Spawned => stage # "load"
  BY DEF Spawned
<1>3. CASE Wedged
  BY <1>1, <1>2, <1>3 DEF BootState
<1>4. CASE stage = "load" /\ ~Wedged
  BY <1>2, <1>4 DEF BootState
<1>5. CASE Spawned
  BY <1>1, <1>2, <1>5 DEF BootState
<1>6. CASE stage # "load" /\ ~Spawned
  BY <1>1, <1>6 DEF BootState
<1> QED
  BY <1>1, <1>2, <1>3, <1>4, <1>5, <1>6

\* A step that keeps stage, config, trouble and what waits for the cache, keeps all.
LEMMA NothingMoves ==
    ASSUME NoEarlySearch, UNCHANGED <<stage, config, trouble, fresh>>
    PROVE  NoEarlySearch' /\ UNCHANGED BootState
BY DEF NoEarlySearch, BootState, Wedged, Spawned

\* A step of discovery other than a rediscovery, with main where it was.
LEMMA SweepsKeep ==
    ASSUME NoEarlySearch,
           \/ InitialSweepStart \/ PeriodicStart \/ PeriodicEnd \/ SweepGoesOn
           \/ SpanEnds \/ Export \/ UNCHANGED vars
    PROVE  NoEarlySearch' /\ UNCHANGED BootState
<1>1. UNCHANGED <<stage, config, trouble, fresh>>
  BY DEF InitialSweepStart, PeriodicStart, PeriodicEnd, SweepGoesOn, SpanEnds, Export,
         SweepLoad, SweepStore, SweepStep, SweepFound, SweepFailed, SaveWrite, SaveRename,
         SaveFails, startVars, discVars, vars
<1> QED
  BY <1>1, NothingMoves

\* main on its way to the load: nothing has begun.
LEMMA BeforeLoad ==
    ASSUME NoEarlySearch,
           Start \/ InitTelemetry \/ DataDir \/ Peek \/ InitialSweepEnd \/ EditConfig
    PROVE  NoEarlySearch' /\ UNCHANGED BootState
<1>1. /\ stage \in {"off", "exited", "telemetry", "dataDir", "peek", "sweep"}
      /\ stage' \in {"off", "exited", "telemetry", "dataDir", "peek", "sweep", "cors"}
      /\ UNCHANGED fresh
  BY DEF Start, InitTelemetry, DataDir, Peek, InitialSweepEnd, SweepDrop, EditConfig, Goto,
         discVars
<1> QED
  BY <1>1 DEF NoEarlySearch, BootState, Wedged, Spawned

\* The load begins with nobody waiting, and ends with nobody waiting.
LEMMA LoadBeginsAndEnds ==
    ASSUME NoEarlySearch
    PROVE  /\ InitLoad => NoEarlySearch' /\ Load!Begin
           /\ LoadDone => NoEarlySearch' /\ Load!Finish
           /\ SessionsCreate \/ Bind => NoEarlySearch' /\ UNCHANGED BootState
<1>1. ASSUME InitLoad PROVE NoEarlySearch' /\ Load!Begin
  <2>1. stage = "initLoad" /\ stage' = "load" /\ UNCHANGED fresh
    BY <1>1 DEF InitLoad, MemLoad, Goto
  <2> QED
    BY <2>1 DEF NoEarlySearch, BootState, Wedged, Spawned, Load!Begin
<1>2. ASSUME LoadDone PROVE NoEarlySearch' /\ Load!Finish
  <2>1. stage = "load" /\ stage' = "sessions" /\ ~fresh.waits /\ UNCHANGED fresh
    BY <1>2 DEF LoadDone, Goto, discVars
  <2> QED
    BY <2>1 DEF NoEarlySearch, BootState, Wedged, Spawned, Load!Finish
<1>3. ASSUME SessionsCreate \/ Bind PROVE NoEarlySearch' /\ UNCHANGED BootState
  <2>1. stage \in {"sessions", "bind"} /\ stage' \in {"bind", "serving"} /\ UNCHANGED fresh
    BY <1>3 DEF SessionsCreate, Bind, Goto, discVars
  <2> QED
    BY <2>1 DEF NoEarlySearch, BootState, Wedged, Spawned
<1> QED
  BY <1>1, <1>2, <1>3

\* A task that has searched is what the load waits for; a request's is not.
LEMMA SearchesKeep ==
    ASSUME NoEarlySearch
    PROVE  /\ Rediscover => NoEarlySearch' /\ (Load!Searched \/ UNCHANGED BootState)
           /\ RediscoverMerge \/ RediscoverDrop => NoEarlySearch' /\ UNCHANGED BootState
<1>1. ASSUME Rediscover PROVE NoEarlySearch' /\ (Load!Searched \/ UNCHANGED BootState)
  <2>1. /\ stage \in {"load", "serving"} /\ ~fresh.waits /\ fresh'.waits
        /\ UNCHANGED <<stage, config, trouble>>
    BY <1>1 DEF Rediscover, OnDemandFind, startVars
  <2> QED
    BY <2>1 DEF NoEarlySearch, BootState, Wedged, Spawned, Load!Searched
<1>2. ASSUME RediscoverMerge \/ RediscoverDrop PROVE NoEarlySearch' /\ UNCHANGED BootState
  <2>1. stage = "serving" /\ UNCHANGED <<stage, config, trouble>>
    BY <1>2 DEF RediscoverMerge, RediscoverDrop, startVars
  <2> QED
    BY <2>1 DEF NoEarlySearch, BootState, Wedged, Spawned
<1> QED
  BY <1>1, <1>2

\* The ways out of inner_main: from a stage before the load or the load itself
\* nothing has been loaded; later, all has.
LEMMA LeavingKeeps ==
    ASSUME NoEarlySearch, Fail \/ Cors
    PROVE  NoEarlySearch' /\ (Load!Stop \/ UNCHANGED BootState)
<1>1. UNCHANGED <<fresh, config, trouble>>
  BY DEF Fail, Cors, Leave, discVars
<1>2. CASE Cors
  <2>1. /\ stage = "cors" /\ stage' \in {"returned", "initLoad"}
        /\ stage' = "returned" => trouble = "wildcard"
    <3>1. ASSUME NEW list, "*" \in CorsOrigins(list) PROVE "*" \in list
      BY <3>1 DEF CorsOrigins
    <3> QED
      BY <1>2, <3>1 DEF Cors, Leave, Goto
  <2> QED
    BY <1>1, <2>1 DEF NoEarlySearch, BootState, Wedged, Spawned
<1>3. CASE Fail
  <2>1. stage' = "returned" /\ Blocked(stage)
    BY <1>3 DEF Fail, Leave, Goto
  <2>2. NoEarlySearch'
    BY <2>1 DEF NoEarlySearch
  <2>3. CASE stage = "load"
    <3>1. ~Spawned' /\ ~Wedged' /\ stage' # "load"
      <4>1. stage # "sessions" /\ trouble = stage => trouble \notin {"sessions", "port"}
        BY <2>3
      <4>2. config = "bad" \/ trouble = "load"
        BY <2>1, <2>3 DEF Blocked
      <4> QED
        BY <1>1, <2>1, <2>3, <4>1, <4>2 DEF Spawned, Wedged
    <3>2. BootState # "off" /\ BootState' = "off"
      BY <2>3, <3>1, BootStates DEF BootState
    <3> QED
      BY <2>2, <3>2 DEF Load!Stop
  <2>4. CASE stage # "load" /\ Spawned
    <3>1. BootState = "done" /\ BootState' \in {"done", "off"}
      BY <2>1, <2>4, BootStates DEF BootState, Wedged
    <3> QED
      BY <2>2, <3>1 DEF Load!Stop
  <2>5. CASE stage # "load" /\ ~Spawned
    <3>1. ~Spawned'
      BY <1>1, <2>1, <2>5 DEF NoEarlySearch, Spawned, Blocked
    <3>2. BootState = "off" /\ BootState' = "off"
      BY <2>1, <2>5, <3>1, BootStates DEF BootState, Wedged
    <3> QED
      BY <2>2, <3>2
  <2> QED
    BY <2>3, <2>4, <2>5
<1> QED
  BY <1>2, <1>3

\* The process ends, and with it all that waits.
LEMMA EndingKeeps ==
    ASSUME NoEarlySearch, Exit \/ Kill
    PROVE  NoEarlySearch' /\ (Load!Stop \/ UNCHANGED BootState)
<1>1. stage' \in {"off", "exited"} /\ ~fresh'.waits
  BY DEF Exit, Kill, Gone, Forget, NoSearch, Goto
<1> QED
  BY <1>1 DEF NoEarlySearch, BootState, Wedged, Spawned, Load!Stop

\* The boot load of a start is never taken past a task that waits for the cache,
\* whatever that task has found, and ends once at most in a process.
THEOREM StartImplementsBootLoad == SSpec => LoadIsBootLoad
<1>1. SInit => NoEarlySearch /\ Load!Init
  BY DEF SInit, DInit, NoSearch, NoEarlySearch, BootState, Wedged, Spawned, Load!Init
<1>2. ASSUME NoEarlySearch, [SNext]_vars
      PROVE  NoEarlySearch' /\ [Load!Next]_BootState
  BY <1>2, SweepsKeep, BeforeLoad, LoadBeginsAndEnds, SearchesKeep, LeavingKeeps, EndingKeeps
     DEF SNext, MainStep, Load!Next
<1>3. SSpec => []NoEarlySearch
  BY <1>1, <1>2, PTL DEF SSpec
<1> QED
  BY <1>1, <1>2, <1>3, PTL DEF SSpec, LoadIsBootLoad, Load!Spec
=============================================================================
