------------------------------- MODULE Gateway -------------------------------
(***************************************************************************)
(* The running server: StateData::init and reload_config (server/state.rs),*)
(* the loader they call (server/loader.rs), the handlers that use what was *)
(* loaded (server/actions.rs, sessions.rs, auth.rs, mod.rs) and the        *)
(* periodic discovery task, over the two shared locks `loaded_config' and  *)
(* `device_cache' and the devices of module TapoDevice.                    *)
(*                                                                         *)
(* A load reads the config file, resolves missing addresses from the       *)
(* device cache, builds one TapoDevice per entry that has an address and   *)
(* spawns one task per device that tries to connect; it holds a read guard *)
(* on the cache until every task has been joined.  The server boots by one *)
(* load; every POST /reload-config is another, and replaces what was       *)
(* loaded.  A request holds a read guard on `loaded_config' from the       *)
(* lookup of its device to the end of the operation.                       *)
(*                                                                         *)
(* A load builds its own device objects: LoadOf says which load an object  *)
(* belongs to, and the JoinSet task that connects object d is called d.    *)
(***************************************************************************)
EXTENDS TapoDevice, Naturals

CONSTANTS
    Boot,       \* the load of StateData::init
    Reloads,    \* requests POST /reload-config
    Requests,   \* connections that carry all other requests, one at a time
    LoadOf,     \* the load that builds a TapoDevice
    Content,    \* Content[v]: version v of the config file
    NotListed,  \* a name has no entry in a version
    Malformed   \* a version that does not parse

Loads == {Boot} \cup Reloads
Versions == DOMAIN Content
ConfigFile == [Names -> IPs \cup {NoIp, NotListed}]

ASSUME GatewayAssumption ==
    /\ Boot \notin Reloads
    /\ Requests \cap Devices = {}
    /\ Tasks = Requests \cup Devices
    /\ Loads \cap (Tasks \cup {Refresher}) = {}
    /\ CacheUsers = Tasks \cup Loads \cup {Refresher}
    /\ LoadOf \in [Devices -> Loads]
    \* Every load may build one object for every name.
    /\ \A c, d \in Devices :
         LoadOf[c] = LoadOf[d] /\ NameOf[c] = NameOf[d] => c = d
    /\ \A l \in Loads, n \in Names :
         \E d \in Devices : LoadOf[d] = l /\ NameOf[d] = n
    /\ Versions \subseteq Nat /\ 1 \in Versions
    /\ \A v \in Versions : Content[v] # Malformed => Content[v] \in ConfigFile
    /\ NotListed \notin MaybeIp

VARIABLES
    file,        \* version of the config file on disk
    loaded,      \* StateData.loaded_config: its version and its devices ...
    loadedLock,  \* ... and its RwLock
    loadPc,      \* loadPc[l]: the await load l is at
    loadDevs,    \* loadDevs[l]: the devices l built
    loadVer      \* loadVer[l]: the version of the file l read

gateVars == <<file, loaded, loadedLock, loadPc, loadDevs, loadVer>>
vars     == <<devVars, gateVars>>

LoadedUsers == Requests \cup Loads

LoadPoints ==
    {"idle",
     "cacheRead",    \* waits for device_cache.read()
     "joining",      \* waits for the tasks it spawned, with the guard
     "loadedWrite",  \* waits for loaded_config.write()
     "done",
     "error",        \* config file rejected; at boot the process exits
     "cancelled"}    \* the client of /reload-config has hung up

Booted == loadPc[Boot] = "done"

GotoLoad(l, point) == loadPc' = [loadPc EXCEPT ![l] = point]

-----------------------------------------------------------------------------
(* Loads.                                                                  *)

LoadStart(l) ==
    /\ loadPc[l] = "idle"
    /\ l = Boot \/ Booted
    /\ cacheLock' = Enqueue(cacheLock, l, "read")
    /\ GotoLoad(l, "cacheRead")
    /\ UNCHANGED <<client, clientLock, currentIp, cache, pc, dev, locals,
                   file, loaded, loadedLock, loadDevs, loadVer>>

\* The config file cannot be parsed: the load ends and drops its guard.
LoadReject(l) ==
    /\ loadPc[l] = "cacheRead"
    /\ Holds(cacheLock, l)
    /\ Content[file] = Malformed
    /\ cacheLock' = Dequeue(cacheLock, l)
    /\ GotoLoad(l, "error")
    /\ UNCHANGED <<client, clientLock, currentIp, cache, pc, dev, locals,
                   file, loaded, loadedLock, loadDevs, loadVer>>

\* The address of a config entry: its own, else what the cache says of its name.
Resolve(entry, name) ==
    CASE entry = NotListed -> {NoIp}
      [] entry \in IPs     -> {entry}
      [] OTHER             -> Lookup(cache, name)

\* Mutant of Connectable: entries without an address are not skipped.
ConnectableUnresolved(l, addr) == {d \in Devices : LoadOf[d] = l}

\* The objects of load l whose entry has an address; the others are not built.
Connectable(l, addr) == {d \in Devices : LoadOf[d] = l /\ addr[NameOf[d]] # NoIp}

\* The file is read and resolved; entries left without an address are skipped,
\* each of the others gets its TapoDevice and a task that calls try_connect.
LoadSpawn(l) ==
    /\ loadPc[l] = "cacheRead"
    /\ Holds(cacheLock, l)
    /\ Content[file] # Malformed
    /\ \E addr \in [Names -> MaybeIp] :
         /\ \A n \in Names : addr[n] \in Resolve(Content[file][n], n)
         /\ LET new == Connectable(l, addr) IN
              /\ currentIp' = [d \in Devices |->
                                 IF d \in new THEN addr[NameOf[d]] ELSE currentIp[d]]
              /\ clientLock' = [d \in Devices |->
                                 IF d \in new THEN Enqueue(clientLock[d], d, "read")
                                              ELSE clientLock[d]]
              /\ pc' = [t \in Tasks |-> IF t \in new THEN "clientRead" ELSE pc[t]]
              /\ dev' = [t \in Tasks |-> IF t \in new THEN t ELSE dev[t]]
              /\ loadDevs' = [loadDevs EXCEPT ![l] = new]
    /\ loadVer' = [loadVer EXCEPT ![l] = file]
    /\ GotoLoad(l, "joining")
    /\ UNCHANGED <<client, cache, cacheLock, locals, file, loaded, loadedLock>>

\* Mutant of AllJoined: the load does not wait for its tasks.
NoneJoined(l) == TRUE

AllJoined(l) == \A d \in loadDevs[l] : ~InCall(d)

\* Mutant of LoadResult: the file is read again when the devices are there.
LoadResultReread(l) == [version |-> file, devices |-> loadDevs[l]]

LoadResult(l) == [version |-> loadVer[l], devices |-> loadDevs[l]]

\* StateData::init returns: the server starts to serve what it loaded.
BootJoin ==
    /\ loadPc[Boot] = "joining"
    /\ AllJoined(Boot)
    /\ cacheLock' = Dequeue(cacheLock, Boot)
    /\ loaded' = LoadResult(Boot)
    /\ GotoLoad(Boot, "done")
    /\ UNCHANGED <<client, clientLock, currentIp, cache, pc, dev, locals,
                   file, loadedLock, loadDevs, loadVer>>

\* Mutant of ReloadJoin: drop(cache_guard) is missing.
ReloadJoinKeepsGuard(l) ==
    /\ l # Boot
    /\ loadPc[l] = "joining"
    /\ AllJoined(l)
    /\ loadedLock' = Enqueue(loadedLock, l, "write")
    /\ GotoLoad(l, "loadedWrite")
    /\ UNCHANGED <<devVars, file, loaded, loadDevs, loadVer>>

\* reload_config drops its cache guard and asks for loaded_config.write().
ReloadJoin(l) ==
    /\ l # Boot
    /\ loadPc[l] = "joining"
    /\ AllJoined(l)
    /\ cacheLock' = Dequeue(cacheLock, l)
    /\ loadedLock' = Enqueue(loadedLock, l, "write")
    /\ GotoLoad(l, "loadedWrite")
    /\ UNCHANGED <<client, clientLock, currentIp, cache, pc, dev, locals,
                   file, loaded, loadDevs, loadVer>>

ReloadStore(l) ==
    /\ loadPc[l] = "loadedWrite"
    /\ Holds(loadedLock, l)
    /\ loaded' = LoadResult(l)
    /\ loadedLock' = Dequeue(loadedLock, l)
    /\ GotoLoad(l, "done")
    /\ UNCHANGED <<devVars, file, loadDevs, loadVer>>

\* The client of /reload-config hangs up: its future is dropped with its guards
\* and queued requests, and dropping the JoinSet aborts the tasks ...
ReloadHangup(l) ==
    /\ l # Boot
    /\ loadPc[l] \in {"cacheRead", "joining", "loadedWrite"}
    /\ cacheLock' = Dequeue(cacheLock, l)
    /\ loadedLock' = Dequeue(loadedLock, l)
    /\ GotoLoad(l, "cancelled")
    /\ UNCHANGED <<client, clientLock, currentIp, cache, pc, dev, locals,
                   file, loaded, loadDevs, loadVer>>

\* ... each of which the runtime drops some time later, at an await.
AbortTask(d) ==
    /\ loadPc[LoadOf[d]] = "cancelled"
    /\ DropCall(d)
    /\ UNCHANGED gateVars

LoadStep(l) ==
    \/ LoadReject(l) \/ LoadSpawn(l) \/ ReloadJoin(l) \/ ReloadStore(l)
    \/ l = Boot /\ BootJoin

-----------------------------------------------------------------------------
(* Requests.  Whoever is named in the comments has passed auth_middleware; *)
(* login is outside of it but takes the same lock.                         *)

RequestStart(q) ==
    /\ Booted
    /\ pc[q] = "idle"
    /\ ~Requested(loadedLock, q)
    /\ loadedLock' = Enqueue(loadedLock, q, "read")
    /\ UNCHANGED <<devVars, file, loaded, loadPc, loadDevs, loadVer>>

\* Mutant of RequestDevice: the guard is dropped as soon as the device is found.
RequestDeviceUnlocks(q) ==
    /\ Requested(loadedLock, q) /\ Holds(loadedLock, q)
    /\ \E d \in loaded.devices : WithClient(q, d) \/ RefreshSession(q, d)
    /\ loadedLock' = Dequeue(loadedLock, q)
    /\ UNCHANGED <<file, loaded, loadPc, loadDevs, loadVer>>

\* Action routes and /refresh-session find their device and call into it.
RequestDevice(q) ==
    /\ Requested(loadedLock, q) /\ Holds(loadedLock, q)
    /\ \E d \in loaded.devices : WithClient(q, d) \/ RefreshSession(q, d)
    /\ UNCHANGED gateVars

\* login compares the password, list_devices copies the list, or the device is
\* unknown: the guard is dropped without another await.
RequestAnswer(q) ==
    /\ Requested(loadedLock, q) /\ Holds(loadedLock, q)
    /\ pc[q] = "idle"
    /\ loadedLock' = Dequeue(loadedLock, q)
    /\ UNCHANGED <<devVars, file, loaded, loadPc, loadDevs, loadVer>>

\* The call into the device has returned; the handler answers and drops its guard.
RequestReturn(q) ==
    /\ Return(q)
    /\ loadedLock' = Dequeue(loadedLock, q)
    /\ UNCHANGED <<file, loaded, loadPc, loadDevs, loadVer>>

\* The client hangs up while its request waits or runs.
RequestHangup(q) ==
    /\ \/ DropCall(q)
       \/ /\ pc[q] = "idle" /\ Requested(loadedLock, q)
          /\ UNCHANGED devVars
    /\ loadedLock' = Dequeue(loadedLock, q)
    /\ UNCHANGED <<file, loaded, loadPc, loadDevs, loadVer>>

RequestStep(q) == RequestDevice(q) \/ RequestAnswer(q) \/ RequestReturn(q)

-----------------------------------------------------------------------------

DeviceStep(t) == CallStep(t) /\ UNCHANGED gateVars

\* The periodic task is spawned by StateData::init once the first load is over.
Sweep ==
    /\ Booted
    /\ SweepDone \/ SweepStore
    /\ UNCHANGED gateVars

\* The operator edits the config file.
EditFile ==
    /\ file + 1 \in Versions
    /\ file' = file + 1
    /\ UNCHANGED <<devVars, loaded, loadedLock, loadPc, loadDevs, loadVer>>

GInit ==
    /\ client = [d \in Devices |-> NoIp]
    /\ clientLock = [d \in Devices |-> NewLock(Tasks)]
    /\ currentIp = [d \in Devices |-> NoIp]
    /\ cache \in Cache
    /\ cacheLock = NewLock(CacheUsers)
    /\ pc = [t \in Tasks |-> "idle"]
    /\ dev = [t \in Tasks |-> NoDevice]
    /\ initialIp = [t \in Tasks |-> NoIp]
    /\ target = [t \in Tasks |-> NoIp]
    /\ tried = [t \in Tasks |-> {}]
    /\ file = 1
    /\ loaded = [version |-> 0, devices |-> {}]
    /\ loadedLock = NewLock(LoadedUsers)
    /\ loadPc = [l \in Loads |-> "idle"]
    /\ loadDevs = [l \in Loads |-> {}]
    /\ loadVer = [l \in Loads |-> 0]

GNext ==
    \/ \E l \in Loads : LoadStart(l) \/ LoadStep(l) \/ ReloadHangup(l)
    \/ \E d \in Devices : AbortTask(d)
    \/ \E q \in Requests : RequestStart(q) \/ RequestStep(q) \/ RequestHangup(q)
    \/ \E t \in Tasks : DeviceStep(t)
    \/ Sweep
    \/ EditFile

GSpec == GInit /\ [][GNext]_vars

\* The runtime polls every task that can run and reaps aborted ones; the boot
\* load is started by main.  Clients, the operator and sweeps owe us nothing.
GFairness ==
    /\ WF_vars(LoadStart(Boot))
    /\ \A l \in Loads : WF_vars(LoadStep(l))
    /\ \A d \in Devices : WF_vars(AbortTask(d))
    /\ \A q \in Requests : WF_vars(RequestStep(q))
    /\ \A t \in Tasks : WF_vars(DeviceStep(t))
    /\ WF_vars(SweepStore /\ UNCHANGED gateVars)

GFairSpec == GSpec /\ GFairness

-----------------------------------------------------------------------------
(* Properties                                                              *)

GTypeOK ==
    /\ TypeOK
    /\ file \in Versions
    /\ loaded \in [version : Versions \cup {0}, devices : SUBSET Devices]
    /\ loadedLock \in LockType(LoadedUsers)
    /\ loadPc \in [Loads -> LoadPoints]
    /\ loadDevs \in [Loads -> SUBSET Devices]
    /\ loadVer \in [Loads -> Versions \cup {0}]

\* Loads and requests hold exactly the guards their place in the code calls for:
\* a load its cache guard from before it reads the file until its last task is
\* joined, a request its guard on loaded_config from lookup to answer; whoever
\* ends early or is dropped leaves nothing behind.
SharedGuardsMatchControl ==
    /\ LockOK(cacheLock, CacheUsers)
    /\ LockOK(loadedLock, LoadedUsers)
    /\ \A l \in Loads :
         /\ cacheLock.mode[l] =
              IF loadPc[l] \in {"cacheRead", "joining"} THEN "read" ELSE "none"
         /\ loadPc[l] = "joining" => Holds(cacheLock, l)
         /\ loadedLock.mode[l] = IF loadPc[l] = "loadedWrite" THEN "write" ELSE "none"
    /\ \A q \in Requests :
         /\ loadedLock.mode[q] \in {"none", "read"}
         /\ pc[q] # "idle" => Requested(loadedLock, q) /\ Holds(loadedLock, q)

\* A request only ever operates on a device that is part of the configuration
\* loaded at that moment: no reload swaps the devices under a running request.
RequestsUseLoadedDevices ==
    \A q \in Requests : dev[q] # NoDevice => dev[q] \in loaded.devices

\* A device is published only after its first connection attempt has ended, and
\* no task of any load is ever inside a published device again.
PublishedDevicesSettled ==
    \A d \in loaded.devices : pc[d] \in {"ok", "failed"}

\* What is published is one version of the file: its config, and exactly the
\* devices it lists, those without an address of their own as far as they could
\* be resolved; edits made while a load runs do not mix in.
ConfigAndDevicesAgree ==
    loaded.version # 0 =>
      /\ Content[loaded.version] # Malformed
      /\ \A n \in Names :
           LET entry == Content[loaded.version][n]
               present == \E d \in loaded.devices : NameOf[d] = n
           IN  /\ entry \in IPs => present
               /\ entry = NotListed => ~present

\* A device that runs has an address: _establish_conn's branch for a device
\* without one is dead code, because the loader builds no such device.
CalledDevicesHaveAddress ==
    \A t \in Tasks : InCall(t) => currentIp[dev[t]] # NoIp

\* Task d of load l queues for the cache while l, which waits for d, reads it.
Rediscovers(l) ==
    loadPc[l] = "joining" /\ \E d \in loadDevs[l] : pc[d] \in {"cacheWrite", "cacheRead"}

Wedged(l) ==
    loadPc[l] = "joining" /\ \E d \in loadDevs[l] : pc[d] = "cacheWrite"

\* A load one of whose devices rediscovers is over: it holds the guard the task
\* waits for and waits for the task.  The boot load then stays where it is for
\* good, and a reload until its client hangs up; no device gets its sweep merged.
WedgedForGood ==
    [][\A l \in Loads :
         Wedged(l) => /\ loadPc'[l] \in {"joining", "cancelled"}
                      /\ l = Boot => loadPc'[l] = "joining"
                      /\ loadPc'[l] = "joining" => Wedged(l)' /\ cache' = cache
      ]_vars

\* The boot load as module BootLoad has it, whose one step it is in Startup.
BootState ==
    LET loading == loadPc[Boot] \in {"cacheRead", "joining"}
    IN  CASE loading /\ Wedged(Boot)  -> "waiting"
          [] loading /\ ~Wedged(Boot) -> "loading"
          [] Booted                   -> "done"
          [] OTHER                    -> "off"

BootPart == INSTANCE BootLoad WITH boot <- BootState

\* The boot load, its tasks and their locks implement BootLoad: whatever else goes on,
\* the load ends only with every task joined or with the config file rejected, never
\* when a task has got to wait for the cache.
BootIsBootLoad == BootPart!Spec

\* Nothing else blocks the server: as soon as no load is wedged any more, every
\* request is answered and every load ends, whatever the order in which requests,
\* reloads, rediscoveries and sweeps queue for the three kinds of locks.
Answered(q) == pc[q] = "idle" /\ ~Requested(loadedLock, q)
LoadEnded(l) == loadPc[l] \in {"idle", "done", "error", "cancelled"}

LiveUnlessWedged ==
    <>[](\A l \in Loads : ~Rediscovers(l))
      => /\ \A q \in Requests : []<>Answered(q)
         /\ \A l \in Loads : []<>LoadEnded(l)

-----------------------------------------------------------------------------
(* What the documentation says and the code does not do.                   *)

\* README.md:59: "Unreachable devices won't prevent the server from starting".
ServerStarts == <>Booted

\* README.md:91: "You can live-reload the configuration file without restarting
\* the server": once a reload was answered, what it read stays in effect until
\* something newer is loaded.
ReloadTakesEffect ==
    \A r \in Reloads : loadPc[r] = "done" => loaded.version >= loadVer[r]
=============================================================================
