# tapo-rest: TLA+ models and proofs

tapo-rest is an HTTP gateway to Tapo smart-home devices: it keeps one connection
per device, resolves device addresses by LAN discovery, and hands out session ids
that survive restarts. This directory holds TLA+ models of it, the
TLC configurations that check them, and TLAPS proofs about them. `PROJECT.json`
lists which definition models which lines, what each run checks and which hazard of
the code each property is about. Paths below are relative to `src/` of the
repository (`devices.rs` is `src/devices.rs` there).

## 1. Inventory

| Part | State | Operations | Talks to |
|---|---|---|---|
| `TapoDevice` (`devices.rs`) | `client: RwLock<Option<..>>`, `current_ip` | `with_client(_mut)`, `try_connect`, `refresh_session`, `_establish_conn` | the device, discovery, the shared cache |
| `DeviceCache`, discovery (`discovery.rs`) | rows by `device_id`; `tapo_devices.json` | `load`, `save`, `merge_in`, `lookup_by_nickname`, `discover_and_cache`, `refresh_in_memory` | LAN, disk |
| Loader (`server/loader.rs`) | none of its own | `load_tapo_devices_from_config`: read the file, resolve addresses, one task per device, join | cache (read guard), devices |
| `StateData` (`server/state.rs`) | `loaded_config`, `device_cache`, `sessions` | `init`, `reload_config`, periodic discovery task | loader, cache, sessions |
| Handlers (`server/actions.rs`, `mod.rs`, `sessions.rs`) | none | action routes, `/devices`, `/refresh-session`, `/reload-config` | `loaded_config`, devices |
| Sessions, login, auth (`server/sessions.rs`, `auth.rs`) | `map: RwLock<HashMap>`, `sessions.json` | `create`, `get`, `insert`, `_flush`; `login`, `auth_middleware` | disk, `loaded_config` |
| Config and CORS (`config.rs`, `server/mod.rs`) | none | parsing with defaults; origins from an environment variable | |
| Telemetry (`telemetry.rs`) | subscriber, tracer provider, guard | fail-open `init_telemetry`, drop of the guard | OTLP exporter |
| Entry point (`main.rs`, `cmd.rs`) | the guard, for its lifetime | arguments, initial discovery sweep, start | all |

Four kinds of tokio locks tie these together: `client` (one per device),
`device_cache`, `loaded_config` and `Sessions.map`. Three kinds of actors use them:
request handlers, loads (one at boot, one per `/reload-config`) with one task per
device, and the periodic discovery task. What makes the code hard to test:

- futures dropped at any await (client hang-ups, a dropped `JoinSet`);
- guards held across awaits that wait for other tasks (a load holds the cache while
  it joins tasks that may need it);
- fair locks: a queued writer holds back later readers;
- answers that are stale when used (the read half of `client`, the address that was
  looked up, the file version that was read);
- files written in place, in a thread pool that a dropped future does not stop;
- one cache in two places: sweeps merge into the file and then replace memory by it,
  rediscovery merges into memory only;
- a start that must survive everything but its own configuration.

What would make each part correct:

- **device**: one connection at a time and for good; exclusive use while connecting
  or refreshing; failure only after everything known was tried; every call returns.
- **loads and requests**: requests use the devices that are loaded; configuration
  and devices come from one version of the file; the newest reload wins; nothing
  blocks for ever.
- **sessions**: what a client has received survives restarts; the file says what
  the map says; the server starts again.
- **discovery**: a row is never lost by a sweep that missed it, nor by a crash or a
  failure during the save; a device has one row; what is found is what is served.
- **handlers**: answers are true of the configuration in force when they are given.
- **start**: telemetry, LAN and cache file never prevent it; the boot load does not
  wait for itself; spans that have ended are exported before the process ends.

`PROJECT.json` lists the hazards one by one with their lines.

## 2. Modules

| Module | What it is |
|---|---|
| `RwLock` | the fair reader-writer lock of tokio: operators on a lock value |
| `DeviceCache` | the in-memory cache as a function: `merge_in`, `lookup_by_nickname` |
| `TapoDevice` | calls into devices, await by await; properties of a device |
| `SharedConnection` | abstract specification: what a device promises to its callers |
| `BootLoad` | abstract specification: what the boot load is to the rest of a start |
| `Gateway` | boot, reloads, requests, the periodic task and config edits, over `TapoDevice` |
| `Sessions` | session map, its file, login and auth, restarts |
| `CacheRows` | the cache as the `Vec` it is: order, overwriting, first match |
| `Discovery` | cache file, sweeps, rediscovery, over `CacheRows` |
| `Startup` | the life of the process from `main` to the end, over `Discovery` |
| `Routes` | device types: groups of routes, handlers they are connected with |
| `Handlers` | what each route answers, with reloads of an edited file, over `Routes` |
| `RwLockProofs` | lemmas about the lock, for any set of users |
| `TapoDeviceProofs`, `TapoDeviceRefinement` | theorems about `TapoDevice`; that it implements `SharedConnection` |
| `GatewayProofs`, `SessionsProofs`, `HandlersProofs` | theorems about these modules |
| `StartupProofs`, `DiscoveryProofs` | theorems about `Startup`: that it implements `BootLoad`; the device cache and its file |
| `MCTapoDevice`, `MCGateway`, `MCSessions`, `MCStartup`, `MCHandlers` | small instances for TLC |

How they divide the system: `TapoDevice` and `Gateway` have every lock and every
await and abstract what is in the cache and what is answered; `Discovery` has what is
in the cache and on disk and abstracts the locks (each critical section there is a
single assignment or merge); `Handlers` has the answers; `Startup` has the order in
which the parts come to life. Where one module takes a whole component of another as
one step, the sections below say so.

An action is the code between two awaits: tokio runs other tasks only there, and
dropping a future takes effect only there. (On several worker threads tasks also
run in parallel, but they share nothing outside the locks.)

**RwLock.** A lock is a record of what each user has requested (`mode`) and which
requests came earlier (`ahead`). A request is granted when everything ahead of it is
compatible, so it is fair in tokio's sense. Dropping a guard and dropping a queued
future are one operation, `Dequeue`. The library itself is not under `src/`; the
operators are marked external.

**DeviceCache, CacheRows.** `DeviceCache` is a function from device ids to rows or
`Absent`, which is what `TapoDevice` and `Gateway` are built on. The order of the
`Vec` only decides which of two rows with one nickname is found; `Lookup` is the set
of possible answers. `CacheRows` is that `Vec`, a sequence in which `MergeRow`
overwrites the row of the device where it is or appends one, and `FindByName` takes
the first match; `RowsImplementCache` says that it does what `DeviceCache` says. The
loop of `merge_in` is a recursive function (`MergeRows`) and not a fold of the
community modules, so that it can be proved about.
An address in the cache always parses, as it was printed from an `IpAddr`.

**TapoDevice.** `pc[t]` names the await at which task `t` stands in `with_client`,
`with_client_mut`, `refresh_session`, `_establish_conn` or `refresh_in_memory`;
`initialIp`, `target` are the locals, `client[d]` is the address the stored
connection was opened at. Each network call may succeed or fail, at any time. The
contents of a sweep are chosen when they are merged (`CacheMerge`): nothing reads
them earlier. `DropCall` is the dropped future. Two parts of the code look odd and
are modelled as they are:

- `current_ip` is set to the rediscovered address before it is tried, and not set
  back (`LookupHit`): a device may be connected at its initial address while
  `current_ip` has the address that failed, although the comments at `devices.rs:21`
  and `:26` call it authoritative. Nothing reads it once a connection is stored;
- the last fallback (`devices.rs:183-192`) tries `initial_ip`, which is what the
  first attempt used, so it is always a repetition, although the comment above it
  says "didn't already use it for the first attempt". Harmless, but not new.

`tried` is a history variable. The `current_ip` lock is left out: it is only taken
under the write half of `client` and never across an await.

**Gateway.** Extends `TapoDevice`; each load builds its own device objects
(`LoadOf`), and the task that a load spawns for object `d` is also called `d`. A
load holds the cache from before it reads the file until its last task is joined
(`LoadStart`, `LoadSpawn`, `BootJoin` or `ReloadJoin`), a reload then queues for
`loaded_config` (`ReloadStore`). A request holds `loaded_config` from the lookup of
its device to the end of the call (`RequestStart`, `RequestDevice`,
`RequestReturn`); login, `/devices` and unknown devices only look (`RequestAnswer`).
Hanging up drops the handler's future (`RequestHangup`, `ReloadHangup`); dropping a
`JoinSet` aborts its tasks, which end at their next await, some time later
(`AbortTask`). The boot load cannot be cancelled. The config file is a sequence of
versions that the operator moves through (`EditFile`); a version is malformed or
gives each name an address, no address, or no entry. `BootState` is the boot load as
`BootLoad` has it: loading, waiting (one of its tasks has searched and waits for the
cache), done, or off. Once waiting it never ends by itself.

**Sessions.** `tokio::fs::write` runs `std::fs::write` in the blocking pool, where it
truncates (`WriteOpen`) and writes (`WriteData`) even when the future that waits for
it is dropped. Because two such writes may then overlap, the file counts the sessions'
worth of bytes in it: a short write over a long one leaves a tail and does not
parse. `LoginEnd` answers and drops the lock, `Kill` and `Start` are a restart
(there is no shutdown handler). `issued`, `failed` and `harm` (which faults have
happened so far) are history variables. A wrong password or token changes no state
here; `Handlers` has them. After `Kill`, sessions that were only in memory are gone.
What the environment may do is the constant `Faults`; the properties say under which
of the faults in `harm` they hold. A hang-up is the worst of them: the file may
forget a session that was issued (run `sessions_hangup`), and after a restart even
its id may be drawn again.

**Discovery.** `sweep` is the local state of `discover_and_cache`: read the file
(`SweepLoad`), search (`SweepFound`, `SweepFailed`), merge, write the temporary file
and rename it (`SaveWrite`, `SaveRename`, `SaveFails`), return. The result goes to
nobody in `main` (`SweepDrop`), which hands it on through the file only, and replaces
the shared cache in the periodic task (`SweepStore`). `fresh` says
whether a task has searched on demand and waits for the cache, and what it has found.
That may be nothing: a search that succeeds without an answer asks for the write half
all the same (`discovery.rs:243-245`), only one that fails does not. `disk` is absent, a list of rows, or `Foreign`: not the
JSON of a cache, be it from elsewhere or torn by a power failure (`save` does not
sync). Reading it yields its rows, or nothing when it cannot be read.

**Startup.** `stage` is the await or call at which `inner_main` and `serve` stand.
`Fail` is every `?` and `bail!` on the way, `Cors` includes the panic of
`AllowOrigin::list` on `"*"`; both go through `Leave`, which drops the guard as
returning and unwinding do, to the stage `"returned"`: the subscriber is still there,
`main` logs the error, the periodic task may still run. `Exit` is the end of the
process. `spans` says that spans of requests have ended (`SpanEnds`) which the batch
processor has not exported yet (`Export`); dropping the guard flushes them, `Kill`
drops nothing. Once the server serves, the process ends only by a signal, so that the
flush "on shutdown" of `main.rs:47` does not happen (run `spans_flushed`). Which
origins CORS answers is left out. `trouble` is the obstacle that a start meets, if
any. The boot load of `Gateway` is one step here (`LoadDone`), which cannot be taken
while one of its tasks waits to merge (`Wedged`). That this step and the load of
`Gateway` mean the same is what `BootLoad` is for: both implement it (`LoadIsBootLoad`,
`BootIsBootLoad`). A start may be followed by any number of others with the same cache
file.

**Routes, Handlers.** `Accepts` is `validate_client_type`: a route serves the types of
its group, and there is one definition for each group's heading. `HandlerOf` is the table in `connect_at`, written separately in the code
and here. A request goes through its session check, lookup and use; the guard on
`loaded_config` between lookup and answer keeps a reload from publishing
(`GuardHeld`). Queues of that lock are the subject of `Gateway`. `LoadedConfig::new`
keeps one device per name, that of the task joined last: `Devices` is the set of
possible outcomes. `inForce` is a history variable. Three things to know: a device of
the wrong type is answered 400 only after it has been connected; an unknown device is
404 for an action but 500 for `/refresh-session`; a reload that fails answers 200 with
"Error: ..." in the body.

## 3. Runs

Passing runs:

| Run | Instance | States | Shows |
|---|---|---|---|
| `device` | 3 tasks, 1 device, 2 addresses | 42564 | types; guards match the place in the code on every path, early returns and drops included; exclusive use; one task connects; a connection is kept; attempts are recorded and failure is exhaustive; `TapoDevice` implements `SharedConnection`; every call returns |
| `gateway_reload` | boot, 1 reload, 1 client, 4 file versions | 33108 | guards of loads and requests; requests use loaded devices; what is published is settled, has an address and comes from one version of the file; a wedged load stays wedged; the boot load implements `BootLoad` |
| `gateway_live` | boot, 1 reload, 2 clients | 55836 | unless a load is wedged, every request is answered and every load ends |
| `sessions_faults` | 3 logins, 2 ids, 1 check, all faults | 109435 | a restart is refused only after a fault; a server that starts knows every session it issued, and gives no id out twice, unless a login was hung up; the file is the map whenever no write runs and the last one did not fail; an id is sent only when the file contains it; every request ends |
| `lifecycle` | 2 devices of one nickname, 2 addresses, 2 answers per sweep, all obstacles | 561249 | the cache file only moves from one complete cache to another that covers it, through kills and failures; memory covers it after every sweep; one row per device; what is found is served unless it is shadowed; the `Vec` implements `DeviceCache`; the boot load implements `BootLoad`; every start comes to its end, and serves if nothing but telemetry, LAN or cache file is in its way, unless its boot load wedges |
| `handlers` | 2 clients, 2 names, 3 types, 4 file versions | 41464 | 404, 400 and 200 are true of the configuration in force, and between two reloads a name has one device, also when the file lists several; no session without a password that was in force during the login |

Runs that exhibit disagreements between documentation and code (each checks the one
property that states what the documentation says, and TLC finds it violated):

| Run | What the code does |
|---|---|
| `server_starts` | `StateData::init` holds `device_cache.read()` while it joins the connection tasks. A task whose first attempt fails and whose sweep succeeds waits for `device_cache.write()`: neither moves, the server never serves. A search that finds nothing waits too, so an unreachable device on a silent LAN is enough. `README.md:59` says unreachable devices do not prevent the start. A reload (`state.rs:99`) wedges in the same way, until its client hangs up; `WedgedForGood` shows that nothing else frees it. |
| `reload_takes_effect` | Two overlapping reloads publish in the order in which their devices answer: the older file may win. |
| `sessions_kill` | A process killed in the middle of writing `sessions.json` does not start again: the file does not parse, and that is an error. |
| `sessions_hangup` | The client of a login hangs up: the lock is dropped but its write goes on, and may undo that of a later login, whose session is lost at the next restart. |
| `discovery_orphans` | Rediscovery merges into memory only, and the periodic task replaces memory by file plus sweep: a device that was rediscovered and that the next sweep misses is unknown again, although `discovery.rs:125` says that "a single missed broadcast does not orphan" a device. |
| `spans_flushed` | A process that serves ends by a signal only; nothing handles it, the guard is not dropped, and spans that were not exported yet are lost, although `main.rs:47` says that the guard flushes "on shutdown". |

Other places where documentation promises more than the code does, found while
modelling and not worth a run each: a device skipped for lack of an address stays
unknown until the next reload though discovery finds it later (`loader.rs:52` suggests
otherwise); `/devices` lists the devices that were built, by name, not "all configured"
ones (`README.md:77`): entries of one name collapse to one, entries without an address
are missing; a device that was replaced by one of the same nickname shadows it for good,
as rows are never removed (`config.rs:34` says that a name is resolved by discovery);
the route that `README.md:81` calls `get-hourly-usage` is `get-hourly-energy-data`;
`discovery_timeout_secs` is documented as 1 to 60 (`cmd.rs:34`) and not checked.

**Bounds and why they are enough.** Three tasks on one device give a reader, a
writer and one queued behind both, the smallest case in which fairness of the lock
and a second waiter matter; two addresses let the device move; one id in the cache
suffices as `Lookup` chooses freely. Connections of different devices have only the
cache lock in common; devices that contend for it are in the runs of `Gateway`. In `Gateway` one reload beside the
boot load gives two generations of devices, and two requests give one inside a
device and one queued behind the reload; the four file versions of
`gateway_reload` contain each kind of entry, in an order in which a load can mix
them. The file's version number only grows, up to the length of `Content`. Three
logins in `sessions_faults` give one that writes, one that waits and one that comes
after a restart; each login happens once, so session ids are bounded by `Sids`, and
a collision is possible as each login may draw any of them, two ids being fewer than
the logins. In `lifecycle` two devices share one nickname and may swap addresses, so
that shadowing, repeated answers and stale addresses all happen; `MaxFound` = 2 lets a
sweep see both devices, or one twice. `MaxOnDemand` = 1 is enough, as merging a batch
is merging its rows one after the other and rediscoveries may follow each other; one
task at a time waits to merge, for the same reason, and in a boot load one that waits
is enough to wedge it. Starts, sweeps and kills are unbounded. A
start meets at most one of its `Troubles` (the first would end it), and the operator edits the config at the three stages
that let each read of it see either version. In `handlers` one client may reload
while the other is anywhere in a request; the four versions contain a name with two
types, a change of password, of type, of addresses, a mistake and a removed name.
Symmetry is used only in `handlers`, which checks no liveness property, over constants
that nothing tells apart.

**Deadlock** is checked for `TapoDevice`, `Startup` and `Handlers`. It is switched
off where the system really stops: `Gateway` (boot with a malformed file exits; a
wedged boot load) and `Sessions` (logins are finitely many; a start may be refused).

**Fairness.** Weak fairness of the steps of tasks that have started: tokio polls a
task that can run, network calls end by their own timeouts, lock queues are fair,
the blocking pool works off its queue, aborted tasks are reaped. Nothing is assumed
of clients (starting, hanging up), of the operator, of sweeps beginning, or of the
process dying. Network timeouts are those of the `tapo` crate and of
`discovery_timeout_secs`; without them a call could hang and `CallsReturn` would
need them as an assumption, which is what this fairness is. In `Startup` it is the
steps of `main` and of a sweep that has begun; the periodic ticks, rediscoveries and
kills are left to chance. `Handlers` states no liveness, `Gateway` does.

**Mutants.** Each property has a mutant of a modelled definition that TLC must find
to violate it. The mutated forms stand beside the originals, marked "Mutant of".

## 4. Proofs

Every invariant and every action property of the passing runs, and each refinement, is
also proved by TLAPS, for any sets of tasks, devices, clients, names, ids and
addresses and any history of the config file. TLC shows them on the instances of
section 3; the theorems hold for every value of the constants that meets the
assumptions below.

| Module, specification | Theorem | Statement |
|---|---|---|
| `TapoDeviceProofs`, `Spec` of `TapoDevice` | `Invariance` | `[]Inv` |
| | `TypeCorrect` | `[]TypeOK` |
| | `GuardsCorrect` | `[]GuardsMatchControl` |
| | `Exclusive` | `[]ExclusiveUse` |
| | `OneConnection` | `[]ConnectsOnce` |
| | `ConnectionStays` | `ConnectionKept` |
| | `Records` | `[]AttemptsRecorded` |
| | `FailsExhaustively` | `FailureIsExhaustive` |
| `TapoDeviceRefinement`, same | `Targets` | `[]TargetsKnown` |
| | `KeepsPromise` | `ImplementsSharedConnection` |
| `GatewayProofs`, `GSpec` | `GatewayInvariance` | `[]GInv` |
| | `GatewayTypes` | `[]GTypeOK` |
| | `GatewayDeviceGuards` | `[]` of `GuardsMatchControl`, `ExclusiveUse`, `ConnectsOnce` |
| | `GatewaySharedGuards` | `[]SharedGuardsMatchControl` |
| | `NoSwapUnderRequests` | `[]RequestsUseLoadedDevices` |
| | `PublishedAreSettled` | `[]PublishedDevicesSettled` |
| | `CalledHaveAddress` | `[]CalledDevicesHaveAddress` |
| | `OneVersionPublished` | `[]ConfigAndDevicesAgree` |
| | `GatewayKeepsConnections` | a stored connection stays, reloads included |
| | `DeadlockIsForGood` | `WedgedForGood` |
| | `GatewayImplementsBootLoad` | `BootIsBootLoad` |
| `SessionsProofs`, `Spec` of `Sessions` | `SessionsInvariance` | `[]IInv` |
| | `SessionsTypeCorrectness` | `[]TypeOK` |
| | `OneInsertionAtATime` | one login at most is past the write guard |
| | `SessionsArePreserved` | `[]SessionsPreserved` |
| | `FileIsTheMap` | `[]FileFollowsMap` |
| | `SessionsAreDistinct` | `[]SessionsDistinct` |
| | `AnswersFollowTheWrite` | `IssuedWereWritten` |
| `HandlersProofs`, `Spec` of `Handlers` | `RoutesMatchHandlers` | a route accepts the types connected with its handler, and no others |
| | `HandlersInvariance` | `[]HInv` |
| | `HandlersTypes` | `[]HTypeOK` |
| | `AnswersAreTrue` | `AnswersTrue` |
| | `SessionsNeedPasswords` | `SessionNeedsPassword` |
| `StartupProofs`, `SSpec` | `StartImplementsBootLoad` | `LoadIsBootLoad` |
| `DiscoveryProofs`, `SSpec` | `DiscoveryInvariance` | `[](Stored /\ SweepCovers /\ Started)` |
| | `StartupTypes` | `[]STypeOK` |
| | `RowsAreUnique` | `[]OneRowPerDevice` |
| | `FileOnlyMerges` | `DiskOnlyMerges` |
| | `StoreCovers` | `StoreCoversDisk` |
| | `FoundServed` | `FoundIsServed` |
| | `VecImplementsCache` | `RowsImplementCache` |

**Assumptions.** All are on constants, named, and evaluated by TLC in every run over
the module that declares them.

- `CacheAssumption`: no address is the value for "none", no row the value for "absent".
- `DeviceAssumption`: devices have names; the tasks and the refresher are users of
  the cache lock.
- `GatewayAssumption`: loads, requests and devices are different users of the locks,
  a device belongs to one load and its task is called like it, and *every load may
  build an object for every name*. The last clause was missing as long as the module
  was only model-checked. Without it `ConfigAndDevicesAgree` is false, as a load
  could have no object for a name that its file lists; the code allocates objects as
  it needs them (`loader.rs`), so that the clause is one about the model's names for
  them and not about the code. It also says that versions of the file are numbers,
  that there is a first one, and that a version which parses is a `ConfigFile`.
- `SessionsAssumption`: no login is a check, session ids are finitely many, and the
  faults are among those the module knows.
- `HandlersAssumption`: the types are device types, the first version of the file
  (that of boot) is well-formed, and well-formed versions list entries.
- `DiscoveryAssumption`: the LAN has finitely many devices, which only the length of
  a `Vec` in `STypeOK` needs, and the bounds are numbers.
- `StartupAssumption`: obstacles are those the module knows.

**TapoDevice.** `Inv == TypeOK /\ GuardsMatchControl /\ ConnectsOnce` is inductive.
`GuardsMatchControl` says more than that guards exclude each other: it ties what a
task has requested on each lock to its `pc`, and says that both queues are
well-formed (`LockOK`: requests are totally ordered by `ahead`). It has to: whether
a queued request is granted after someone leaves depends on the whole queue.
`RwLockProofs` proves once that `Enqueue`, `Dequeue` and `Requeue` preserve
`LockOK` and take no grant away from anybody else, and that a granted writer is
alone (`Exclusion`). `TapoDeviceProofs` then needs only the moving task's own locks
(`OneTaskMoves`, and its forms `EntersCall`, `WithinCall`, `LeavesCall`) for each
action. `ExclusiveUse` follows from `GuardsMatchControl` and `Exclusion`.
`ConnectsOnce` is inductive only with them: the connection is absent when a task
starts to connect, and only a task that has the device to itself stores one.
`ConnectionKept` follows since `FuncNewDone` stores and `LookupHit` changes the
address only under `ConnectsOnce`. `AttemptsRecorded` is inductive relative to
`Inv` (nobody else changes `current_ip` under a task that connects), and
`FailureIsExhaustive` follows from it at the three places where a call fails.

**TapoDevice implements SharedConnection.** The mapping (`UseOf`, `FreshOf`) says for
each await whether a task uses the connection with others, alone, or not yet.
The abstract guards ("nobody has it alone", "nobody else has it") are what `Exclusion`
says of the holder of each half (`HolderExcludes`). Every step of `TapoDevice` is then
a step of `SharedConnection` or changes nothing there; storing a connection needs
`ConnectsOnce` and `TargetsKnown`.

**Gateway.** All steps but those of loads on the cache lock and the one that spawns
their tasks are, as far as the variables of `TapoDevice` go, steps of `TapoDevice` or
stutters (`DeviceSide`), so its lemmas apply. `GInv` adds:

- `SharedGuardsMatchControl` and `RefresherWrites` for the two shared locks;
- `LoadTasks`: the tasks of a load are there from the spawn on, have ended when it
  goes on, and are dropped only with it. `PublishedDevicesSettled` needs this;
- `DeviceWhileCalled` and `BuiltDevices`: calls go to objects that a load has built,
  with an address that is replaced but never removed. Without the last part, that only
  built objects are connected, a spawn could overwrite a connection and
  `GatewayKeepsConnections` would not follow;
- `ServedFirst`, `Published`, `LoadsAgree`: nothing is served before boot is over, and
  what is served is the result of a load that agrees with the version it read.

`RequestsUseLoadedDevices` is then inductive: `ReloadStore` holds the write half of
`loaded_config`, a request in a device the read half. `WedgedForGood` holds since the
task that waits for the write half of the cache and the load that holds the read half
wait for each other, and no other writer gets in either (`Exclusion`). That argument
is the lemma `WedgeStays`, and the hard part of `GatewayImplementsBootLoad`: every step
moves the boot load forward, lets it begin to wait or end, or leaves it where it is
(`BootMoves`), and from waiting there is no way but out of the process (`BootStep`).

**Sessions.** The lock guards every path through `Sessions::insert`, hang-ups included
(`Guards`). As long as nobody hangs up, whoever writes the file holds the guard, and
what it writes is the map (`WritesGuarded`); so writes do not overlap, what was issued
is in the file (`IssuedSaved`), and without faults only a running write leaves a torn
file (`TornWhileWritten`). With a hang-up none of this holds, which run
`sessions_hangup` shows.

**Handlers.** What is loaded is a loading of a well-formed version (`LoadedFromFile`):
for every choice of discovery and join order, a name is served if one of its entries
has an address, and what is served is one of its entries (`LoadingFacts`). A device in use is the one loaded under its name (`DeviceOfConfig`),
since a reload stores under nobody's guard; with `RoutesMatchHandlers`, proved from
the two tables, this makes 400 and 200 true. `inForce` contains the password in force
as long as a request runs (`PasswordsInForce`).

**Startup.** No step but `Rediscover` makes a task wait, and it is possible in the boot
load and in a server that serves only; so no task waits when the load begins
(`NoEarlySearch`, the invariant of `StartImplementsBootLoad`), and the load begins as
`BootLoad` has it. The guard of `LoadDone` is what makes that step end a load that is
not waiting, and only a start that fails or the end of the process leads back.

**Discovery.** `MergeRowsFacts` says what `merge_in` leaves behind, for batches of any
length: one row per device, which is its last answer, or the old row if there was
none. The library's induction theorems take an operator as parameter, which the
provers cannot instantiate; `Least` (every nonempty set of numbers has a least
element, from the well-foundedness of `<`) takes a set instead, and the proof looks at
the first round of the loop that would break the claim. The same argument shows that
the recursive function has a value at all (`MergeRowsLoop`). A `Vec` with one row per
device is a function of the devices (`AsCacheFacts`), a merge is `MergeIn` on it
(`MergeRowsIsMergeIn`), and no merge forgets a device (`MergeKeepsKnown`). The
invariant: all three `Vec`s have one row per device (`Stored`), and a sweep covers the
file it has read until it ends (`SweepCovers`), since nobody else writes the file.

**Model-checked only.** Liveness (`CallsReturn`, `LiveUnlessWedged`, `RequestsEnd`,
`StartEnds`): fairness and ENABLED are beyond the prover. The runs that expect a
violation are counterexamples and need no proof.

## 5. Not modelled

- Credentials and broadcast address: a search may find anything or fail, whatever it
  is made with. (The periodic task keeps those of boot after a reload,
  `state.rs:55-62`; the model cannot tell.)
- `last_seen` and the order of answers in time: `merge_in` does not look at them.
- Whether a rename survives a power failure: a file that did not is `Foreign` at best
  before the first start; once the server has run, only the process dies.
- In telemetry, the copying of trace headers into spans (`extract_remote_parent`), log
  filters and service names; in CORS, which origins are answered. In `cmd.rs`, argument parsing. An interval of 0, which
  disables the periodic task, is the behaviour in which it never ticks.
- The actions within a group of routes: each is one call on the device's handler.
  Requests that axum rejects before a handler runs (unknown routes, bad parameters, no
  `Authorization` header).
- Panics in tasks and handlers, and the runtime's shutdown.
- Connections that stop working: an operation may fail at any time, and nothing in
  the code reacts to it (`FuncDone`), so `client` need not tell the two apart.

## 6. Plan

1. (done) `RwLock`, `DeviceCache`, `TapoDevice`, `SharedConnection`; first proofs.
2. (done) `Gateway`; `Sessions`, with all faults at once.
3. (done) `CacheRows`, `Discovery`, `Startup`: cache file, sweeps, crashes, the start;
   proofs of `Startup`.
4. (done) `Routes`, `Handlers`: device types, duplicate names, status codes, login
   beside a reload.
5. (done) Proofs: the refinement of `SharedConnection`, `Gateway`, `Sessions`,
   `Handlers`, and the device cache with its loop.
6. (done) The boot load of `Startup` and of `Gateway` as one abstract specification,
   `BootLoad`, and the proofs that both implement it.
7. The same for the guard on `loaded_config` (`Handlers`' `GuardHeld` and what `Gateway`
   does); the safety part of the liveness arguments (a lock queue whose holders leave
   moves on, and no cycle of waiting other than a wedged load).
