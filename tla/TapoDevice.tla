----------------------------- MODULE TapoDevice -----------------------------
(***************************************************************************)
(* devices::TapoDevice: the lazily opened connection to one Tapo device    *)
(* and the calls that share it, for any number of devices and of           *)
(* concurrently running tokio tasks.                                       *)
(*                                                                         *)
(* A task that calls with_client first looks at the connection under the   *)
(* read half of `client'; if there is none it queues for the write half,   *)
(* looks again, and only then connects: at the address in use, and if that *)
(* fails, after a discovery sweep, at the address found, and at last at    *)
(* the first address again.  refresh_session starts at the write half.     *)
(*                                                                         *)
(* An await is a place where other tasks may run; the code between two     *)
(* awaits is one action.  Network calls (connect_at, discover, the         *)
(* operation on the device) answer in any way and at any time.             *)
(***************************************************************************)
EXTENDS RwLock, DeviceCache

CONSTANTS Tasks,       \* tokio tasks that call into a TapoDevice
          Devices,     \* TapoDevice objects
          NameOf,      \* conn_infos.name of each object
          NoDevice,    \* value of dev for a task that is in no call
          Refresher,   \* the periodic discovery task of server::state
          CacheUsers   \* whoever takes the device_cache lock

ASSUME DeviceAssumption ==
    /\ NameOf \in [Devices -> Names]
    /\ NoDevice \notin Devices
    /\ Refresher \notin Tasks
    /\ Tasks \cup {Refresher} \subseteq CacheUsers

VARIABLES
    client,      \* client[d]: address of the stored connection, NoIp for None
    clientLock,  \* clientLock[d]: the RwLock around it
    currentIp,   \* currentIp[d]: address for the next connection attempt
    cache,       \* StateData.device_cache ...
    cacheLock,   \* ... and its RwLock
    pc,          \* pc[t]: the await task t is at
    dev,         \* dev[t]: the object t is calling
    initialIp,   \* _establish_conn's local of that name
    target,      \* address t is connecting to, or is connected to
    tried        \* addresses t failed to connect to (history)

locks    == <<clientLock, cacheLock>>
locals   == <<initialIp, target, tried>>
devVars  == <<client, clientLock, currentIp, cache, cacheLock,
              pc, dev, initialIp, target, tried>>

MaybeIp == IPs \cup {NoIp}

Points ==
    {"idle",         \* not in a call
     "clientRead",   \* with_client waits for client.read()
     "funcRead",     \* the operation runs under the read guard
     "clientWrite",  \* with_client_mut waits for client.write()
     "funcWrite",    \* the operation runs under the write guard
     "connect1",     \* first attempt, at the address in use
     "discover",     \* rediscovery sweep
     "cacheWrite",   \* waits to merge the sweep into the cache
     "cacheRead",    \* waits to look the name up
     "connect2",     \* attempt at the rediscovered address
     "connect3",     \* last attempt, at the initial address
     "funcNew",      \* the operation runs on a connection not stored yet
     "ok", "failed"} \* the call has returned

InCall(t) == pc[t] \notin {"idle", "ok", "failed"}

\* Inside _establish_conn.
Establishing(t) ==
    pc[t] \in {"connect1", "discover", "cacheWrite", "cacheRead",
               "connect2", "connect3"}

Goto(t, point) == pc' = [pc EXCEPT ![t] = point]

ClientRequest(d, u, m) ==
    clientLock' = [clientLock EXCEPT ![d] = Enqueue(@, u, m)]
ClientRelease(t) ==
    clientLock' = [clientLock EXCEPT ![dev[t]] = Dequeue(@, t)]
HoldsClient(t) == Holds(clientLock[dev[t]], t)

\* The locals of a call are gone once it has returned or was dropped.
ForgetLocals(t) ==
    /\ initialIp' = [initialIp EXCEPT ![t] = NoIp]
    /\ target' = [target EXCEPT ![t] = NoIp]
    /\ tried' = [tried EXCEPT ![t] = {}]

-----------------------------------------------------------------------------
(* Calls.                                                                  *)

WithClient(t, d) ==
    /\ pc[t] = "idle"
    /\ Goto(t, "clientRead")
    /\ dev' = [dev EXCEPT ![t] = d]
    /\ ClientRequest(d, t, "read")
    /\ UNCHANGED <<client, currentIp, cache, cacheLock, locals>>

\* Mutant of RefreshSession: it takes the shared half, like an action.
RefreshSessionShared(t, d) ==
    /\ pc[t] = "idle"
    /\ Goto(t, "clientWrite")
    /\ dev' = [dev EXCEPT ![t] = d]
    /\ ClientRequest(d, t, "read")
    /\ UNCHANGED <<client, currentIp, cache, cacheLock, locals>>

RefreshSession(t, d) ==
    /\ pc[t] = "idle"
    /\ Goto(t, "clientWrite")
    /\ dev' = [dev EXCEPT ![t] = d]
    /\ ClientRequest(d, t, "write")
    /\ UNCHANGED <<client, currentIp, cache, cacheLock, locals>>

\* with_client finds a connection and runs the operation under the read guard.
ClientReadHit(t) ==
    /\ pc[t] = "clientRead"
    /\ HoldsClient(t)
    /\ client[dev[t]] # NoIp
    /\ Goto(t, "funcRead")
    /\ UNCHANGED <<client, clientLock, currentIp, cache, cacheLock, dev, locals>>

\* Mutant of ClientReadMiss: the read guard is still held, so t waits for itself.
ClientReadMissUpgrades(t) ==
    /\ pc[t] = "clientRead"
    /\ HoldsClient(t)
    /\ client[dev[t]] = NoIp
    /\ Goto(t, "clientWrite")
    /\ ClientRequest(dev[t], t, "write")
    /\ UNCHANGED <<client, currentIp, cache, cacheLock, dev, locals>>

\* There is none: the read guard is dropped, with_client_mut asks for the other.
ClientReadMiss(t) ==
    /\ pc[t] = "clientRead"
    /\ HoldsClient(t)
    /\ client[dev[t]] = NoIp
    /\ Goto(t, "clientWrite")
    /\ clientLock' = [clientLock EXCEPT ![dev[t]] = Requeue(@, t, "write")]
    /\ UNCHANGED <<client, currentIp, cache, cacheLock, dev, locals>>

\* Another task has connected while this one was queued.
ClientWriteHit(t) ==
    /\ pc[t] = "clientWrite"
    /\ HoldsClient(t)
    /\ client[dev[t]] # NoIp
    /\ Goto(t, "funcWrite")
    /\ UNCHANGED <<client, clientLock, currentIp, cache, cacheLock, dev, locals>>

\* Mutant of FuncDone: an operation that fails takes the connection with it.
FuncDoneDrops(t) ==
    /\ pc[t] \in {"funcRead", "funcWrite"}
    /\ Goto(t, "ok")
    /\ client' \in {client, [client EXCEPT ![dev[t]] = NoIp]}
    /\ ClientRelease(t)
    /\ UNCHANGED <<currentIp, cache, cacheLock, dev, locals>>

\* The operation ends, well or not; either way the connection is kept.
FuncDone(t) ==
    /\ pc[t] \in {"funcRead", "funcWrite"}
    /\ Goto(t, "ok")
    /\ ClientRelease(t)
    /\ UNCHANGED <<client, currentIp, cache, cacheLock, dev, locals>>

\* Mutant of FuncNewDone: the connection is not stored.
FuncNewDoneForgets(t) ==
    /\ pc[t] = "funcNew"
    /\ Goto(t, "ok")
    /\ ClientRelease(t)
    /\ ForgetLocals(t)
    /\ UNCHANGED <<client, currentIp, cache, cacheLock, dev>>

\* The operation on a fresh connection ends: only now is the connection stored.
FuncNewDone(t) ==
    /\ pc[t] = "funcNew"
    /\ Goto(t, "ok")
    /\ client' = [client EXCEPT ![dev[t]] = target[t]]
    /\ ClientRelease(t)
    /\ ForgetLocals(t)
    /\ UNCHANGED <<currentIp, cache, cacheLock, dev>>

-----------------------------------------------------------------------------
(* _establish_conn                                                         *)

\* Mutant of EstablishStart: with_client_mut does not look again.
EstablishBlindly(t) ==
    /\ pc[t] = "clientWrite"
    /\ HoldsClient(t)
    /\ LET ip == currentIp[dev[t]] IN
         /\ initialIp' = [initialIp EXCEPT ![t] = ip]
         /\ target' = [target EXCEPT ![t] = ip]
         /\ Goto(t, IF ip # NoIp THEN "connect1" ELSE "discover")
    /\ UNCHANGED <<client, clientLock, currentIp, cache, cacheLock, dev, tried>>

EstablishStart(t) ==
    /\ pc[t] = "clientWrite"
    /\ HoldsClient(t)
    /\ client[dev[t]] = NoIp
    /\ LET ip == currentIp[dev[t]] IN
         /\ initialIp' = [initialIp EXCEPT ![t] = ip]
         /\ target' = [target EXCEPT ![t] = ip]
         /\ Goto(t, IF ip # NoIp THEN "connect1" ELSE "discover")
    /\ UNCHANGED <<client, clientLock, currentIp, cache, cacheLock, dev, tried>>

\* connect_at succeeds; the operation starts on the new connection.
ConnectOk(t) ==
    /\ pc[t] \in {"connect1", "connect2", "connect3"}
    /\ Goto(t, "funcNew")
    /\ UNCHANGED <<client, clientLock, currentIp, cache, cacheLock, dev, locals>>

FirstAttemptFails(t) ==
    /\ pc[t] = "connect1"
    /\ Goto(t, "discover")
    /\ tried' = [tried EXCEPT ![t] = @ \cup {target[t]}]
    /\ UNCHANGED <<client, clientLock, currentIp, cache, cacheLock, dev,
                   initialIp, target>>

\* refresh_in_memory: discover() answered, the batch waits for the cache ...
DiscoverOk(t) ==
    /\ pc[t] = "discover"
    /\ Goto(t, "cacheWrite")
    /\ cacheLock' = Enqueue(cacheLock, t, "write")
    /\ UNCHANGED <<client, clientLock, currentIp, cache, dev, locals>>

\* ... or failed, and the cache is looked up as it is.
DiscoverErr(t) ==
    /\ pc[t] = "discover"
    /\ Goto(t, "cacheRead")
    /\ cacheLock' = Enqueue(cacheLock, t, "read")
    /\ UNCHANGED <<client, clientLock, currentIp, cache, dev, locals>>

\* The batch was fetched earlier, but nothing reads it before it is merged.
CacheMerge(t) ==
    /\ pc[t] = "cacheWrite"
    /\ Holds(cacheLock, t)
    /\ \E fresh \in Cache : cache' = MergeIn(cache, fresh)
    /\ cacheLock' = Requeue(cacheLock, t, "read")
    /\ Goto(t, "cacheRead")
    /\ UNCHANGED <<client, clientLock, currentIp, dev, locals>>

\* Mutant of LookupHit: the retry goes to the initial address.
LookupHitRetriesInitial(t) ==
    /\ pc[t] = "cacheRead"
    /\ Holds(cacheLock, t)
    /\ \E ip \in Lookup(cache, NameOf[dev[t]]) \ {NoIp} :
         currentIp' = [currentIp EXCEPT ![dev[t]] = ip]
    /\ target' = [target EXCEPT ![t] = initialIp[t]]
    /\ cacheLock' = Dequeue(cacheLock, t)
    /\ Goto(t, "connect2")
    /\ UNCHANGED <<client, clientLock, cache, dev, initialIp, tried>>

\* The name resolves: the address in use is replaced before it is tried.
LookupHit(t) ==
    /\ pc[t] = "cacheRead"
    /\ Holds(cacheLock, t)
    /\ \E ip \in Lookup(cache, NameOf[dev[t]]) \ {NoIp} :
         /\ currentIp' = [currentIp EXCEPT ![dev[t]] = ip]
         /\ target' = [target EXCEPT ![t] = ip]
    /\ cacheLock' = Dequeue(cacheLock, t)
    /\ Goto(t, "connect2")
    /\ UNCHANGED <<client, clientLock, cache, dev, initialIp, tried>>

\* What happens when the rediscovered address is of no help: the initial address
\* is tried once more if there is one and it is not the address just tried.
FallBack(t, useless) ==
    IF initialIp[t] # NoIp /\ initialIp[t] # useless
    THEN /\ Goto(t, "connect3")
         /\ target' = [target EXCEPT ![t] = initialIp[t]]
         /\ UNCHANGED <<clientLock, initialIp>>
    ELSE /\ Goto(t, "failed")
         /\ ClientRelease(t)
         /\ target' = [target EXCEPT ![t] = NoIp]
         /\ initialIp' = [initialIp EXCEPT ![t] = NoIp]

LookupMiss(t) ==
    /\ pc[t] = "cacheRead"
    /\ Holds(cacheLock, t)
    /\ NoIp \in Lookup(cache, NameOf[dev[t]])
    /\ cacheLock' = Dequeue(cacheLock, t)
    /\ FallBack(t, NoIp)
    /\ UNCHANGED <<client, currentIp, cache, dev, tried>>

RetryFails(t) ==
    /\ pc[t] = "connect2"
    /\ tried' = [tried EXCEPT ![t] = @ \cup {target[t]}]
    /\ FallBack(t, target[t])
    /\ UNCHANGED <<client, currentIp, cache, cacheLock, dev>>

FallbackFails(t) ==
    /\ pc[t] = "connect3"
    /\ Goto(t, "failed")
    /\ ClientRelease(t)
    /\ tried' = [tried EXCEPT ![t] = @ \cup {target[t]}]
    /\ target' = [target EXCEPT ![t] = NoIp]
    /\ initialIp' = [initialIp EXCEPT ![t] = NoIp]
    /\ UNCHANGED <<client, currentIp, cache, cacheLock, dev>>

\* Every step a task takes inside a call.
CallStep(t) ==
    \/ ClientReadHit(t) \/ ClientReadMiss(t) \/ ClientWriteHit(t)
    \/ FuncDone(t) \/ FuncNewDone(t)
    \/ EstablishStart(t) \/ ConnectOk(t) \/ FirstAttemptFails(t)
    \/ DiscoverOk(t) \/ DiscoverErr(t) \/ CacheMerge(t)
    \/ LookupHit(t) \/ LookupMiss(t) \/ RetryFails(t) \/ FallbackFails(t)

\* The future is dropped at an await (the HTTP client hangs up, or the JoinSet
\* of the load is dropped): its guards and queued requests go with it.
DropCall(t) ==
    /\ InCall(t)
    /\ Goto(t, "idle")
    /\ ClientRelease(t)
    /\ cacheLock' = Dequeue(cacheLock, t)
    /\ dev' = [dev EXCEPT ![t] = NoDevice]
    /\ ForgetLocals(t)
    /\ UNCHANGED <<client, currentIp, cache>>

\* The caller consumes the result.
Return(t) ==
    /\ pc[t] \in {"ok", "failed"}
    /\ Goto(t, "idle")
    /\ dev' = [dev EXCEPT ![t] = NoDevice]
    /\ ForgetLocals(t)
    /\ UNCHANGED <<client, clientLock, currentIp, cache, cacheLock>>

-----------------------------------------------------------------------------
(* The periodic discovery task replaces the whole cache by what it loaded  *)
(* from disk and merged with its own sweep.                                *)

SweepDone ==
    /\ ~Requested(cacheLock, Refresher)
    /\ cacheLock' = Enqueue(cacheLock, Refresher, "write")
    /\ UNCHANGED <<client, clientLock, currentIp, cache, pc, dev, locals>>

SweepStore ==
    /\ Requested(cacheLock, Refresher)
    /\ Holds(cacheLock, Refresher)
    /\ cache' \in Cache
    /\ cacheLock' = Dequeue(cacheLock, Refresher)
    /\ UNCHANGED <<client, clientLock, currentIp, pc, dev, locals>>

-----------------------------------------------------------------------------

\* The loader creates an object only when it has an address for it.
Init ==
    /\ client = [d \in Devices |-> NoIp]
    /\ clientLock = [d \in Devices |-> NewLock(Tasks)]
    /\ currentIp \in [Devices -> IPs]
    /\ cache \in Cache
    /\ cacheLock = NewLock(CacheUsers)
    /\ pc = [t \in Tasks |-> "idle"]
    /\ dev = [t \in Tasks |-> NoDevice]
    /\ initialIp = [t \in Tasks |-> NoIp]
    /\ target = [t \in Tasks |-> NoIp]
    /\ tried = [t \in Tasks |-> {}]

Next ==
    \/ \E t \in Tasks :
         \/ \E d \in Devices : WithClient(t, d) \/ RefreshSession(t, d)
         \/ CallStep(t)
         \/ DropCall(t)
         \/ Return(t)
    \/ SweepDone
    \/ SweepStore

Spec == Init /\ [][Next]_devVars

\* tokio polls every task that can run; a network call ends by its own timeout.
\* Nothing makes a call start, a client hang up or a sweep begin.
Fairness ==
    /\ \A t \in Tasks : WF_devVars(CallStep(t)) /\ WF_devVars(Return(t))
    /\ WF_devVars(SweepStore)

FairSpec == Spec /\ Fairness

-----------------------------------------------------------------------------
(* Properties                                                              *)

TypeOK ==
    /\ client \in [Devices -> MaybeIp]
    /\ clientLock \in [Devices -> LockType(Tasks)]
    /\ currentIp \in [Devices -> MaybeIp]
    /\ cache \in Cache
    /\ cacheLock \in LockType(CacheUsers)
    /\ pc \in [Tasks -> Points]
    /\ dev \in [Tasks -> Devices \cup {NoDevice}]
    /\ initialIp \in [Tasks -> MaybeIp]
    /\ target \in [Tasks -> MaybeIp]
    /\ tried \in [Tasks -> SUBSET MaybeIp]

\* The guard or queued request on its device's `client' that a task must have
\* at each point of a call.
ClientMode(t) ==
    CASE pc[t] \in {"clientRead", "funcRead"} -> "read"
      [] pc[t] \in {"idle", "ok", "failed"}   -> "none"
      [] OTHER                                -> "write"

CacheMode(t) ==
    CASE pc[t] = "cacheRead"  -> "read"
      [] pc[t] = "cacheWrite" -> "write"
      [] OTHER                -> "none"

\* At every await a task has exactly the guards and queued requests its place in
\* the code calls for, on its own device only, and past clientRead/clientWrite
\* the request on `client' has been granted.  So no path through with_client,
\* with_client_mut, _establish_conn and refresh_in_memory, the early returns and
\* dropped futures included, leaks a guard or goes on without one.
GuardsMatchControl ==
    /\ \A d \in Devices : LockOK(clientLock[d], Tasks)
    /\ LockOK(cacheLock, CacheUsers)
    /\ \A t \in Tasks :
         /\ InCall(t) => dev[t] \in Devices
         /\ \A d \in Devices :
              clientLock[d].mode[t] = IF d = dev[t] THEN ClientMode(t) ELSE "none"
         /\ cacheLock.mode[t] = CacheMode(t)
         /\ InCall(t) /\ pc[t] \notin {"clientRead", "clientWrite"}
              => HoldsClient(t)

\* A task that is connecting, that runs the first operation of a new connection,
\* or that refreshes a session has the device to itself: nobody else runs an
\* operation on that device or connects to it.
AloneOnDevice(t) == Establishing(t) \/ pc[t] \in {"funcNew", "funcWrite"}
UsesDevice(t)    == AloneOnDevice(t) \/ pc[t] = "funcRead"

ExclusiveUse ==
    \A t, u \in Tasks :
        t # u /\ AloneOnDevice(t) /\ UsesDevice(u) => dev[t] # dev[u]

\* A task only connects while the device has no connection: of many requests that
\* find a device unconnected, one connects and the others use its connection.
ConnectsOnce ==
    \A t \in Tasks :
        Establishing(t) \/ pc[t] = "funcNew" => client[dev[t]] = NoIp

\* The connection of a device, once stored, is never replaced or taken away, and
\* the address in use does not change behind it.
ConnectionKept ==
    [][\A d \in Devices :
         client[d] # NoIp => client'[d] = client[d] /\ currentIp'[d] = currentIp[d]
      ]_devVars

\* What _establish_conn knows at each of its awaits about the addresses it has
\* tried: nothing is lost between the first attempt and the last, and the address
\* in use changes under nobody's feet.
AttemptsRecorded ==
    \A t \in Tasks :
        LET known == {initialIp[t], currentIp[dev[t]]} \ {NoIp} IN
        /\ pc[t] = "connect1" =>
             target[t] = initialIp[t] /\ target[t] = currentIp[dev[t]]
        /\ pc[t] \in {"discover", "cacheWrite", "cacheRead"} =>
             initialIp[t] = currentIp[dev[t]] /\ known \subseteq tried[t]
        /\ pc[t] = "connect2" =>
             target[t] = currentIp[dev[t]] /\ known \subseteq tried[t] \cup {target[t]}
        /\ pc[t] = "connect3" => known \subseteq tried[t]

\* _establish_conn reports failure only after it has tried both the address in
\* use when it began and the one in use now (the rediscovered one, if any).
FailureIsExhaustive ==
    [][\A t \in Tasks :
         pc[t] # "failed" /\ pc'[t] = "failed"
           => {initialIp[t], currentIp[dev[t]]} \ {NoIp} \subseteq tried'[t]
      ]_devVars

\* Every call ends, whatever the other tasks and the refresher do: the tasks
\* never wait for one another's locks in a circle, and nobody is overtaken forever.
CallsReturn ==
    \A t \in Tasks : pc[t] # "idle" ~> pc[t] = "idle"

\* What task t does with its device, as SharedConnection sees it ...
UseOf(t) ==
    CASE pc[t] = "idle" -> "out"
      [] pc[t] = "funcRead" -> "shared"
      [] pc[t] = "funcWrite" -> "alone"
      [] pc[t] = "funcNew" -> "new"
      [] pc[t] \in {"ok", "failed"} -> "back"
      [] OTHER -> "waiting"

\* ... and the connection it has opened and not stored.
FreshOf(t) == IF pc[t] = "funcNew" THEN target[t] ELSE NoIp

\* What a TapoDevice promises to those who share it.
Shared ==
    INSTANCE SharedConnection WITH
        conn  <- client,
        on    <- dev,
        fresh <- [t \in Tasks |-> FreshOf(t)],
        use   <- [t \in Tasks |-> UseOf(t)]

ImplementsSharedConnection == Shared!Spec
=============================================================================
