---------------------------- MODULE GatewayProofs ----------------------------
(***************************************************************************)
(* Proofs about Gateway, for any loads, requests, devices and versions of  *)
(* the config file.  Most steps of the server are steps of TapoDevice as   *)
(* far as its variables go, so what TapoDeviceProofs shows of a step is    *)
(* used here; a load adds steps on the cache lock and the one that spawns  *)
(* its tasks.  The invariants of the server then follow from who owns what *)
(* (LoadTasks, ServedFirst), from where the published configuration comes  *)
(* from (Published, LoadsAgree) and from the two shared locks.             *)
(***************************************************************************)
EXTENDS Gateway, TapoDeviceProofs

\* The refresher only ever asks for the write half of the cache.
RefresherWrites == cacheLock.mode[Refresher] \in {"none", "write"}

\* Device objects and the tasks that connect them belong to one load.  A task is
\* there from the spawn on, has ended when the load goes on, and is dropped only
\* if the load was.
LoadTasks ==
    /\ \A l \in Loads :
         /\ \A d \in loadDevs[l] : LoadOf[d] = l
         /\ loadPc[l] \in {"idle", "cacheRead", "error"} => loadDevs[l] = {}
    /\ \A d \in Devices :
         LET l == LoadOf[d] IN
         /\ pc[d] # "idle" => d \in loadDevs[l] /\ dev[d] = d
         /\ d \in loadDevs[l] /\ loadPc[l] # "cancelled" => pc[d] # "idle"
         /\ d \in loadDevs[l] /\ loadPc[l] \in {"loadedWrite", "done"} => ~InCall(d)

\* A task has a device from the start of a call to its return.
DeviceWhileCalled == \A t \in Tasks : pc[t] = "idle" <=> dev[t] = NoDevice

\* Only devices that a load has built are called or connected, and those have an
\* address.
BuiltDevices ==
    /\ \A t \in Tasks : dev[t] # NoDevice => dev[t] \in loadDevs[LoadOf[dev[t]]]
    /\ \A l \in Loads : \A d \in loadDevs[l] : currentIp[d] # NoIp
    /\ \A d \in Devices : client[d] # NoIp => d \in loadDevs[LoadOf[d]]

\* Nothing is served before the boot load is over.
ServedFirst ==
    \A q \in Requests : pc[q] # "idle" \/ Requested(loadedLock, q) => Booted

\* What is loaded is the result of a load that is over.
Published ==
    \/ loaded = [version |-> 0, devices |-> {}]
    \/ \E l \in Loads : loadPc[l] = "done" /\ loaded = LoadResult(l)

\* ConfigAndDevicesAgree, for a version and a set of devices.
Agree(version, devices) ==
    /\ Content[version] # Malformed
    /\ \A n \in Names :
         LET entry == Content[version][n]
             present == \E d \in devices : NameOf[d] = n
         IN  /\ entry \in IPs => present
             /\ entry = NotListed => ~present

\* A load that has read the file has the devices of the version it read.
LoadsAgree ==
    \A l \in Loads : loadPc[l] \in {"joining", "loadedWrite", "done"}
                       => Agree(loadVer[l], loadDevs[l])

GInv ==
    /\ GTypeOK /\ GuardsMatchControl /\ SharedGuardsMatchControl /\ RefresherWrites
    /\ ConnectsOnce /\ LoadTasks /\ DeviceWhileCalled /\ BuiltDevices /\ ServedFirst
    /\ Published /\ LoadsAgree /\ RequestsUseLoadedDevices

-----------------------------------------------------------------------------
(* What a step of TapoDevice does, for those who compose it                *)

\* A step of a call is taken inside one and does not make its task idle.
LEMMA CallStepStays ==
    ASSUME TypeOK, NEW t \in Tasks, CallStep(t)
    PROVE  InCall(t) /\ pc'[t] # "idle" /\ dev' = dev
  BY DEF TypeOK, InCall, CallStep, ClientReadHit, ClientReadMiss, ClientWriteHit, FuncDone,
         FuncNewDone, EstablishStart, ConnectOk, FirstAttemptFails, DiscoverOk, DiscoverErr,
         CacheMerge, LookupHit, LookupMiss, RetryFails, FallbackFails, FallBack, Goto

\* An address in use is replaced by another one, never taken away.
LEMMA AddressesStay ==
    ASSUME TypeOK, [Next]_devVars, NEW d \in Devices, currentIp[d] # NoIp
    PROVE  currentIp'[d] # NoIp
  <1>1. ASSUME NEW t \in Tasks, LookupHit(t) PROVE currentIp'[d] # NoIp
    BY <1>1 DEF LookupHit, TypeOK
  <1>2. ASSUME NEW t \in Tasks, TaskStep(t), ~LookupHit(t) PROVE currentIp' = currentIp
    BY <1>2 DEF TaskStep, WithClient, RefreshSession, CallStep, ClientReadHit,
         ClientReadMiss, ClientWriteHit, FuncDone, FuncNewDone, EstablishStart, ConnectOk,
         FirstAttemptFails, DiscoverOk, DiscoverErr, CacheMerge, LookupMiss,
         RetryFails, FallbackFails, FallBack, DropCall, Return
  <1>3. CASE SweepDone \/ SweepStore \/ UNCHANGED devVars
    BY <1>3, SweepTouches
  <1> QED BY <1>1, <1>2, <1>3, NextCases

\* What somebody who queues for the cache, or leaves it, does to the others.
LEMMA CacheLockMoves ==
    ASSUME LockOK(cacheLock, CacheUsers), NEW u \in CacheUsers,
           \/ cacheLock' = cacheLock
           \/ cacheLock' = Dequeue(cacheLock, u)
           \/ \E m \in {"read", "write"} :
                \/ cacheLock' = Requeue(cacheLock, u, m)
                \/ cacheLock.mode[u] = "none" /\ cacheLock' = Enqueue(cacheLock, u, m)
    PROVE  /\ LockOK(cacheLock', CacheUsers)
           /\ OthersUnaffected(cacheLock, cacheLock', CacheUsers, u)
  <1>1. \A m \in {"read", "write"} : m \in Modes /\ m # "none"
    BY DEF Modes
  <1>2. CASE cacheLock' = cacheLock
    BY <1>2, Unaffected
  <1>3. CASE cacheLock' = Dequeue(cacheLock, u)
    BY <1>3, DequeueStep
  <1>4. ASSUME NEW m \in {"read", "write"}, cacheLock' = Requeue(cacheLock, u, m)
        PROVE  /\ LockOK(cacheLock', CacheUsers)
               /\ OthersUnaffected(cacheLock, cacheLock', CacheUsers, u)
    BY <1>1, <1>4, RequeueStep
  <1>5. ASSUME NEW m \in {"read", "write"},
               cacheLock.mode[u] = "none", cacheLock' = Enqueue(cacheLock, u, m)
        PROVE  /\ LockOK(cacheLock', CacheUsers)
               /\ OthersUnaffected(cacheLock, cacheLock', CacheUsers, u)
    BY <1>1, <1>5, EnqueueStep
  <1> QED BY <1>2, <1>3, <1>4, <1>5

\* A step of TapoDevice affects the cache guard of one task, or of the refresher.
LEMMA DeviceCacheLock ==
    ASSUME GuardsMatchControl, [Next]_devVars
    PROVE  /\ \E u \in Tasks \cup {Refresher} :
                OthersUnaffected(cacheLock, cacheLock', CacheUsers, u)
           /\ RefresherWrites => RefresherWrites'
  <1>0. LockOK(cacheLock, CacheUsers) /\ Tasks \cup {Refresher} \subseteq CacheUsers
        /\ Refresher \notin Tasks
    BY DeviceAssumption DEF GuardsMatchControl
  <1>1. ASSUME NEW t \in Tasks, TaskStep(t)
        PROVE  /\ OthersUnaffected(cacheLock, cacheLock', CacheUsers, t)
               /\ RefresherWrites => RefresherWrites'
    <2>1. \/ cacheLock' = cacheLock
          \/ cacheLock' = Dequeue(cacheLock, t)
          \/ cacheLock' = Requeue(cacheLock, t, "read")
          \/ /\ pc[t] = "discover"
             /\ \E m \in {"read", "write"} : cacheLock' = Enqueue(cacheLock, t, m)
      BY <1>1 DEF TaskStep, WithClient, RefreshSession, CallStep, ClientReadHit,
         ClientReadMiss, ClientWriteHit, FuncDone, FuncNewDone, EstablishStart, ConnectOk,
         FirstAttemptFails, DiscoverOk, DiscoverErr, CacheMerge, LookupHit, LookupMiss,
         RetryFails, FallbackFails, FallBack, DropCall, Return
    <2>2. pc[t] = "discover" => cacheLock.mode[t] = "none"
      BY DEF GuardsMatchControl, CacheMode
    <2>3. OthersUnaffected(cacheLock, cacheLock', CacheUsers, t)
      BY <1>0, <2>1, <2>2, CacheLockMoves
    <2> QED BY <1>0, <2>3 DEF OthersUnaffected, RefresherWrites
  <1>2. ASSUME SweepDone \/ SweepStore
        PROVE  /\ OthersUnaffected(cacheLock, cacheLock', CacheUsers, Refresher)
               /\ RefresherWrites => RefresherWrites'
    <2>1. CASE SweepDone
      <3>1. cacheLock.mode[Refresher] = "none" /\ cacheLock' = Enqueue(cacheLock, Refresher, "write")
        BY <2>1 DEF SweepDone, Requested
      <3>2. cacheLock'.mode[Refresher] = "write"
        BY <1>0, <3>1, EnqueueStep DEF Modes
      <3> QED BY <1>0, <3>1, <3>2, CacheLockMoves DEF RefresherWrites
    <2>2. CASE SweepStore
      <3>1. cacheLock' = Dequeue(cacheLock, Refresher)
        BY <2>2 DEF SweepStore
      <3>2. cacheLock'.mode[Refresher] = "none"
        BY <1>0, <3>1, DequeueStep
      <3> QED BY <1>0, <3>1, <3>2, CacheLockMoves DEF RefresherWrites
    <2> QED BY <1>2, <2>1, <2>2
  <1>3. CASE UNCHANGED devVars
    BY <1>3, Unaffected DEF devVars, RefresherWrites
  <1> QED BY <1>1, <1>2, <1>3, NextCases

\* A task's lock of a device does not move with that of somebody who calls nothing.
LEMMA CacheBystander ==
    ASSUME GuardsMatchControl, NEW u \in CacheUsers \ Tasks,
           LockOK(cacheLock', CacheUsers),
           OthersUnaffected(cacheLock, cacheLock', CacheUsers, u),
           UNCHANGED <<clientLock, pc, dev>>
    PROVE  GuardsMatchControl'
  <1>1. \A t \in Tasks : /\ InCall(t)' = InCall(t)
                         /\ ClientMode(t)' = ClientMode(t)
                         /\ CacheMode(t)' = CacheMode(t)
                         /\ HoldsClient(t)' = HoldsClient(t)
    BY DEF InCall, ClientMode, CacheMode, HoldsClient
  <1>2. \A t \in Tasks : cacheLock'.mode[t] = cacheLock.mode[t]
    BY DeviceAssumption DEF OthersUnaffected
  <1> QED BY <1>1, <1>2 DEF GuardsMatchControl

-----------------------------------------------------------------------------
(* Who takes a step                                                        *)

\* The steps of a load that only move it along and touch the two shared locks.
LoadMoves(l) ==
    \/ LoadStart(l) \/ LoadReject(l) \/ ReloadJoin(l) \/ ReloadHangup(l)
    \/ l = Boot /\ BootJoin

RequestMoves(q) == RequestStart(q) \/ RequestStep(q) \/ RequestHangup(q)

\* Steps of neither loads nor requests.
OthersMove ==
    \/ \E d \in Devices : AbortTask(d)
    \/ \E t \in Tasks : DeviceStep(t)
    \/ Sweep \/ EditFile \/ UNCHANGED vars

\* Whose step a step is.
LEMMA GNextCases ==
    ASSUME [GNext]_vars
    PROVE  \/ \E l \in Loads : LoadMoves(l) \/ LoadSpawn(l) \/ ReloadStore(l)
           \/ \E q \in Requests : RequestMoves(q)
           \/ OthersMove
  BY DEF GNext, LoadMoves, LoadStep, RequestMoves, OthersMove

\* Whose lock is whose.
LEMMA WhoIsWho ==
    /\ \A l \in Loads : l \in CacheUsers \ Tasks /\ l \in LoadedUsers /\ l # Refresher
                        /\ l \notin Requests /\ l \notin Devices
    /\ \A q \in Requests : q \in LoadedUsers /\ q \in Tasks /\ q \notin Devices
    /\ \A d \in Devices : d \in Tasks /\ LoadOf[d] \in Loads
    /\ Boot \in Loads
  BY GatewayAssumption DEF Loads, LoadedUsers

\* Everything but a load's own steps is a step of TapoDevice, or hidden from it.
LEMMA DeviceSide ==
    ASSUME GTypeOK,
           \/ \E l \in Loads : ReloadStore(l)
           \/ \E q \in Requests : RequestMoves(q)
           \/ OthersMove
    PROVE  [Next]_devVars
  <1>1. ASSUME NEW l \in Loads, ReloadStore(l) PROVE UNCHANGED devVars
    BY <1>1 DEF ReloadStore
  <1>2. ASSUME NEW q \in Requests, RequestMoves(q) PROVE [Next]_devVars
    <2>1. loaded.devices \subseteq Devices /\ q \in Tasks
      BY WhoIsWho DEF GTypeOK
    <2>2. CASE RequestStart(q) \/ RequestAnswer(q)
      BY <2>2 DEF RequestStart, RequestAnswer
    <2>3. CASE RequestDevice(q)
      BY <2>1, <2>3 DEF RequestDevice, Next
    <2>4. CASE RequestReturn(q) \/ RequestHangup(q)
      BY <2>1, <2>4 DEF RequestReturn, RequestHangup, Next
    <2> QED BY <1>2, <2>2, <2>3, <2>4 DEF RequestMoves, RequestStep
  <1>3. CASE OthersMove
    <2>1. Devices \subseteq Tasks
      BY WhoIsWho
    <2> QED BY <1>3, <2>1
            DEF OthersMove, AbortTask, DeviceStep, Sweep, EditFile, vars, Next
  <1> QED BY <1>1, <1>2, <1>3

\* What a load does to the cache lock when it moves along.
LEMMA LoadMovesCache ==
    ASSUME SharedGuardsMatchControl, NEW l \in Loads, LoadMoves(l)
    PROVE  /\ LockOK(cacheLock', CacheUsers)
           /\ OthersUnaffected(cacheLock, cacheLock', CacheUsers, l)
           /\ UNCHANGED <<client, clientLock, currentIp, cache, pc, dev, initialIp, target,
                          tried, file, loadDevs, loadVer>>
  <1>1. LockOK(cacheLock, CacheUsers) /\ l \in CacheUsers
    BY WhoIsWho DEF SharedGuardsMatchControl
  <1>2. \/ cacheLock' = Dequeue(cacheLock, l)
        \/ cacheLock.mode[l] = "none" /\ cacheLock' = Enqueue(cacheLock, l, "read")
    BY DEF LoadMoves, LoadStart, LoadReject, ReloadJoin, ReloadHangup, BootJoin,
           SharedGuardsMatchControl
  <1>3. UNCHANGED <<client, clientLock, currentIp, cache, pc, dev, initialIp, target,
                    tried, file, loadDevs, loadVer>>
    BY DEF LoadMoves, LoadStart, LoadReject, ReloadJoin, ReloadHangup, BootJoin, locals
  <1> QED BY <1>1, <1>2, <1>3, CacheLockMoves

-----------------------------------------------------------------------------
(* GuardsMatchControl                                                      *)

\* A load finds the tasks of the objects it builds unused.
LEMMA SpawnsIdle ==
    ASSUME GTypeOK, LoadTasks, DeviceWhileCalled, NEW l \in Loads, loadPc[l] = "cacheRead",
           NEW d \in Devices, LoadOf[d] = l
    PROVE  pc[d] = "idle" /\ dev[d] = NoDevice /\ d \notin loadDevs[l]
  BY WhoIsWho DEF LoadTasks, DeviceWhileCalled

\* What a load spawns: every new object has its own task, which queues for the
\* read half of the object's lock.
LEMMA SpawnEffect ==
    ASSUME GTypeOK, NEW l \in Loads, LoadSpawn(l)
    PROVE  \E new \in SUBSET {d \in Devices : LoadOf[d] = l} :
             /\ loadDevs' = [loadDevs EXCEPT ![l] = new]
             /\ \A d \in Devices :
                  /\ clientLock'[d] = IF d \in new THEN Enqueue(clientLock[d], d, "read")
                                                   ELSE clientLock[d]
                  /\ d \in new => currentIp'[d] \in IPs
                  /\ d \notin new => currentIp'[d] = currentIp[d]
             /\ \A t \in Tasks :
                  /\ pc'[t] = IF t \in new THEN "clientRead" ELSE pc[t]
                  /\ dev'[t] = IF t \in new THEN t ELSE dev[t]
             /\ clientLock' = [d \in Devices |-> clientLock'[d]]
             /\ currentIp' \in [Devices -> MaybeIp]
             /\ pc' \in [Tasks -> Points]
             /\ dev' \in [Tasks -> Devices \cup {NoDevice}]
  <1>1. PICK addr \in [Names -> MaybeIp] :
          LET new == Connectable(l, addr) IN
          /\ currentIp' = [d \in Devices |->
                             IF d \in new THEN addr[NameOf[d]] ELSE currentIp[d]]
          /\ clientLock' = [d \in Devices |->
                             IF d \in new THEN Enqueue(clientLock[d], d, "read")
                                          ELSE clientLock[d]]
          /\ pc' = [t \in Tasks |-> IF t \in new THEN "clientRead" ELSE pc[t]]
          /\ dev' = [t \in Tasks |-> IF t \in new THEN t ELSE dev[t]]
          /\ loadDevs' = [loadDevs EXCEPT ![l] = new]
    BY DEF LoadSpawn
  <1> DEFINE new == Connectable(l, addr)
  <1>2. new \in SUBSET {d \in Devices : LoadOf[d] = l}
    BY DEF Connectable
  <1>3. \A d \in new : addr[NameOf[d]] \in IPs
    BY DeviceAssumption DEF Connectable, MaybeIp
  <1>4. /\ currentIp \in [Devices -> MaybeIp] /\ pc \in [Tasks -> Points]
        /\ dev \in [Tasks -> Devices \cup {NoDevice}] /\ "clientRead" \in Points
    BY DEF GTypeOK, TypeOK, Points
  <1> HIDE DEF new
  <1>5. currentIp' \in [Devices -> MaybeIp]
    BY <1>1, <1>3, <1>4 DEF new, MaybeIp
  <1>6. pc' \in [Tasks -> Points] /\ dev' \in [Tasks -> Devices \cup {NoDevice}]
    BY <1>1, <1>2, <1>4 DEF new
  <1> WITNESS new \in SUBSET {d \in Devices : LoadOf[d] = l}
  <1> QED BY <1>1, <1>2, <1>3, <1>5, <1>6 DEF new

\* A spawn keeps the guards: the new tasks queue first at a lock nobody else has.
LEMMA SpawnKeepsGuards ==
    ASSUME GTypeOK, GuardsMatchControl, LoadTasks, DeviceWhileCalled,
           NEW l \in Loads, LoadSpawn(l)
    PROVE  GuardsMatchControl'
  <1>1. PICK new \in SUBSET {d \in Devices : LoadOf[d] = l} :
          /\ \A d \in Devices :
               clientLock'[d] = IF d \in new THEN Enqueue(clientLock[d], d, "read")
                                             ELSE clientLock[d]
          /\ \A t \in Tasks : /\ pc'[t] = IF t \in new THEN "clientRead" ELSE pc[t]
                              /\ dev'[t] = IF t \in new THEN t ELSE dev[t]
    BY SpawnEffect, SMTT(60)
  <1>2. cacheLock' = cacheLock /\ loadPc[l] = "cacheRead"
    BY DEF LoadSpawn
  <1>3. \A d \in new : pc[d] = "idle" /\ dev[d] = NoDevice /\ d \in Tasks /\ d \in Devices
    BY <1>2, SpawnsIdle, WhoIsWho
  <1>4. \A d \in Devices : LockOK(clientLock[d], Tasks)
    BY DEF GuardsMatchControl
  <1>5. \A d \in new : clientLock[d].mode[d] = "none"
    BY <1>3, DeviceAssumption DEF GuardsMatchControl
  <1>6. \A d \in new : /\ LockOK(clientLock'[d], Tasks)
                       /\ clientLock'[d].mode[d] = "read"
                       /\ OthersUnaffected(clientLock[d], clientLock'[d], Tasks, d)
    BY <1>1, <1>3, <1>4, <1>5, EnqueueStep DEF Modes
  <1>7. \A d \in Devices : LockOK(clientLock'[d], Tasks)
    BY <1>1, <1>4, <1>6
  <1>8. \A t \in Tasks : /\ t \in new => InCall(t)' /\ ClientMode(t)' = "read"
                                         /\ CacheMode(t)' = "none" /\ CacheMode(t) = "none"
                         /\ t \notin new => /\ InCall(t)' = InCall(t)
                                            /\ ClientMode(t)' = ClientMode(t)
                                            /\ CacheMode(t)' = CacheMode(t)
    BY <1>1, <1>3 DEF InCall, ClientMode, CacheMode
  <1>9. \A t \in Tasks, d \in Devices :
          ~(d \in new /\ t = d) => /\ clientLock'[d].mode[t] = clientLock[d].mode[t]
                                   /\ Holds(clientLock[d], t) => Holds(clientLock'[d], t)
    BY <1>1, <1>6 DEF OthersUnaffected
  <1>10. \A t \in Tasks : InCall(t)' => dev'[t] \in Devices
    BY <1>1, <1>3, <1>8 DEF GuardsMatchControl
  <1>11. ASSUME NEW t \in Tasks, NEW d \in Devices
         PROVE  clientLock'[d].mode[t] = IF d = dev'[t] THEN ClientMode(t)' ELSE "none"
    <2>1. clientLock[d].mode[t] = IF d = dev[t] THEN ClientMode(t) ELSE "none"
      BY DEF GuardsMatchControl
    <2>2. CASE t \in new
      <3>1. dev'[t] = t /\ ClientMode(t)' = "read" /\ clientLock[d].mode[t] = "none"
        BY <1>1, <1>3, <1>8, <2>1, <2>2, DeviceAssumption
      <3> QED BY <1>6, <1>9, <2>2, <3>1
    <2>3. CASE t \notin new
      BY <1>1, <1>8, <1>9, <2>1, <2>3
    <2> QED BY <2>2, <2>3
  <1>12. \A t \in Tasks : cacheLock'.mode[t] = CacheMode(t)'
    BY <1>2, <1>8 DEF GuardsMatchControl
  <1>13. ASSUME NEW t \in Tasks, InCall(t)', pc'[t] \notin {"clientRead", "clientWrite"}
         PROVE  HoldsClient(t)'
    <2>1. t \notin new /\ pc'[t] = pc[t] /\ dev'[t] = dev[t] /\ InCall(t)
      BY <1>1, <1>8, <1>13
    <2>2. dev[t] \in Devices /\ Holds(clientLock[dev[t]], t)
      BY <1>13, <2>1 DEF GuardsMatchControl, HoldsClient
    <2> QED BY <1>9, <2>1, <2>2 DEF HoldsClient
  <1>14. LockOK(cacheLock', CacheUsers)
    BY <1>2 DEF GuardsMatchControl
  <1> QED BY <1>7, <1>10, <1>11, <1>12, <1>13, <1>14 DEF GuardsMatchControl

\* Every step of the server keeps the guards of the tasks.
LEMMA GNextKeepsGuards ==
    ASSUME GTypeOK, GuardsMatchControl, SharedGuardsMatchControl, LoadTasks,
           DeviceWhileCalled, [GNext]_vars
    PROVE  GuardsMatchControl'
  <1>1. ASSUME NEW l \in Loads, LoadMoves(l) PROVE GuardsMatchControl'
    <2>1. l \in CacheUsers \ Tasks
      BY WhoIsWho
    <2> QED BY <1>1, <2>1, LoadMovesCache, CacheBystander
  <1>2. ASSUME NEW l \in Loads, LoadSpawn(l) PROVE GuardsMatchControl'
    BY <1>2, SpawnKeepsGuards
  <1>3. ASSUME [Next]_devVars PROVE GuardsMatchControl'
    BY <1>3, NextKeepsGuards DEF GTypeOK
  <1> QED BY <1>1, <1>2, <1>3, GNextCases, DeviceSide

-----------------------------------------------------------------------------
(* SharedGuardsMatchControl                                                *)

\* What a load has of the two shared locks ...
LoadHas(l) ==
    /\ cacheLock.mode[l] = IF loadPc[l] \in {"cacheRead", "joining"} THEN "read" ELSE "none"
    /\ loadPc[l] = "joining" => Holds(cacheLock, l)
    /\ loadedLock.mode[l] = IF loadPc[l] = "loadedWrite" THEN "write" ELSE "none"

\* ... and a request.
RequestHas(q) ==
    /\ loadedLock.mode[q] \in {"none", "read"}
    /\ pc[q] # "idle" => Requested(loadedLock, q) /\ Holds(loadedLock, q)

\* SharedGuardsMatchControl, user by user.
LEMMA SharedGuardsByUser ==
    SharedGuardsMatchControl <=>
      /\ LockOK(cacheLock, CacheUsers)
      /\ LockOK(loadedLock, LoadedUsers)
      /\ \A l \in Loads : LoadHas(l)
      /\ \A q \in Requests : RequestHas(q)
  BY DEF SharedGuardsMatchControl, LoadHas, RequestHas

\* What somebody who asks for loaded_config, or leaves it, does to the others.
LEMMA LoadedLockMoves ==
    ASSUME LockOK(loadedLock, LoadedUsers), NEW u \in LoadedUsers,
           \/ loadedLock' = loadedLock
           \/ loadedLock' = Dequeue(loadedLock, u)
           \/ \E m \in {"read", "write"} :
                loadedLock.mode[u] = "none" /\ loadedLock' = Enqueue(loadedLock, u, m)
    PROVE  /\ LockOK(loadedLock', LoadedUsers)
           /\ OthersUnaffected(loadedLock, loadedLock', LoadedUsers, u)
  <1>1. \A m \in {"read", "write"} : m \in Modes /\ m # "none"
    BY DEF Modes
  <1>2. CASE loadedLock' = loadedLock
    BY <1>2, Unaffected
  <1>3. CASE loadedLock' = Dequeue(loadedLock, u)
    BY <1>3, DequeueStep
  <1>4. ASSUME NEW m \in {"read", "write"},
               loadedLock.mode[u] = "none", loadedLock' = Enqueue(loadedLock, u, m)
        PROVE  /\ LockOK(loadedLock', LoadedUsers)
               /\ OthersUnaffected(loadedLock, loadedLock', LoadedUsers, u)
    BY <1>1, <1>4, EnqueueStep
  <1> QED BY <1>2, <1>3, <1>4

\* A load's step: it is enough to look at that load.
LEMMA OneLoadSteps ==
    ASSUME SharedGuardsMatchControl, NEW l \in Loads,
           \A k \in Loads \ {l} : loadPc'[k] = loadPc[k],
           \A q \in Requests : pc'[q] = pc[q],
           LockOK(cacheLock', CacheUsers),
           OthersUnaffected(cacheLock, cacheLock', CacheUsers, l),
           LockOK(loadedLock', LoadedUsers),
           OthersUnaffected(loadedLock, loadedLock', LoadedUsers, l),
           LoadHas(l)'
    PROVE  SharedGuardsMatchControl'
  <1>1. \A k \in Loads : LoadHas(k)'
    BY SharedGuardsByUser, WhoIsWho DEF LoadHas, OthersUnaffected
  <1>2. \A q \in Requests : RequestHas(q)'
    BY SharedGuardsByUser, WhoIsWho DEF RequestHas, OthersUnaffected, Requested
  <1>3. SharedGuardsMatchControl' <=>
          /\ LockOK(cacheLock', CacheUsers)
          /\ LockOK(loadedLock', LoadedUsers)
          /\ \A k \in Loads : LoadHas(k)'
          /\ \A q \in Requests : RequestHas(q)'
    BY DEF SharedGuardsMatchControl, LoadHas, RequestHas
  <1> QED BY <1>1, <1>2, <1>3

\* A step of a task: it is enough to look at the requests.
LEMMA OneTaskSteps ==
    ASSUME SharedGuardsMatchControl, GuardsMatchControl, [Next]_devVars,
           GuardsMatchControl',
           loadPc' = loadPc,
           LockOK(loadedLock', LoadedUsers),
           loadedLock' = loadedLock
             \/ \E q \in Requests : OthersUnaffected(loadedLock, loadedLock', LoadedUsers, q),
           \A q \in Requests : RequestHas(q)'
    PROVE  SharedGuardsMatchControl'
  <1>1. PICK u \in Tasks \cup {Refresher} :
          OthersUnaffected(cacheLock, cacheLock', CacheUsers, u)
    BY DeviceCacheLock
  <1>2. ASSUME NEW l \in Loads PROVE LoadHas(l)'
    <2>1. LoadHas(l) /\ l \in CacheUsers /\ l # u /\ l \in LoadedUsers /\ l \notin Requests
      BY SharedGuardsByUser, WhoIsWho
    <2>2. loadedLock'.mode[l] = loadedLock.mode[l]
      BY <2>1 DEF OthersUnaffected
    <2> QED BY <1>1, <2>1, <2>2 DEF LoadHas, OthersUnaffected
  <1>3. LockOK(cacheLock', CacheUsers)
    BY DEF GuardsMatchControl
  <1>4. SharedGuardsMatchControl' <=>
          /\ LockOK(cacheLock', CacheUsers)
          /\ LockOK(loadedLock', LoadedUsers)
          /\ \A l \in Loads : LoadHas(l)'
          /\ \A q \in Requests : RequestHas(q)'
    BY DEF SharedGuardsMatchControl, LoadHas, RequestHas
  <1> QED BY <1>2, <1>3, <1>4

\* The steps of loads keep the shared guards.
LEMMA LoadsKeepSharedGuards ==
    ASSUME GTypeOK, SharedGuardsMatchControl, NEW l \in Loads,
           LoadMoves(l) \/ LoadSpawn(l) \/ ReloadStore(l)
    PROVE  SharedGuardsMatchControl'
  <1>1. /\ LockOK(cacheLock, CacheUsers) /\ LockOK(loadedLock, LoadedUsers)
        /\ LoadHas(l) /\ l \in CacheUsers /\ l \in LoadedUsers
        /\ loadPc \in [Loads -> LoadPoints]
    BY SharedGuardsByUser, WhoIsWho DEF GTypeOK
  <1>2. \A k \in Loads \ {l} : loadPc'[k] = loadPc[k]
    BY <1>1 DEF LoadMoves, LoadStart, LoadReject, ReloadJoin, ReloadHangup, BootJoin,
           LoadSpawn, ReloadStore, GotoLoad
  <1>3. CASE LoadMoves(l)
    <2>1. /\ LockOK(cacheLock', CacheUsers)
          /\ OthersUnaffected(cacheLock, cacheLock', CacheUsers, l)
          /\ pc' = pc
      BY <1>3, LoadMovesCache
    <2>2. \/ loadedLock' = loadedLock
          \/ loadedLock' = Dequeue(loadedLock, l)
          \/ loadedLock.mode[l] = "none" /\ loadedLock' = Enqueue(loadedLock, l, "write")
      BY <1>1, <1>3 DEF LoadMoves, LoadStart, LoadReject, ReloadJoin, ReloadHangup, BootJoin,
                        LoadHas
    <2>3. /\ LockOK(loadedLock', LoadedUsers)
          /\ OthersUnaffected(loadedLock, loadedLock', LoadedUsers, l)
      BY <1>1, <2>2, LoadedLockMoves
    <2>4. LoadHas(l)'
      <3>1. CASE LoadStart(l)
        <4>1. cacheLock' = Enqueue(cacheLock, l, "read") /\ cacheLock.mode[l] = "none"
          BY <1>1, <3>1 DEF LoadStart, LoadHas
        <4>2. cacheLock'.mode[l] = "read"
          BY <1>1, <4>1, EnqueueStep DEF Modes
        <4> QED BY <1>1, <3>1, <4>2 DEF LoadStart, GotoLoad, LoadHas
      <3>2. CASE LoadReject(l) \/ (l = Boot /\ BootJoin)
        <4>1. cacheLock'.mode[l] = "none" /\ loadedLock' = loadedLock
          BY <1>1, <3>2, DequeueStep DEF LoadReject, BootJoin
        <4>2. loadPc'[l] \in {"error", "done"} /\ loadPc[l] \in {"cacheRead", "joining"}
          BY <1>1, <3>2 DEF LoadReject, BootJoin, GotoLoad
        <4> QED BY <1>1, <4>1, <4>2 DEF LoadHas
      <3>3. CASE ReloadJoin(l)
        <4>1. loadPc[l] = "joining" /\ loadPc'[l] = "loadedWrite"
          BY <1>1, <3>3 DEF ReloadJoin, GotoLoad
        <4>2. loadedLock.mode[l] = "none" /\ loadedLock' = Enqueue(loadedLock, l, "write")
          BY <1>1, <3>3, <4>1 DEF LoadHas, ReloadJoin
        <4>3. cacheLock'.mode[l] = "none" /\ loadedLock'.mode[l] = "write"
          BY <1>1, <3>3, <4>2, DequeueStep, EnqueueStep DEF ReloadJoin, Modes
        <4> QED BY <4>1, <4>3 DEF LoadHas
      <3>4. CASE ReloadHangup(l)
        <4>1. cacheLock'.mode[l] = "none" /\ loadedLock'.mode[l] = "none"
          BY <1>1, <3>4, DequeueStep DEF ReloadHangup
        <4> QED BY <1>1, <3>4, <4>1 DEF ReloadHangup, GotoLoad, LoadHas
      <3> QED BY <1>3, <3>1, <3>2, <3>3, <3>4 DEF LoadMoves
    <2> QED BY <1>2, <2>1, <2>3, <2>4, OneLoadSteps
  <1>4. CASE LoadSpawn(l)
    <2>1. /\ UNCHANGED <<cacheLock, loadedLock>>
          /\ loadPc[l] = "cacheRead" /\ loadPc'[l] = "joining" /\ Holds(cacheLock, l)
      BY <1>1, <1>4 DEF LoadSpawn, GotoLoad
    <2>2. LoadHas(l)'
      BY <1>1, <2>1 DEF LoadHas
    <2>3. \A q \in Requests : pc'[q] = pc[q]
      BY <1>4, SpawnEffect, WhoIsWho
    <2>4. /\ OthersUnaffected(cacheLock, cacheLock', CacheUsers, l)
          /\ OthersUnaffected(loadedLock, loadedLock', LoadedUsers, l)
      BY <2>1, Unaffected
    <2> QED BY <1>1, <1>2, <2>1, <2>2, <2>3, <2>4, OneLoadSteps
  <1>5. CASE ReloadStore(l)
    <2>1. /\ cacheLock' = cacheLock /\ pc' = pc
          /\ loadedLock' = Dequeue(loadedLock, l)
          /\ loadPc[l] = "loadedWrite" /\ loadPc'[l] = "done"
      BY <1>1, <1>5 DEF ReloadStore, GotoLoad, devVars
    <2>2. /\ LockOK(loadedLock', LoadedUsers) /\ loadedLock'.mode[l] = "none"
          /\ OthersUnaffected(loadedLock, loadedLock', LoadedUsers, l)
      BY <1>1, <2>1, DequeueStep
    <2>3. LoadHas(l)' /\ OthersUnaffected(cacheLock, cacheLock', CacheUsers, l)
      BY <1>1, <2>1, <2>2, Unaffected DEF LoadHas
    <2> QED BY <1>1, <1>2, <2>1, <2>2, <2>3, OneLoadSteps
  <1> QED BY <1>3, <1>4, <1>5

\* A request's step, as far as the request's own guard goes.
LEMMA RequestOwnGuard ==
    ASSUME GTypeOK, SharedGuardsMatchControl, NEW q \in Requests, RequestMoves(q)
    PROVE  /\ LockOK(loadedLock', LoadedUsers)
           /\ OthersUnaffected(loadedLock, loadedLock', LoadedUsers, q)
           /\ RequestHas(q)'
           /\ \A r \in Requests \ {q} : pc'[r] = pc[r]
           /\ loadPc' = loadPc
  <1>1. /\ LockOK(loadedLock, LoadedUsers) /\ q \in LoadedUsers /\ Requests \subseteq Tasks
        /\ RequestHas(q) /\ pc \in [Tasks -> Points]
    BY SharedGuardsByUser, WhoIsWho DEF GTypeOK, TypeOK
  <1>2. CASE RequestStart(q)
    <2>1. loadedLock.mode[q] = "none" /\ loadedLock' = Enqueue(loadedLock, q, "read")
      BY <1>2 DEF RequestStart, Requested
    <2>2. /\ LockOK(loadedLock', LoadedUsers) /\ loadedLock'.mode[q] = "read"
          /\ OthersUnaffected(loadedLock, loadedLock', LoadedUsers, q)
      BY <1>1, <2>1, EnqueueStep DEF Modes
    <2>3. UNCHANGED <<pc, loadPc>> /\ pc[q] = "idle"
      BY <1>2 DEF RequestStart, devVars
    <2> QED BY <2>2, <2>3 DEF RequestHas
  <1>3. CASE RequestDevice(q)
    <2>1. /\ Requested(loadedLock, q) /\ Holds(loadedLock, q)
          /\ UNCHANGED <<loadedLock, loadPc>>
          /\ \A r \in Requests \ {q} : pc'[r] = pc[r]
      <3>1. \E d : WithClient(q, d) \/ RefreshSession(q, d)
        BY <1>3 DEF RequestDevice
      <3>2. \A r \in Requests \ {q} : pc'[r] = pc[r]
        BY <1>1, <3>1 DEF WithClient, RefreshSession, Goto
      <3> QED BY <1>3, <3>2 DEF RequestDevice, gateVars
    <2>2. /\ LockOK(loadedLock', LoadedUsers)
          /\ OthersUnaffected(loadedLock, loadedLock', LoadedUsers, q)
          /\ loadedLock'.mode[q] = loadedLock.mode[q]
      BY <1>1, <2>1, Unaffected
    <2>3. RequestHas(q)'
      BY <1>1, <2>1 DEF RequestHas
    <2> QED BY <2>1, <2>2, <2>3
  <1>4. CASE RequestAnswer(q) \/ RequestReturn(q) \/ RequestHangup(q)
    <2>1. /\ loadedLock' = Dequeue(loadedLock, q) /\ loadPc' = loadPc
          /\ pc'[q] = "idle"
          /\ \A r \in Requests \ {q} : pc'[r] = pc[r]
      BY <1>1, <1>4
         DEF RequestAnswer, RequestReturn, RequestHangup, Return, DropCall, Goto, devVars
    <2>2. /\ LockOK(loadedLock', LoadedUsers) /\ loadedLock'.mode[q] = "none"
          /\ OthersUnaffected(loadedLock, loadedLock', LoadedUsers, q)
      BY <1>1, <2>1, DequeueStep
    <2> QED BY <2>1, <2>2 DEF RequestHas
  <1> QED BY <1>2, <1>3, <1>4 DEF RequestMoves, RequestStep

\* Steps of neither loads nor requests change no guard on loaded_config, and start
\* no call of a request.
LEMMA OthersMoveNoGuard ==
    ASSUME GTypeOK, OthersMove
    PROVE  /\ UNCHANGED <<loaded, loadedLock, loadPc, loadDevs, loadVer>>
           /\ \A t \in Tasks : pc[t] = "idle" => pc'[t] = "idle"
           /\ \A t \in Tasks : dev'[t] = dev[t] \/ dev'[t] = NoDevice
  <1>1. /\ pc \in [Tasks -> Points] /\ dev \in [Tasks -> Devices \cup {NoDevice}]
        /\ TypeOK
    BY DEF GTypeOK, TypeOK
  <1>2. ASSUME NEW d \in Devices, AbortTask(d)
        PROVE  /\ UNCHANGED gateVars
               /\ \A t \in Tasks : pc[t] = "idle" => pc'[t] = "idle"
               /\ \A t \in Tasks : dev'[t] = dev[t] \/ dev'[t] = NoDevice
    BY <1>1, <1>2 DEF AbortTask, DropCall, Goto
  <1>3. ASSUME NEW t \in Tasks, DeviceStep(t)
        PROVE  /\ UNCHANGED gateVars
               /\ \A u \in Tasks : pc[u] = "idle" => pc'[u] = "idle"
               /\ dev' = dev
    <2>1. InCall(t) /\ dev' = dev /\ \A u \in Tasks \ {t} : pc'[u] = pc[u]
      BY <1>1, <1>3, CallStepStays, OnlyOwnLocals DEF DeviceStep, TaskStep
    <2> QED BY <1>3, <2>1 DEF DeviceStep, InCall
  <1>4. CASE Sweep \/ EditFile \/ UNCHANGED vars
    BY <1>4 DEF Sweep, SweepDone, SweepStore, EditFile, vars, devVars, gateVars
  <1> QED BY <1>2, <1>3, <1>4 DEF OthersMove, gateVars

\* Every step of the server keeps the shared guards.
LEMMA GNextKeepsSharedGuards ==
    ASSUME GTypeOK, GuardsMatchControl, SharedGuardsMatchControl,
           GuardsMatchControl', [GNext]_vars
    PROVE  SharedGuardsMatchControl'
  <1>1. ASSUME NEW l \in Loads, LoadMoves(l) \/ LoadSpawn(l) \/ ReloadStore(l)
        PROVE  SharedGuardsMatchControl'
    BY <1>1, LoadsKeepSharedGuards
  <1>2. ASSUME NEW q \in Requests, RequestMoves(q) PROVE SharedGuardsMatchControl'
    <2>1. /\ LockOK(loadedLock', LoadedUsers)
          /\ OthersUnaffected(loadedLock, loadedLock', LoadedUsers, q)
          /\ RequestHas(q)'
          /\ \A r \in Requests \ {q} : pc'[r] = pc[r]
          /\ loadPc' = loadPc
      BY <1>2, RequestOwnGuard
    <2>2. \A r \in Requests : RequestHas(r)'
      BY <2>1, SharedGuardsByUser, WhoIsWho DEF RequestHas, OthersUnaffected, Requested
    <2>3. [Next]_devVars
      BY <1>2, DeviceSide
    <2> QED BY <2>1, <2>2, <2>3, OneTaskSteps
  <1>3. CASE OthersMove
    <2>1. /\ UNCHANGED <<loadedLock, loadPc>> /\ [Next]_devVars
          /\ \A q \in Requests : pc[q] = "idle" => pc'[q] = "idle"
      BY <1>3, OthersMoveNoGuard, DeviceSide, WhoIsWho
    <2>2. \A q \in Requests : RequestHas(q)'
      BY <2>1, SharedGuardsByUser DEF RequestHas
    <2>3. LockOK(loadedLock', LoadedUsers)
      BY <2>1, SharedGuardsByUser
    <2> QED BY <2>1, <2>2, <2>3, OneTaskSteps
  <1> QED BY <1>1, <1>2, <1>3, GNextCases

-----------------------------------------------------------------------------
(* Types and ownership                                                     *)

\* Every step of the server keeps the types.
LEMMA GNextKeepsTypes ==
    ASSUME GTypeOK, GuardsMatchControl, SharedGuardsMatchControl, GuardsMatchControl',
           SharedGuardsMatchControl', [GNext]_vars
    PROVE  GTypeOK'
  <1>1. cacheLock' \in LockType(CacheUsers) /\ loadedLock' \in LockType(LoadedUsers)
    BY DEF SharedGuardsMatchControl, LockOK
  <1>2. TypeOK'
    <2>1. ASSUME NEW l \in Loads, LoadMoves(l) PROVE TypeOK'
      BY <1>1, <2>1, LoadMovesCache DEF GTypeOK, TypeOK
    <2>2. ASSUME NEW l \in Loads, LoadSpawn(l) PROVE TypeOK'
      <3>1. /\ clientLock' = [d \in Devices |-> clientLock'[d]]
            /\ currentIp' \in [Devices -> MaybeIp]
            /\ pc' \in [Tasks -> Points]
            /\ dev' \in [Tasks -> Devices \cup {NoDevice}]
        BY <2>2, SpawnEffect
      <3>2. \A d \in Devices : clientLock'[d] \in LockType(Tasks)
        BY DEF GuardsMatchControl, LockOK
      <3>3. clientLock' \in [Devices -> LockType(Tasks)]
        BY <3>1, <3>2
      <3> QED BY <1>1, <2>2, <3>1, <3>3 DEF GTypeOK, TypeOK, LoadSpawn, locals
    <2>3. ASSUME [Next]_devVars PROVE TypeOK'
      BY <2>3, NextKeepsTypes DEF GTypeOK
    <2> QED BY <2>1, <2>2, <2>3, GNextCases, DeviceSide
  <1>3. ASSUME NEW l \in Loads, LoadMoves(l) \/ LoadSpawn(l) \/ ReloadStore(l)
        PROVE  GTypeOK'
    <2>1. loadPc' \in [Loads -> LoadPoints]
      <3>1. PICK p \in LoadPoints : GotoLoad(l, p)
        BY <1>3 DEF LoadMoves, LoadStart, LoadReject, ReloadJoin, ReloadHangup, BootJoin,
                    LoadSpawn, ReloadStore, LoadPoints
      <3> QED BY <3>1 DEF GTypeOK, GotoLoad
    <2>2. loadDevs' \in [Loads -> SUBSET Devices] /\ loadVer' \in [Loads -> Versions \cup {0}]
      <3>1. CASE LoadSpawn(l)
        <4>1. loadDevs' \in [Loads -> SUBSET Devices]
          BY <3>1, SpawnEffect DEF GTypeOK
        <4> QED BY <3>1, <4>1 DEF GTypeOK, LoadSpawn
      <3>2. CASE LoadMoves(l) \/ ReloadStore(l)
        BY <3>2, LoadMovesCache DEF GTypeOK, ReloadStore
      <3> QED BY <1>3, <3>1, <3>2
    <2>3. loaded' \in [version : Versions \cup {0}, devices : SUBSET Devices]
      <3>1. LoadResult(l) \in [version : Versions \cup {0}, devices : SUBSET Devices]
        BY DEF GTypeOK, LoadResult
      <3> QED BY <1>3, <3>1 DEF GTypeOK, LoadMoves, LoadStart, LoadReject, ReloadJoin,
                  ReloadHangup, BootJoin, LoadSpawn, ReloadStore
    <2>4. file' \in Versions
      BY <1>3 DEF GTypeOK, LoadMoves, LoadStart, LoadReject, ReloadJoin, ReloadHangup,
                  BootJoin, LoadSpawn, ReloadStore
    <2> QED BY <1>1, <1>2, <2>1, <2>2, <2>3, <2>4 DEF GTypeOK
  <1>4. ASSUME NEW q \in Requests, RequestMoves(q) PROVE GTypeOK'
    BY <1>1, <1>2, <1>4 DEF GTypeOK, RequestMoves, RequestStart, RequestStep, RequestDevice,
       RequestAnswer, RequestReturn, RequestHangup, gateVars
  <1>5. CASE OthersMove
    <2>1. file' \in Versions
      BY <1>5 DEF GTypeOK, OthersMove, AbortTask, DeviceStep, Sweep, EditFile, vars, gateVars
    <2> QED BY <1>1, <1>2, <1>5, <2>1, OthersMoveNoGuard DEF GTypeOK
  <1> QED BY <1>3, <1>4, <1>5, GNextCases

\* A request moves no task but its own, and nothing of a load.
LEMMA RequestMovesOnlyItself ==
    ASSUME GTypeOK, NEW q \in Requests, RequestMoves(q)
    PROVE  /\ UNCHANGED <<loaded, loadPc, loadDevs, loadVer>>
           /\ \A t \in Tasks \ {q} : pc'[t] = pc[t] /\ dev'[t] = dev[t]
           /\ \/ pc'[q] = pc[q] /\ dev'[q] = dev[q]
              \/ pc'[q] = "idle" /\ dev'[q] = NoDevice
              \/ /\ pc'[q] # "idle" /\ dev'[q] \in loaded.devices
                 /\ Requested(loadedLock, q)
  <1>1. /\ pc \in [Tasks -> Points] /\ dev \in [Tasks -> Devices \cup {NoDevice}]
        /\ q \in Tasks
    BY WhoIsWho DEF GTypeOK, TypeOK
  <1>2. UNCHANGED <<loaded, loadPc, loadDevs, loadVer>>
    BY DEF RequestMoves, RequestStart, RequestStep, RequestDevice,
           RequestAnswer, RequestReturn, RequestHangup, gateVars
  <1>3. CASE RequestStart(q) \/ RequestAnswer(q)
    BY <1>2, <1>3 DEF RequestStart, RequestAnswer, devVars
  <1>4. CASE RequestDevice(q)
    <2>1. PICK d \in loaded.devices : WithClient(q, d) \/ RefreshSession(q, d)
      BY <1>4 DEF RequestDevice
    <2>2. /\ \A t \in Tasks \ {q} : pc'[t] = pc[t] /\ dev'[t] = dev[t]
          /\ pc'[q] \in {"clientRead", "clientWrite"} /\ dev'[q] = d
      BY <1>1, <2>1 DEF WithClient, RefreshSession, Goto
    <2> QED BY <1>2, <1>4, <2>1, <2>2 DEF RequestDevice
  <1>5. CASE RequestReturn(q) \/ RequestHangup(q)
    <2>1. CASE Return(q) \/ DropCall(q)
      BY <1>1, <1>2, <2>1 DEF Return, DropCall, Goto
    <2>2. CASE UNCHANGED devVars
      BY <1>2, <2>2 DEF devVars
    <2> QED BY <1>5, <2>1, <2>2 DEF RequestReturn, RequestHangup
  <1> QED BY <1>3, <1>4, <1>5 DEF RequestMoves, RequestStep

\* Every step keeps LoadTasks.
LEMMA GNextKeepsLoadTasks ==
    ASSUME GTypeOK, SharedGuardsMatchControl, LoadTasks, DeviceWhileCalled, [GNext]_vars
    PROVE  LoadTasks'
  <1>0. /\ pc \in [Tasks -> Points] /\ dev \in [Tasks -> Devices \cup {NoDevice}]
        /\ TypeOK /\ loadPc \in [Loads -> LoadPoints]
        /\ loadDevs \in [Loads -> SUBSET Devices]
    BY DEF GTypeOK, TypeOK
  <1>1. ASSUME NEW l \in Loads, LoadMoves(l) \/ ReloadStore(l) PROVE LoadTasks'
    <2>1. UNCHANGED <<pc, dev, loadDevs>>
      BY <1>1, LoadMovesCache DEF ReloadStore, devVars
    <2>2. /\ \A k \in Loads \ {l} : loadPc'[k] = loadPc[k]
          /\ loadPc[l] \in {"idle", "cacheRead", "joining", "loadedWrite"}
          /\ loadPc'[l] \in {"cacheRead", "error"} => loadPc[l] \in {"idle", "cacheRead"}
          /\ loadPc'[l] \in {"loadedWrite", "done"}
               => AllJoined(l) \/ loadPc[l] = "loadedWrite"
          /\ loadPc'[l] # "idle"
      BY <1>0, <1>1 DEF LoadMoves, LoadStart, LoadReject, ReloadJoin, ReloadHangup, BootJoin,
                  ReloadStore, GotoLoad
    <2>3. \A t \in Tasks : InCall(t)' = InCall(t)
      BY <2>1 DEF InCall
    <2>4. ASSUME NEW d \in Devices
          PROVE  LET k == LoadOf[d] IN
                 /\ pc'[d] # "idle" => d \in loadDevs'[k] /\ dev'[d] = d
                 /\ d \in loadDevs'[k] /\ loadPc'[k] # "cancelled" => pc'[d] # "idle"
                 /\ d \in loadDevs'[k] /\ loadPc'[k] \in {"loadedWrite", "done"}
                      => ~InCall(d)'
      BY <2>1, <2>2, <2>3, WhoIsWho DEF LoadTasks, AllJoined
    <2>5. ASSUME NEW k \in Loads
          PROVE  /\ \A d \in loadDevs'[k] : LoadOf[d] = k
                 /\ loadPc'[k] \in {"idle", "cacheRead", "error"} => loadDevs'[k] = {}
      BY <2>1, <2>2 DEF LoadTasks
    <2> QED BY <2>4, <2>5 DEF LoadTasks
  <1>2. ASSUME NEW l \in Loads, LoadSpawn(l) PROVE LoadTasks'
    <2>1. PICK new \in SUBSET {d \in Devices : LoadOf[d] = l} :
            /\ loadDevs' = [loadDevs EXCEPT ![l] = new]
            /\ \A t \in Tasks : /\ pc'[t] = IF t \in new THEN "clientRead" ELSE pc[t]
                                /\ dev'[t] = IF t \in new THEN t ELSE dev[t]
      BY <1>2, SpawnEffect
    <2>2. loadPc[l] = "cacheRead" /\ loadPc' = [loadPc EXCEPT ![l] = "joining"]
      BY <1>2 DEF LoadSpawn, GotoLoad
    <2>3. \A t \in Tasks : t \notin new => InCall(t)' = InCall(t)
      BY <2>1 DEF InCall
    <2>4. ASSUME NEW d \in Devices
          PROVE  LET k == LoadOf[d] IN
                 /\ pc'[d] # "idle" => d \in loadDevs'[k] /\ dev'[d] = d
                 /\ d \in loadDevs'[k] /\ loadPc'[k] # "cancelled" => pc'[d] # "idle"
                 /\ d \in loadDevs'[k] /\ loadPc'[k] \in {"loadedWrite", "done"}
                      => ~InCall(d)'
      <3>1. d \in Tasks /\ LoadOf[d] \in Loads
        BY WhoIsWho
      <3>2. CASE LoadOf[d] = l
        <4>1. pc[d] = "idle"
          BY <2>2, <3>2, SpawnsIdle
        <4> QED BY <1>0, <2>1, <2>2, <3>1, <3>2, <4>1
      <3>3. CASE LoadOf[d] # l
        <4>1. d \notin new
          BY <2>1, <3>3
        <4> QED BY <1>0, <2>1, <2>2, <2>3, <3>1, <3>3, <4>1 DEF LoadTasks
      <3> QED BY <3>2, <3>3
    <2>5. ASSUME NEW k \in Loads
          PROVE  /\ \A d \in loadDevs'[k] : LoadOf[d] = k
                 /\ loadPc'[k] \in {"idle", "cacheRead", "error"} => loadDevs'[k] = {}
      BY <1>0, <2>1, <2>2 DEF LoadTasks
    <2> QED BY <2>4, <2>5 DEF LoadTasks
  <1>3. ASSUME NEW q \in Requests, RequestMoves(q) PROVE LoadTasks'
    <2>1. /\ UNCHANGED <<loadPc, loadDevs>>
          /\ \A d \in Devices : pc'[d] = pc[d] /\ dev'[d] = dev[d]
      BY <1>3, RequestMovesOnlyItself, WhoIsWho
    <2> QED BY <2>1 DEF LoadTasks, InCall
  <1>4. ASSUME NEW d \in Devices, AbortTask(d) PROVE LoadTasks'
    <2>1. /\ UNCHANGED <<loadPc, loadDevs>>
          /\ loadPc[LoadOf[d]] = "cancelled" /\ pc'[d] = "idle"
          /\ \A c \in Devices \ {d} : pc'[c] = pc[c] /\ dev'[c] = dev[c]
      BY <1>0, <1>4, WhoIsWho DEF AbortTask, DropCall, Goto, gateVars
    <2> QED BY <2>1 DEF LoadTasks, InCall
  <1>5. ASSUME NEW t \in Tasks, DeviceStep(t) PROVE LoadTasks'
    <2>1. /\ UNCHANGED <<loadPc, loadDevs, dev>> /\ InCall(t) /\ pc'[t] # "idle"
          /\ \A u \in Tasks \ {t} : pc'[u] = pc[u]
      BY <1>0, <1>5, CallStepStays, OnlyOwnLocals DEF DeviceStep, TaskStep, gateVars
    <2>2. pc[t] # "idle"
      BY <2>1 DEF InCall
    <2> QED BY <2>1, <2>2, WhoIsWho DEF LoadTasks, InCall
  <1>6. CASE Sweep \/ EditFile \/ UNCHANGED vars
    <2>1. UNCHANGED <<loadPc, loadDevs, pc, dev>>
      BY <1>6 DEF Sweep, SweepDone, SweepStore, EditFile, vars, devVars, gateVars
    <2> QED BY <2>1 DEF LoadTasks, InCall
  <1> QED BY <1>1, <1>2, <1>3, <1>4, <1>5, <1>6, GNextCases DEF OthersMove

\* Every step keeps DeviceWhileCalled.
LEMMA GNextKeepsDeviceWhileCalled ==
    ASSUME GTypeOK, LoadTasks, DeviceWhileCalled, [GNext]_vars
    PROVE  DeviceWhileCalled'
  <1>0. /\ pc \in [Tasks -> Points] /\ dev \in [Tasks -> Devices \cup {NoDevice}]
        /\ TypeOK /\ NoDevice \notin Devices
    BY DeviceAssumption DEF GTypeOK, TypeOK
  <1>1. ASSUME NEW l \in Loads, LoadMoves(l) \/ ReloadStore(l) PROVE UNCHANGED <<pc, dev>>
    BY <1>1 DEF LoadMoves, LoadStart, LoadReject, ReloadJoin, ReloadHangup, BootJoin,
                ReloadStore, devVars
  <1>2. ASSUME NEW l \in Loads, LoadSpawn(l) PROVE DeviceWhileCalled'
    <2>1. PICK new \in SUBSET {d \in Devices : LoadOf[d] = l} :
            \A t \in Tasks : /\ pc'[t] = IF t \in new THEN "clientRead" ELSE pc[t]
                             /\ dev'[t] = IF t \in new THEN t ELSE dev[t]
      BY <1>2, SpawnEffect
    <2> QED BY <1>0, <2>1 DEF DeviceWhileCalled
  <1>3. ASSUME NEW q \in Requests, RequestMoves(q) PROVE DeviceWhileCalled'
    <2>1. loaded.devices \subseteq Devices
      BY DEF GTypeOK
    <2> QED BY <1>0, <1>3, <2>1, RequestMovesOnlyItself DEF DeviceWhileCalled
  <1>4. ASSUME NEW d \in Devices, AbortTask(d) PROVE DeviceWhileCalled'
    BY <1>0, <1>4 DEF DeviceWhileCalled, AbortTask, DropCall, Goto
  <1>5. ASSUME NEW t \in Tasks, DeviceStep(t) PROVE DeviceWhileCalled'
    <2>1. /\ InCall(t) /\ pc'[t] # "idle" /\ dev' = dev
          /\ \A u \in Tasks \ {t} : pc'[u] = pc[u]
      BY <1>0, <1>5, CallStepStays, OnlyOwnLocals DEF DeviceStep, TaskStep
    <2> QED BY <2>1 DEF DeviceWhileCalled, InCall
  <1>6. CASE Sweep \/ EditFile \/ UNCHANGED vars
    <2>1. UNCHANGED <<pc, dev>>
      BY <1>6 DEF Sweep, SweepDone, SweepStore, EditFile, vars, devVars
    <2> QED BY <2>1 DEF DeviceWhileCalled
  <1> QED BY <1>1, <1>2, <1>3, <1>4, <1>5, <1>6, GNextCases DEF OthersMove, DeviceWhileCalled

-----------------------------------------------------------------------------
(* What is loaded                                                          *)

\* A load that is over stays as it is.
LEMMA DoneStays ==
    ASSUME GTypeOK, LoadTasks, [GNext]_vars, NEW l \in Loads, loadPc[l] = "done"
    PROVE  loadPc'[l] = "done" /\ loadDevs'[l] = loadDevs[l] /\ loadVer'[l] = loadVer[l]
  <1>0. /\ loadPc \in [Loads -> LoadPoints]
        /\ loadDevs \in [Loads -> SUBSET Devices]
        /\ loadVer \in [Loads -> Versions \cup {0}]
    BY DEF GTypeOK
  <1>1. ASSUME NEW k \in Loads, LoadMoves(k) \/ ReloadStore(k)
        PROVE  /\ UNCHANGED <<loadDevs, loadVer>> /\ loadPc[k] # "done"
               /\ \E p : loadPc' = [loadPc EXCEPT ![k] = p]
    BY <1>1 DEF LoadMoves, LoadStart, LoadReject, ReloadJoin, ReloadHangup, BootJoin,
                ReloadStore, GotoLoad
  <1>2. ASSUME NEW k \in Loads, LoadSpawn(k)
        PROVE  /\ loadPc[k] # "done" /\ loadPc' = [loadPc EXCEPT ![k] = "joining"]
               /\ loadVer' = [loadVer EXCEPT ![k] = file]
               /\ \E S : loadDevs' = [loadDevs EXCEPT ![k] = S]
    BY <1>2 DEF LoadSpawn, GotoLoad
  <1>3. ASSUME NEW q \in Requests, RequestMoves(q)
        PROVE  UNCHANGED <<loadPc, loadDevs, loadVer>>
    BY <1>3, RequestMovesOnlyItself
  <1>4. OthersMove => UNCHANGED <<loadPc, loadDevs, loadVer>>
    BY OthersMoveNoGuard
  <1> QED BY <1>0, <1>1, <1>2, <1>3, <1>4, GNextCases

\* What is loaded changes only when a load ends, to what that load has read.
LEMMA WhoLoads ==
    ASSUME GTypeOK, [GNext]_vars
    PROVE  \/ loaded' = loaded
           \/ \E l \in Loads :
                /\ \/ l = Boot /\ BootJoin
                   \/ ReloadStore(l)
                /\ loaded' = LoadResult(l) /\ LoadResult(l)' = LoadResult(l)
                /\ loadPc'[l] = "done"
  <1>1. ASSUME NEW l \in Loads, (l = Boot /\ BootJoin) \/ ReloadStore(l)
        PROVE  /\ loaded' = LoadResult(l) /\ LoadResult(l)' = LoadResult(l)
               /\ loadPc'[l] = "done"
    BY <1>1 DEF GTypeOK, BootJoin, ReloadStore, LoadResult, GotoLoad
  <1>2. ASSUME NEW l \in Loads, LoadMoves(l) \/ LoadSpawn(l), ~(l = Boot /\ BootJoin)
        PROVE  loaded' = loaded
    BY <1>2 DEF LoadMoves, LoadStart, LoadReject, ReloadJoin, ReloadHangup, LoadSpawn
  <1>3. ASSUME NEW q \in Requests, RequestMoves(q) PROVE loaded' = loaded
    BY <1>3, RequestMovesOnlyItself
  <1>4. OthersMove => loaded' = loaded
    BY OthersMoveNoGuard
  <1> QED BY <1>1, <1>2, <1>3, <1>4, GNextCases

\* Every step keeps Published.
LEMMA GNextKeepsPublished ==
    ASSUME GTypeOK, LoadTasks, Published, [GNext]_vars
    PROVE  Published'
  <1>1. CASE loaded' = loaded
    BY <1>1, DoneStays DEF Published, LoadResult
  <1>2. CASE loaded' # loaded
    BY <1>2, WhoLoads DEF Published
  <1> QED BY <1>1, <1>2

\* Every step keeps LoadsAgree: a load finds in the file what it then builds.
LEMMA GNextKeepsLoadsAgree ==
    ASSUME GTypeOK, LoadTasks, LoadsAgree, [GNext]_vars
    PROVE  LoadsAgree'
  <1>0. /\ loadPc \in [Loads -> LoadPoints] /\ loadDevs \in [Loads -> SUBSET Devices]
        /\ loadVer \in [Loads -> Versions \cup {0}] /\ file \in Versions
    BY DEF GTypeOK
  <1>1. ASSUME NEW l \in Loads, LoadMoves(l) \/ ReloadStore(l) PROVE LoadsAgree'
    <2>1. /\ UNCHANGED <<loadDevs, loadVer>>
          /\ \A k \in Loads \ {l} : loadPc'[k] = loadPc[k]
          /\ loadPc'[l] \in {"joining", "loadedWrite", "done"}
               => loadPc[l] \in {"joining", "loadedWrite"}
      BY <1>0, <1>1 DEF LoadMoves, LoadStart, LoadReject, ReloadJoin, ReloadHangup, BootJoin,
                  ReloadStore, GotoLoad
    <2> QED BY <2>1 DEF LoadsAgree
  <1>2. ASSUME NEW l \in Loads, LoadSpawn(l) PROVE LoadsAgree'
    <2>1. PICK addr \in [Names -> MaybeIp] :
            /\ \A n \in Names : addr[n] \in Resolve(Content[file][n], n)
            /\ loadDevs' = [loadDevs EXCEPT ![l] = Connectable(l, addr)]
      BY <1>2 DEF LoadSpawn
    <2>2. /\ Content[file] # Malformed
          /\ loadVer' = [loadVer EXCEPT ![l] = file]
          /\ loadPc' = [loadPc EXCEPT ![l] = "joining"]
      BY <1>2 DEF LoadSpawn, GotoLoad
    <2>3. Content[file] \in ConfigFile
      BY <1>0, <2>2, GatewayAssumption
    <2>4. \A n \in Names : /\ Content[file][n] \in IPs => addr[n] # NoIp
                           /\ Content[file][n] = NotListed => addr[n] = NoIp
      <3>1. NotListed \notin IPs /\ NoIp \notin IPs
        BY GatewayAssumption, CacheAssumption DEF MaybeIp
      <3>2. \A n \in Names :
              /\ Content[file][n] \in IPs
                   => Resolve(Content[file][n], n) = {Content[file][n]}
              /\ Content[file][n] = NotListed => Resolve(Content[file][n], n) = {NoIp}
        BY <3>1 DEF Resolve
      <3> QED BY <2>1, <3>1, <3>2
    <2>5. ASSUME NEW n \in Names
          PROVE  addr[n] # NoIp <=> \E d \in Connectable(l, addr) : NameOf[d] = n
      <3>1. PICK d \in Devices : LoadOf[d] = l /\ NameOf[d] = n
        BY GatewayAssumption
      <3> QED BY <3>1 DEF Connectable
    <2>6. Agree(file, Connectable(l, addr))
      BY <2>2, <2>4, <2>5 DEF Agree
    <2>7. loadVer'[l] = file /\ loadDevs'[l] = Connectable(l, addr)
      BY <1>0, <2>1, <2>2
    <2>8. \A k \in Loads \ {l} : /\ loadPc'[k] = loadPc[k] /\ loadVer'[k] = loadVer[k]
                                 /\ loadDevs'[k] = loadDevs[k]
      BY <1>0, <2>1, <2>2
    <2> QED BY <2>6, <2>7, <2>8 DEF LoadsAgree
  <1>3. ASSUME NEW q \in Requests, RequestMoves(q) PROVE LoadsAgree'
    BY <1>3, RequestMovesOnlyItself DEF LoadsAgree
  <1>4. CASE OthersMove
    BY <1>4, OthersMoveNoGuard DEF LoadsAgree
  <1> QED BY <1>1, <1>2, <1>3, <1>4, GNextCases

-----------------------------------------------------------------------------
(* What is called                                                          *)

\* Every step keeps BuiltDevices.
LEMMA GNextKeepsBuiltDevices ==
    ASSUME GTypeOK, SharedGuardsMatchControl, LoadTasks, DeviceWhileCalled, BuiltDevices,
           Published, [GNext]_vars
    PROVE  BuiltDevices'
  <1>0. /\ pc \in [Tasks -> Points] /\ dev \in [Tasks -> Devices \cup {NoDevice}]
        /\ TypeOK /\ loadDevs \in [Loads -> SUBSET Devices]
        /\ \A d \in Devices : LoadOf[d] \in Loads
    BY WhoIsWho DEF GTypeOK, TypeOK
  <1>1. ASSUME NEW l \in Loads, LoadMoves(l) \/ ReloadStore(l) PROVE BuiltDevices'
    <2>1. UNCHANGED <<dev, loadDevs, currentIp, client>>
      BY <1>1, LoadMovesCache DEF ReloadStore, devVars
    <2> QED BY <2>1 DEF BuiltDevices
  <1>2. ASSUME NEW l \in Loads, LoadSpawn(l) PROVE BuiltDevices'
    <2>1. PICK new \in SUBSET {d \in Devices : LoadOf[d] = l} :
            /\ loadDevs' = [loadDevs EXCEPT ![l] = new]
            /\ \A d \in Devices : /\ d \in new => currentIp'[d] \in IPs
                                  /\ d \notin new => currentIp'[d] = currentIp[d]
            /\ \A t \in Tasks : dev'[t] = IF t \in new THEN t ELSE dev[t]
      BY <1>2, SpawnEffect
    <2>2. loadDevs[l] = {} /\ client' = client
      BY <1>2 DEF LoadSpawn, LoadTasks
    <2>3. \A k \in Loads : loadDevs'[k] = IF k = l THEN new ELSE loadDevs[k]
      BY <1>0, <2>1
    <2>4. \A t \in Tasks : dev'[t] # NoDevice => dev'[t] \in loadDevs'[LoadOf[dev'[t]]]
      BY <1>0, <2>1, <2>2, <2>3 DEF BuiltDevices
    <2>5. ASSUME NEW k \in Loads, NEW d \in loadDevs'[k] PROVE currentIp'[d] # NoIp
      <3>1. CASE k = l
        BY <2>1, <2>3, <3>1, CacheAssumption
      <3>2. CASE k # l
        <4>1. d \in loadDevs[k] /\ d \in Devices /\ LoadOf[d] = k
          BY <1>0, <2>3, <2>5, <3>2 DEF LoadTasks
        <4> QED BY <2>1, <3>2, <4>1 DEF BuiltDevices
      <3> QED BY <3>1, <3>2
    <2>6. \A d \in Devices : client'[d] # NoIp => d \in loadDevs'[LoadOf[d]]
      BY <1>0, <2>2, <2>3 DEF BuiltDevices
    <2> QED BY <2>4, <2>5, <2>6 DEF BuiltDevices
  <1>3. ASSUME [Next]_devVars, loadDevs' = loadDevs,
               \A t \in Tasks : dev'[t] # NoDevice
                                  => dev'[t] \in loadDevs[LoadOf[dev'[t]]]
        PROVE  BuiltDevices'
    <2>1. \A d \in Devices : currentIp[d] # NoIp => currentIp'[d] # NoIp
      BY <1>0, <1>3, AddressesStay
    <2>2. ASSUME NEW d \in Devices, client'[d] # NoIp PROVE d \in loadDevs[LoadOf[d]]
      <3>1. ASSUME NEW t \in Tasks, TaskStep(t), client' # client
            PROVE  pc[t] = "funcNew" /\ client' = [client EXCEPT ![dev[t]] = target[t]]
        BY <1>0, <3>1, WhoChangesWhat
      <3>2. CASE client' = client
        BY <2>2, <3>2 DEF BuiltDevices
      <3>3. CASE client' # client
        <4>1. PICK t \in Tasks : TaskStep(t)
          BY <1>3, <3>3, NextCases, SweepTouches
        <4>2. client'[d] = client[d] \/ (dev[t] = d /\ dev[t] # NoDevice)
          BY <1>0, <3>1, <3>3, <4>1, DeviceAssumption DEF TypeOK
        <4> QED BY <2>2, <4>2 DEF BuiltDevices
      <3> QED BY <3>2, <3>3
    <2> QED BY <1>0, <1>3, <2>1, <2>2 DEF BuiltDevices
  <1>4. ASSUME NEW q \in Requests, RequestMoves(q) PROVE BuiltDevices'
    <2>1. \A d \in loaded.devices : d \in loadDevs[LoadOf[d]]
      BY DEF Published, LoadResult, LoadTasks
    <2>2. \A t \in Tasks : dev'[t] # NoDevice => dev'[t] \in loadDevs[LoadOf[dev'[t]]]
      BY <1>4, <2>1, RequestMovesOnlyItself DEF BuiltDevices
    <2> QED BY <1>3, <1>4, <2>2, RequestMovesOnlyItself, DeviceSide
  <1>5. CASE OthersMove
    <2>1. \A t \in Tasks : dev'[t] # NoDevice => dev'[t] \in loadDevs[LoadOf[dev'[t]]]
      BY <1>5, OthersMoveNoGuard DEF BuiltDevices
    <2> QED BY <1>3, <1>5, <2>1, OthersMoveNoGuard, DeviceSide
  <1> QED BY <1>1, <1>2, <1>4, <1>5, GNextCases

\* Every step keeps ServedFirst.
LEMMA GNextKeepsServedFirst ==
    ASSUME GTypeOK, SharedGuardsMatchControl, LoadTasks, ServedFirst, [GNext]_vars
    PROVE  ServedFirst'
  <1>0. Booted => Booted'
    BY DoneStays, WhoIsWho DEF Booted
  <1>1. ASSUME NEW l \in Loads, LoadMoves(l) \/ LoadSpawn(l) \/ ReloadStore(l)
        PROVE  ServedFirst'
    <2>1. \A q \in Requests : pc'[q] = pc[q]
      BY <1>1, LoadMovesCache, SpawnEffect, WhoIsWho DEF ReloadStore, devVars
    <2>2. /\ LockOK(loadedLock, LoadedUsers) /\ l \in LoadedUsers /\ LoadHas(l)
      BY SharedGuardsByUser, WhoIsWho
    <2>3. \/ loadedLock' = loadedLock \/ loadedLock' = Dequeue(loadedLock, l)
          \/ loadedLock.mode[l] = "none" /\ loadedLock' = Enqueue(loadedLock, l, "write")
      BY <1>1, <2>2 DEF LoadMoves, LoadStart, LoadReject, ReloadJoin, ReloadHangup, BootJoin,
                        LoadSpawn, ReloadStore, LoadHas
    <2>4. OthersUnaffected(loadedLock, loadedLock', LoadedUsers, l)
      BY <2>2, <2>3, LoadedLockMoves
    <2> QED BY <1>0, <2>1, <2>4, WhoIsWho DEF ServedFirst, Requested, OthersUnaffected
  <1>2. ASSUME NEW q \in Requests, RequestMoves(q) PROVE ServedFirst'
    <2>1. /\ OthersUnaffected(loadedLock, loadedLock', LoadedUsers, q)
          /\ \A r \in Requests \ {q} : pc'[r] = pc[r]
      BY <1>2, RequestOwnGuard
    <2>2. Booted
      <3>1. CASE RequestStart(q)
        BY <3>1 DEF RequestStart
      <3>2. CASE ~RequestStart(q)
        <4>1. pc[q] # "idle" \/ Requested(loadedLock, q)
          BY <1>2, <3>2 DEF RequestMoves, RequestStep, RequestDevice, RequestAnswer,
                            RequestReturn, RequestHangup, Return, DropCall, InCall
        <4> QED BY <4>1 DEF ServedFirst
      <3> QED BY <3>1, <3>2
    <2> QED BY <1>0, <2>2 DEF ServedFirst
  <1>3. CASE OthersMove
    BY <1>0, <1>3, OthersMoveNoGuard, WhoIsWho DEF ServedFirst
  <1> QED BY <1>1, <1>2, <1>3, GNextCases

\* Every step keeps RequestsUseLoadedDevices: a reload waits for the guards of the
\* requests that run, and the boot load ends before there are any.
LEMMA GNextKeepsRequestsUseLoadedDevices ==
    ASSUME GTypeOK, SharedGuardsMatchControl, LoadTasks, DeviceWhileCalled, ServedFirst,
           RequestsUseLoadedDevices, [GNext]_vars
    PROVE  RequestsUseLoadedDevices'
  <1>1. ASSUME NEW l \in Loads, LoadMoves(l) \/ LoadSpawn(l) \/ ReloadStore(l)
        PROVE  RequestsUseLoadedDevices'
    <2>1. \A q \in Requests : dev'[q] = dev[q]
      BY <1>1, LoadMovesCache, SpawnEffect, WhoIsWho DEF ReloadStore, devVars
    <2>2. CASE loaded' = loaded
      BY <2>1, <2>2 DEF RequestsUseLoadedDevices
    <2>3. CASE loaded' # loaded
      <3>1. PICK k \in Loads : (k = Boot /\ BootJoin) \/ ReloadStore(k)
        BY <2>3, WhoLoads
      <3>2. ASSUME NEW q \in Requests, dev[q] # NoDevice PROVE FALSE
        <4>1. pc[q] # "idle" /\ Holds(loadedLock, q) /\ Booted
          BY <3>2, WhoIsWho DEF DeviceWhileCalled, SharedGuardsMatchControl, ServedFirst
        <4>2. CASE BootJoin
          BY <4>1, <4>2 DEF BootJoin, Booted
        <4>3. CASE ReloadStore(k)
          <5>1. Holds(loadedLock, k) /\ loadedLock.mode[k] = "write"
            BY <4>3 DEF ReloadStore, SharedGuardsMatchControl
          <5>2. /\ LockOK(loadedLock, LoadedUsers)
                /\ q \in LoadedUsers /\ k \in LoadedUsers /\ q # k
            BY WhoIsWho DEF SharedGuardsMatchControl
          <5> QED BY <4>1, <5>1, <5>2, Exclusion
        <4> QED BY <3>1, <4>2, <4>3
      <3> QED BY <2>1, <3>2 DEF RequestsUseLoadedDevices
    <2> QED BY <2>2, <2>3
  <1>2. ASSUME NEW q \in Requests, RequestMoves(q) PROVE RequestsUseLoadedDevices'
    BY <1>2, RequestMovesOnlyItself, WhoIsWho DEF RequestsUseLoadedDevices
  <1>3. CASE OthersMove
    BY <1>3, OthersMoveNoGuard, WhoIsWho DEF RequestsUseLoadedDevices
  <1> QED BY <1>1, <1>2, <1>3, GNextCases

\* Every step keeps ConnectsOnce: a load's new objects have no connection.
LEMMA GNextKeepsConnectsOnce ==
    ASSUME GTypeOK, GuardsMatchControl, SharedGuardsMatchControl, ConnectsOnce, [GNext]_vars
    PROVE  ConnectsOnce'
  <1>1. ASSUME NEW l \in Loads, LoadMoves(l) PROVE ConnectsOnce'
    <2>1. UNCHANGED <<pc, dev, client>>
      BY <1>1, LoadMovesCache
    <2> QED BY <2>1 DEF ConnectsOnce, Establishing
  <1>2. ASSUME NEW l \in Loads, LoadSpawn(l) PROVE ConnectsOnce'
    <2>1. /\ client' = client
          /\ \A t \in Tasks : \/ pc'[t] = pc[t] /\ dev'[t] = dev[t]
                              \/ pc'[t] = "clientRead"
      BY <1>2, SpawnEffect DEF LoadSpawn
    <2> QED BY <2>1 DEF ConnectsOnce, Establishing
  <1>3. ASSUME [Next]_devVars PROVE ConnectsOnce'
    BY <1>3, NextKeepsConnectsOnce DEF Inv, GTypeOK
  <1> QED BY <1>1, <1>2, <1>3, GNextCases, DeviceSide

\* Every step keeps RefresherWrites.
LEMMA GNextKeepsRefresherWrites ==
    ASSUME GTypeOK, GuardsMatchControl, SharedGuardsMatchControl, RefresherWrites,
           [GNext]_vars
    PROVE  RefresherWrites'
  <1>1. ASSUME NEW l \in Loads, LoadMoves(l) PROVE RefresherWrites'
    <2>1. Refresher \in CacheUsers \ {l}
      BY WhoIsWho, DeviceAssumption
    <2> QED BY <1>1, <2>1, LoadMovesCache DEF RefresherWrites, OthersUnaffected
  <1>2. ASSUME NEW l \in Loads, LoadSpawn(l) PROVE RefresherWrites'
    BY <1>2 DEF LoadSpawn, RefresherWrites
  <1>3. ASSUME [Next]_devVars PROVE RefresherWrites'
    BY <1>3, DeviceCacheLock
  <1> QED BY <1>1, <1>2, <1>3, GNextCases, DeviceSide

-----------------------------------------------------------------------------
(* Theorems                                                                *)

\* The server starts in the invariant.
LEMMA GInitInv ==
    ASSUME GInit
    PROVE  GInv
  <1>1. /\ LockOK(NewLock(Tasks), Tasks) /\ LockOK(NewLock(CacheUsers), CacheUsers)
        /\ LockOK(NewLock(LoadedUsers), LoadedUsers)
    BY NewLockOK
  <1>2. /\ \A t \in Tasks : NewLock(Tasks).mode[t] = "none"
        /\ \A u \in CacheUsers : NewLock(CacheUsers).mode[u] = "none"
        /\ \A u \in LoadedUsers : NewLock(LoadedUsers).mode[u] = "none"
    BY DEF NewLock
  <1>3. \A t \in Tasks : /\ pc[t] = "idle" /\ dev[t] = NoDevice /\ ~InCall(t)
                         /\ ~Establishing(t)
                         /\ ClientMode(t) = "none" /\ CacheMode(t) = "none"
    BY DEF GInit, InCall, Establishing, ClientMode, CacheMode
  <1>4. GTypeOK
    <2>1. /\ NewLock(Tasks) \in LockType(Tasks) /\ NewLock(CacheUsers) \in LockType(CacheUsers)
          /\ NewLock(LoadedUsers) \in LockType(LoadedUsers)
      BY <1>1 DEF LockOK
    <2>2. TypeOK
      BY <2>1 DEF GInit, TypeOK, MaybeIp, Points
    <2> QED BY <2>1, <2>2, GatewayAssumption DEF GInit, GTypeOK, LoadPoints
  <1>5. GuardsMatchControl
    BY <1>1, <1>2, <1>3, DeviceAssumption DEF GInit, GuardsMatchControl
  <1>6. SharedGuardsMatchControl /\ RefresherWrites
    BY <1>1, <1>2, <1>3, WhoIsWho, DeviceAssumption
       DEF GInit, SharedGuardsMatchControl, RefresherWrites
  <1>7. ConnectsOnce /\ DeviceWhileCalled /\ RequestsUseLoadedDevices
    BY <1>3, WhoIsWho DEF ConnectsOnce, DeviceWhileCalled, RequestsUseLoadedDevices
  <1>8. LoadTasks /\ BuiltDevices /\ Published /\ LoadsAgree
    BY <1>3, WhoIsWho DEF GInit, LoadTasks, BuiltDevices, Published, LoadsAgree
  <1>9. ServedFirst
    BY <1>2, <1>3, WhoIsWho DEF GInit, ServedFirst, Requested
  <1> QED BY <1>4, <1>5, <1>6, <1>7, <1>8, <1>9 DEF GInv

\* Every step keeps the invariant.
LEMMA GNextInv ==
    ASSUME GInv, [GNext]_vars
    PROVE  GInv'
  <1> USE DEF GInv
  <1>1. GuardsMatchControl'
    BY GNextKeepsGuards
  <1>2. SharedGuardsMatchControl'
    BY <1>1, GNextKeepsSharedGuards
  <1>3. GTypeOK'
    BY <1>1, <1>2, GNextKeepsTypes
  <1>4. RefresherWrites' /\ ConnectsOnce' /\ LoadTasks' /\ DeviceWhileCalled'
    BY GNextKeepsRefresherWrites, GNextKeepsConnectsOnce, GNextKeepsLoadTasks,
       GNextKeepsDeviceWhileCalled
  <1>5. BuiltDevices' /\ ServedFirst' /\ Published' /\ LoadsAgree'
    BY GNextKeepsBuiltDevices, GNextKeepsServedFirst, GNextKeepsPublished,
       GNextKeepsLoadsAgree
  <1>6. RequestsUseLoadedDevices'
    BY GNextKeepsRequestsUseLoadedDevices
  <1> QED BY <1>1, <1>2, <1>3, <1>4, <1>5, <1>6

\* The invariant holds in every state the server reaches.
THEOREM GatewayInvariance == GSpec => []GInv
  <1>1. GInit => GInv
    BY GInitInv
  <1>2. GInv /\ [GNext]_vars => GInv'
    BY GNextInv
  <1> QED BY <1>1, <1>2, PTL DEF GSpec

\* Every variable of the server has its type.
THEOREM GatewayTypes == GSpec => []GTypeOK
  <1>1. GInv => GTypeOK
    BY DEF GInv
  <1> QED BY <1>1, GatewayInvariance, PTL

\* In the whole server too, no task leaks a guard of a device or of the cache, and
\* connecting tasks have an unconnected device to themselves.
THEOREM GatewayDeviceGuards == GSpec => [](GuardsMatchControl /\ ExclusiveUse /\ ConnectsOnce)
  <1>1. GInv => GuardsMatchControl /\ ExclusiveUse /\ ConnectsOnce
    BY GuardsGiveExclusiveUse DEF GInv
  <1> QED BY <1>1, GatewayInvariance, PTL

\* Loads and requests leak no guard of the two shared locks.
THEOREM GatewaySharedGuards == GSpec => []SharedGuardsMatchControl
  <1>1. GInv => SharedGuardsMatchControl
    BY DEF GInv
  <1> QED BY <1>1, GatewayInvariance, PTL

\* No reload swaps the devices under a request that runs.
THEOREM NoSwapUnderRequests == GSpec => []RequestsUseLoadedDevices
  <1>1. GInv => RequestsUseLoadedDevices
    BY DEF GInv
  <1> QED BY <1>1, GatewayInvariance, PTL

\* No task of any load is inside a device that has been published.
THEOREM PublishedAreSettled == GSpec => []PublishedDevicesSettled
  <1>1. GInv => PublishedDevicesSettled
    <2> SUFFICES ASSUME GInv, NEW d \in loaded.devices PROVE pc[d] \in {"ok", "failed"}
      BY DEF PublishedDevicesSettled
    <2>1. PICK l \in Loads : loadPc[l] = "done" /\ d \in loadDevs[l]
      BY DEF GInv, Published, LoadResult
    <2>2. LoadOf[d] = l /\ d \in Devices
      BY <2>1 DEF GInv, LoadTasks, GTypeOK
    <2>3. pc[d] # "idle" /\ ~InCall(d)
      BY <2>1, <2>2 DEF GInv, LoadTasks
    <2> QED BY <2>3 DEF InCall
  <1> QED BY <1>1, GatewayInvariance, PTL

\* A device that is called has an address: _establish_conn's branch for a device
\* without one is never taken.
THEOREM CalledHaveAddress == GSpec => []CalledDevicesHaveAddress
  <1>1. GInv => CalledDevicesHaveAddress
    <2> SUFFICES ASSUME GInv, NEW t \in Tasks, InCall(t) PROVE currentIp[dev[t]] # NoIp
      BY DEF CalledDevicesHaveAddress
    <2>1. dev[t] # NoDevice /\ dev[t] \in Devices
      BY DEF GInv, DeviceWhileCalled, InCall, GTypeOK, TypeOK
    <2>2. dev[t] \in loadDevs[LoadOf[dev[t]]] /\ LoadOf[dev[t]] \in Loads
      BY <2>1, WhoIsWho DEF GInv, BuiltDevices
    <2> QED BY <2>2 DEF GInv, BuiltDevices
  <1> QED BY <1>1, GatewayInvariance, PTL

\* What is published is one version of the config file, with the devices it lists.
THEOREM OneVersionPublished == GSpec => []ConfigAndDevicesAgree
  <1>1. GInv => ConfigAndDevicesAgree
    <2> SUFFICES ASSUME GInv, loaded.version # 0
                 PROVE  Agree(loaded.version, loaded.devices)
      BY DEF ConfigAndDevicesAgree, Agree
    <2>1. PICK l \in Loads : loadPc[l] = "done" /\ loaded = LoadResult(l)
      BY DEF GInv, Published
    <2> QED BY <2>1 DEF GInv, LoadsAgree, LoadResult
  <1> QED BY <1>1, GatewayInvariance, PTL

\* A stored connection stays, reloads included: a load never touches an object that
\* another one has built.
THEOREM GatewayKeepsConnections ==
    GSpec => [][\A d \in Devices :
                  client[d] # NoIp => client'[d] = client[d] /\ currentIp'[d] = currentIp[d]
               ]_vars
  <1> DEFINE Kept == \A d \in Devices : client[d] # NoIp
                       => client'[d] = client[d] /\ currentIp'[d] = currentIp[d]
  <1>1. ASSUME GInv, [GNext]_vars PROVE Kept
    <2> SUFFICES ASSUME NEW d \in Devices, client[d] # NoIp
                 PROVE  client'[d] = client[d] /\ currentIp'[d] = currentIp[d]
      OBVIOUS
    <2>1. ASSUME NEW l \in Loads, LoadMoves(l) PROVE UNCHANGED <<client, currentIp>>
      BY <1>1, <2>1, LoadMovesCache DEF GInv
    <2>2. ASSUME NEW l \in Loads, LoadSpawn(l)
          PROVE  client'[d] = client[d] /\ currentIp'[d] = currentIp[d]
      <3>1. LoadOf[d] # l
        BY <1>1, <2>2 DEF GInv, BuiltDevices, LoadTasks, LoadSpawn
      <3>2. currentIp'[d] = currentIp[d]
        BY <1>1, <2>2, <3>1, SpawnEffect DEF GInv
      <3> QED BY <2>2, <3>2 DEF LoadSpawn
    <2>3. ASSUME [Next]_devVars
          PROVE  client'[d] = client[d] /\ currentIp'[d] = currentIp[d]
      <3>1. \A t \in Tasks : pc[t] \in {"funcNew", "cacheRead"} => client[dev[t]] = NoIp
        BY <1>1 DEF GInv, ConnectsOnce, Establishing
      <3>2. TypeOK
        BY <1>1 DEF GInv, GTypeOK
      <3> QED BY <2>3, <3>1, <3>2, NextCases, WhoChangesWhat, SweepTouches DEF TypeOK
    <2> QED BY <1>1, <2>1, <2>2, <2>3, GNextCases, DeviceSide DEF GInv
  <1> QED BY <1>1, GatewayInvariance, PTL DEF GSpec

\* A load one of whose tasks waits for the cache stays, and so do the task and the
\* cache, unless the client of the reload hangs up.
LEMMA WedgeStays ==
    ASSUME GInv, [GNext]_vars, NEW l \in Loads, Wedged(l)
    PROVE  /\ loadPc'[l] \in {"joining", "cancelled"}
           /\ l = Boot => loadPc'[l] = "joining"
           /\ loadPc'[l] = "joining" => Wedged(l)' /\ cache' = cache
  <1>1. PICK d \in loadDevs[l] : loadPc[l] = "joining" /\ pc[d] = "cacheWrite"
    BY DEF Wedged
  <1>2. /\ d \in Devices /\ LoadOf[d] = l /\ d \in Tasks /\ InCall(d) /\ d \notin Requests
        /\ l \in CacheUsers \ Tasks /\ l # Refresher /\ GTypeOK /\ TypeOK
    BY <1>1, WhoIsWho DEF GInv, LoadTasks, GTypeOK, InCall
  <1>3. /\ LockOK(cacheLock, CacheUsers) /\ Holds(cacheLock, l)
        /\ cacheLock.mode[d] = "write"
    BY <1>1, <1>2 DEF GInv, SharedGuardsMatchControl, GuardsMatchControl, CacheMode
  <1>4. \A u \in CacheUsers : u # l /\ cacheLock.mode[u] = "write" => ~Holds(cacheLock, u)
    BY <1>2, <1>3, Exclusion
  <1>5. loadPc'[l] \in {"joining", "cancelled"} /\ (l = Boot => loadPc'[l] = "joining")
        /\ loadDevs'[l] = loadDevs[l]
    <2>0. /\ loadPc \in [Loads -> LoadPoints] /\ loadDevs \in [Loads -> SUBSET Devices]
          /\ ~AllJoined(l)
      BY <1>1, <1>2 DEF GTypeOK, AllJoined
    <2>1. ASSUME NEW k \in Loads, LoadMoves(k) \/ LoadSpawn(k) \/ ReloadStore(k)
          PROVE  /\ loadPc'[l] \in {"joining", "cancelled"}
                 /\ l = Boot => loadPc'[l] = "joining"
                 /\ loadDevs'[l] = loadDevs[l]
      BY <1>1, <2>0, <2>1
         DEF LoadMoves, LoadStart, LoadReject, ReloadJoin, ReloadHangup, BootJoin,
             LoadSpawn, ReloadStore, GotoLoad
    <2>2. ASSUME NEW q \in Requests, RequestMoves(q) PROVE UNCHANGED <<loadPc, loadDevs>>
      BY <1>2, <2>2, RequestMovesOnlyItself
    <2>3. OthersMove => UNCHANGED <<loadPc, loadDevs>>
      BY <1>2, OthersMoveNoGuard
    <2> QED BY <1>1, <2>1, <2>2, <2>3, GNextCases
  <1>6. pc'[d] = "cacheWrite"
    <2>1. ASSUME NEW k \in Loads, LoadMoves(k) \/ ReloadStore(k) PROVE pc' = pc
      BY <2>1, LoadMovesCache DEF GInv, ReloadStore, devVars
    <2>2. ASSUME NEW k \in Loads, LoadSpawn(k) PROVE pc'[d] = pc[d]
      <3>1. k # l
        BY <1>1, <2>2 DEF LoadSpawn
      <3> QED BY <1>2, <2>2, <3>1, SpawnEffect
    <2>3. ASSUME NEW q \in Requests, RequestMoves(q) PROVE pc'[d] = pc[d]
      BY <1>2, <2>3, RequestMovesOnlyItself
    <2>4. ASSUME NEW c \in Devices, AbortTask(c) PROVE pc'[d] = pc[d]
      BY <1>1, <1>2, <2>4 DEF AbortTask, DropCall, Goto, TypeOK
    <2>5. ASSUME NEW t \in Tasks, DeviceStep(t) PROVE pc'[d] = pc[d]
      <3>1. CASE t = d
        <4>1. CacheMerge(d)
          BY <1>1, <2>5, <3>1
             DEF DeviceStep, CallStep, ClientReadHit, ClientReadMiss, ClientWriteHit,
                 FuncDone, FuncNewDone, EstablishStart, ConnectOk, FirstAttemptFails,
                 DiscoverOk, DiscoverErr, LookupHit, LookupMiss, RetryFails, FallbackFails
        <4>2. Holds(cacheLock, d) /\ d \in CacheUsers /\ d # l
          BY <1>2, <4>1, DeviceAssumption DEF CacheMerge
        <4> QED BY <1>3, <1>4, <4>2
      <3>2. CASE t # d
        BY <1>2, <2>5, <3>2, OnlyOwnLocals DEF DeviceStep, TaskStep
      <3> QED BY <3>1, <3>2
    <2>6. ASSUME Sweep \/ EditFile \/ UNCHANGED vars PROVE pc' = pc
      BY <2>6 DEF Sweep, SweepDone, SweepStore, EditFile, vars, devVars
    <2>7. OthersMove => pc'[d] = pc[d] \/ pc'[d] = "cacheWrite"
      BY <2>4, <2>5, <2>6 DEF OthersMove
    <2>8. pc'[d] = pc[d] \/ pc'[d] = "cacheWrite"
      BY <2>1, <2>2, <2>3, <2>7, GNextCases
    <2> QED BY <1>1, <2>8
  <1>7. cache' = cache
    <2>1. ASSUME NEW k \in Loads, LoadMoves(k) \/ LoadSpawn(k) PROVE cache' = cache
      BY <2>1, LoadMovesCache DEF GInv, LoadSpawn
    <2>2. ASSUME [Next]_devVars, cache' # cache PROVE FALSE
      <3>1. \A t \in Tasks : ~CacheMerge(t)
        <4> SUFFICES ASSUME NEW t \in Tasks, CacheMerge(t) PROVE FALSE
          OBVIOUS
        <4>1. cacheLock.mode[t] = "write" /\ Holds(cacheLock, t)
          BY DEF CacheMerge, GInv, GuardsMatchControl, CacheMode
        <4>2. t \in CacheUsers /\ t # l
          BY <1>2, DeviceAssumption
        <4> QED BY <1>4, <4>1, <4>2
      <3>2. ~SweepStore
        <4> SUFFICES ASSUME SweepStore PROVE FALSE
          OBVIOUS
        <4>1. cacheLock.mode[Refresher] = "write" /\ Holds(cacheLock, Refresher)
          BY DEF SweepStore, Requested, GInv, RefresherWrites
        <4>2. Refresher \in CacheUsers /\ Refresher # l
          BY <1>2, DeviceAssumption
        <4> QED BY <1>4, <4>1, <4>2
      <3>3. ASSUME NEW t \in Tasks, TaskStep(t) PROVE cache' = cache
        BY <3>1, <3>3 DEF TaskStep, WithClient, RefreshSession, CallStep, ClientReadHit,
           ClientReadMiss, ClientWriteHit, FuncDone, FuncNewDone, EstablishStart,
           ConnectOk, FirstAttemptFails, DiscoverOk, DiscoverErr, LookupHit, LookupMiss,
           RetryFails, FallbackFails, DropCall, Return
      <3>4. SweepDone \/ UNCHANGED devVars => cache' = cache
        BY DEF SweepDone, devVars
      <3> QED BY <2>2, <3>2, <3>3, <3>4, NextCases
    <2> QED BY <1>2, <2>1, <2>2, GNextCases, DeviceSide
  <1> QED BY <1>1, <1>5, <1>6, <1>7 DEF Wedged

\* The points of the boot load.
LEMMA BootMoves ==
    ASSUME GTypeOK, [GNext]_vars, loadPc[Boot] # "loadedWrite"
    PROVE  \/ loadPc'[Boot] = loadPc[Boot]
           \/ loadPc[Boot] = "idle" /\ loadPc'[Boot] = "cacheRead"
           \/ loadPc[Boot] = "cacheRead" /\ loadPc'[Boot] \in {"error", "joining"}
           \/ loadPc[Boot] = "joining" /\ loadPc'[Boot] = "done"
  <1>0. loadPc \in [Loads -> LoadPoints] /\ Boot \in Loads
    BY WhoIsWho DEF GTypeOK
  <1>1. ASSUME NEW l \in Loads, LoadMoves(l)
        PROVE  \/ l # Boot /\ loadPc'[Boot] = loadPc[Boot]
               \/ loadPc[Boot] = "idle" /\ loadPc'[Boot] = "cacheRead"
               \/ loadPc[Boot] = "cacheRead" /\ loadPc'[Boot] = "error"
               \/ loadPc[Boot] = "joining" /\ loadPc'[Boot] = "done"
    BY <1>0, <1>1
       DEF LoadMoves, LoadStart, LoadReject, ReloadJoin, ReloadHangup, BootJoin, GotoLoad
  <1>2. ASSUME NEW l \in Loads, LoadSpawn(l)
        PROVE  \/ loadPc'[Boot] = loadPc[Boot]
               \/ loadPc[Boot] = "cacheRead" /\ loadPc'[Boot] = "joining"
    BY <1>0, <1>2 DEF LoadSpawn, GotoLoad
  <1>3. ASSUME NEW l \in Loads, ReloadStore(l) PROVE loadPc'[Boot] = loadPc[Boot]
    BY <1>0, <1>3 DEF ReloadStore, GotoLoad
  <1>4. ASSUME NEW q \in Requests, RequestMoves(q) PROVE loadPc' = loadPc
    BY <1>4, RequestMovesOnlyItself
  <1>5. OthersMove => loadPc' = loadPc
    BY OthersMoveNoGuard
  <1> QED BY <1>1, <1>2, <1>3, <1>4, <1>5, GNextCases

\* The boot load with its tasks and locks implements module BootLoad.
LEMMA BootStep ==
    ASSUME GInv, [GNext]_vars, loadPc[Boot] # "loadedWrite"
    PROVE  loadPc'[Boot] # "loadedWrite" /\ [BootPart!Next]_BootState
  <1> DEFINE from == loadPc[Boot]
             to == loadPc'[Boot]
  <1>0. GTypeOK /\ Boot \in Loads
    BY WhoIsWho DEF GInv
  <1>1. \/ to = from
        \/ from = "idle" /\ to = "cacheRead"
        \/ from = "cacheRead" /\ to \in {"error", "joining"}
        \/ from = "joining" /\ to = "done"
    BY <1>0, BootMoves
  <1>2. Wedged(Boot) => to = "joining" /\ Wedged(Boot)'
    BY <1>0, WedgeStays
  <1>3. /\ Wedged(Boot) => from = "joining"
        /\ Wedged(Boot)' => to = "joining"
    BY DEF Wedged
  <1> DEFINE States(pc0, wedged, state) ==
        /\ wedged => state = "waiting"
        /\ pc0 \in {"cacheRead", "joining"} /\ ~wedged => state = "loading"
        /\ pc0 = "done" => state = "done"
        /\ pc0 \notin {"cacheRead", "joining", "done"} => state = "off"
  <1>4. States(from, Wedged(Boot), BootState)
    BY <1>3 DEF BootState, Booted
  <1>5. States(to, Wedged(Boot)', BootState')
    BY <1>3 DEF BootState, Booted
  <1>6. CASE Wedged(Boot)
    BY <1>2, <1>4, <1>5, <1>6
  <1>7. CASE ~Wedged(Boot) /\ from \in {"cacheRead", "joining"}
    <2>1. BootState = "loading" /\ BootState' \in {"loading", "waiting", "done", "off"}
      BY <1>1, <1>4, <1>5, <1>7
    <2> QED BY <1>1, <1>7, <2>1
            DEF BootPart!Next, BootPart!Searched, BootPart!Finish, BootPart!Stop
  <1>8. CASE from = "idle"
    <2>1. BootState = "off" /\ BootState' \in {"off", "loading"}
      BY <1>1, <1>3, <1>4, <1>5, <1>8
    <2> QED BY <1>1, <1>8, <2>1 DEF BootPart!Next, BootPart!Begin
  <1>9. CASE from \notin {"idle", "cacheRead", "joining"}
    BY <1>1, <1>3, <1>4, <1>5, <1>9
  <1> QED BY <1>1, <1>6, <1>7, <1>8, <1>9

-----------------------------------------------------------------------------
(* Theorems about the boot load and the deadlock.                          *)

\* A load one of whose devices waits to write the cache never gets on: the task waits
\* for the load's read guard, the load for the task, and no other writer gets in.
THEOREM DeadlockIsForGood == GSpec => WedgedForGood
  <1> DEFINE Stuck == \A l \in Loads :
                        Wedged(l) => /\ loadPc'[l] \in {"joining", "cancelled"}
                                     /\ l = Boot => loadPc'[l] = "joining"
                                     /\ loadPc'[l] = "joining" => Wedged(l)' /\ cache' = cache
  <1>1. ASSUME GInv, [GNext]_vars PROVE Stuck
    BY <1>1, WedgeStays
  <1> QED BY <1>1, GatewayInvariance, PTL DEF GSpec, WedgedForGood

\* The boot load, its tasks and the locks they share implement module BootLoad, of
\* which the one step in module Startup is the other implementation.
THEOREM GatewayImplementsBootLoad == GSpec => BootIsBootLoad
  <1>1. GInit => loadPc[Boot] # "loadedWrite" /\ BootPart!Init
    <2> SUFFICES ASSUME GInit PROVE loadPc[Boot] = "idle"
      BY DEF BootState, Booted, BootPart!Init
    <2> QED BY WhoIsWho DEF GInit
  <1>2. GInv /\ loadPc[Boot] # "loadedWrite" /\ [GNext]_vars
          => (loadPc[Boot] # "loadedWrite")' /\ [BootPart!Next]_BootState
    BY BootStep
  <1> QED BY <1>1, <1>2, GatewayInvariance, PTL DEF GSpec, BootIsBootLoad, BootPart!Spec
=============================================================================
