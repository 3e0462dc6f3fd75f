-------------------------- MODULE TapoDeviceProofs --------------------------
(***************************************************************************)
(* Proofs about TapoDevice, for any sets of tasks, devices, names and      *)
(* addresses.  The inductive invariant is Inv: types, the guards every     *)
(* task has at its place in the code (GuardsMatchControl), and that a task *)
(* connects only while there is no connection (ConnectsOnce).  Exclusive   *)
(* use of a device follows from GuardsMatchControl and the exclusion the   *)
(* lock provides; the rest follows from Inv.                               *)
(***************************************************************************)
EXTENDS TapoDevice, RwLockProofs

Inv == TypeOK /\ GuardsMatchControl /\ ConnectsOnce

-----------------------------------------------------------------------------
(* The device cache.                                                       *)

\* Merging two caches gives a cache.
LEMMA MergeInType ==
    ASSUME NEW c \in Cache, NEW fresh \in Cache
    PROVE  MergeIn(c, fresh) \in Cache
  BY DEF MergeIn, Cache

\* Looking a name up gives an address or none.
LEMMA LookupType ==
    ASSUME NEW c \in Cache, NEW n
    PROVE  Lookup(c, n) \subseteq MaybeIp
  <1>1. \A i \in Ids : c[i] # Absent => c[i].ip \in IPs
    BY DEF Cache, Row
  <1> QED BY <1>1 DEF Lookup, AddressesOf, MaybeIp

-----------------------------------------------------------------------------
(* GuardsMatchControl                                                      *)

\* A lock that did not change has not changed for anybody.
LEMMA Unaffected ==
    ASSUME NEW L, NEW U, NEW u
    PROVE  OthersUnaffected(L, L, U, u)
  BY DEF OthersUnaffected

\* To show that a step of task t on device d preserves GuardsMatchControl it is
\* enough to look at t, at d's lock and at the cache lock.
LEMMA OneTaskMoves ==
    ASSUME GuardsMatchControl,
           NEW t \in Tasks, NEW d \in Devices,
           \A u \in Tasks \ {t} : pc'[u] = pc[u] /\ dev'[u] = dev[u],
           dev[t] = d \/ pc[t] = "idle",
           dev'[t] = d \/ dev'[t] = NoDevice,
           \A c \in Devices \ {d} : clientLock'[c] = clientLock[c],
           LockOK(clientLock'[d], Tasks),
           OthersUnaffected(clientLock[d], clientLock'[d], Tasks, t),
           clientLock'[d].mode[t] = ClientMode(t)',
           InCall(t)' => dev'[t] = d,
           InCall(t)' /\ pc'[t] \notin {"clientRead", "clientWrite"}
             => Holds(clientLock'[d], t),
           LockOK(cacheLock', CacheUsers),
           OthersUnaffected(cacheLock, cacheLock', CacheUsers, t),
           cacheLock'.mode[t] = CacheMode(t)'
    PROVE  GuardsMatchControl'
  <1>1. \A c \in Devices : LockOK(clientLock'[c], Tasks)
    BY DEF GuardsMatchControl
  <1>2. \A u \in Tasks : InCall(u)' => dev'[u] \in Devices
    BY DEF GuardsMatchControl, InCall
  <1>3. \A u \in Tasks, c \in Devices :
          clientLock'[c].mode[u] = IF c = dev'[u] THEN ClientMode(u)' ELSE "none"
    <2> SUFFICES ASSUME NEW u \in Tasks, NEW c \in Devices
                 PROVE  clientLock'[c].mode[u] =
                          IF c = dev'[u] THEN ClientMode(u)' ELSE "none"
      OBVIOUS
    <2>1. clientLock[c].mode[u] = IF c = dev[u] THEN ClientMode(u) ELSE "none"
      BY DEF GuardsMatchControl
    <2>2. CASE u # t
      <3>1. clientLock'[c].mode[u] = clientLock[c].mode[u]
        BY <2>2 DEF OthersUnaffected
      <3>2. ClientMode(u)' = ClientMode(u)
        BY <2>2 DEF ClientMode
      <3> QED BY <2>1, <2>2, <3>1, <3>2
    <2>3. CASE u = t /\ c # d
      <3>1. pc[t] = "idle" => ClientMode(t) = "none"
        BY DEF ClientMode
      <3> QED BY <2>1, <2>3, <3>1, DeviceAssumption
    <2>4. CASE u = t /\ c = d
      <3>1. ~InCall(t)' => ClientMode(t)' = "none"
        BY DEF InCall, ClientMode
      <3> QED BY <2>4, <3>1, DeviceAssumption
    <2> QED BY <2>2, <2>3, <2>4
  <1>4. \A u \in Tasks : cacheLock'.mode[u] = CacheMode(u)'
    <2> SUFFICES ASSUME NEW u \in Tasks PROVE cacheLock'.mode[u] = CacheMode(u)'
      OBVIOUS
    <2>1. CASE u # t
      <3>1. cacheLock'.mode[u] = cacheLock.mode[u]
        BY <2>1, DeviceAssumption DEF OthersUnaffected
      <3>2. CacheMode(u)' = CacheMode(u)
        BY <2>1 DEF CacheMode
      <3> QED BY <3>1, <3>2 DEF GuardsMatchControl
    <2> QED BY <2>1
  <1>5. \A u \in Tasks :
          InCall(u)' /\ pc'[u] \notin {"clientRead", "clientWrite"}
            => HoldsClient(u)'
    <2> SUFFICES ASSUME NEW u \in Tasks, InCall(u)',
                        pc'[u] \notin {"clientRead", "clientWrite"}
                 PROVE  Holds(clientLock'[dev'[u]], u)
      BY DEF HoldsClient
    <2>1. CASE u # t
      <3>1. dev[u] \in Devices /\ Holds(clientLock[dev[u]], u) /\ dev'[u] = dev[u]
        BY <2>1 DEF GuardsMatchControl, InCall, HoldsClient
      <3> QED BY <2>1, <3>1 DEF OthersUnaffected
    <2> QED BY <2>1
  <1> QED BY <1>1, <1>2, <1>3, <1>4, <1>5 DEF GuardsMatchControl

\* The same for a step inside a call that leaves the guard on `client' alone ...
LEMMA WithinCall ==
    ASSUME TypeOK, GuardsMatchControl,
           NEW t \in Tasks, InCall(t), HoldsClient(t),
           NEW p \in Points, Goto(t, p),
           ClientMode(t)' = ClientMode(t),
           UNCHANGED <<clientLock, dev>>,
           LockOK(cacheLock', CacheUsers),
           OthersUnaffected(cacheLock, cacheLock', CacheUsers, t),
           cacheLock'.mode[t] = CacheMode(t)'
    PROVE  GuardsMatchControl'
  <1> DEFINE d == dev[t]
  <1>1. d \in Devices
    BY DEF GuardsMatchControl
  <1>2. \A u \in Tasks \ {t} : pc'[u] = pc[u] /\ dev'[u] = dev[u]
    BY DEF Goto, TypeOK
  <1>3. dev'[t] = d /\ \A c \in Devices : clientLock'[c] = clientLock[c]
    OBVIOUS
  <1>4. LockOK(clientLock'[d], Tasks)
    BY <1>1, <1>3 DEF GuardsMatchControl
  <1>5. OthersUnaffected(clientLock[d], clientLock'[d], Tasks, t)
    BY <1>1, <1>3, Unaffected
  <1>6. clientLock'[d].mode[t] = ClientMode(t)'
    BY <1>1, <1>3 DEF GuardsMatchControl
  <1>7. Holds(clientLock'[d], t)
    BY <1>1, <1>3 DEF HoldsClient
  <1> HIDE DEF d
  <1> QED BY <1>1, <1>2, <1>3, <1>4, <1>5, <1>6, <1>7, OneTaskMoves DEF d

\* ... and for one that ends the call and drops that guard.
LEMMA LeavesCall ==
    ASSUME TypeOK, GuardsMatchControl,
           NEW t \in Tasks, InCall(t),
           NEW p \in {"idle", "ok", "failed"}, Goto(t, p),
           ClientRelease(t),
           NEW e \in {dev[t], NoDevice}, dev' = [dev EXCEPT ![t] = e],
           LockOK(cacheLock', CacheUsers),
           OthersUnaffected(cacheLock, cacheLock', CacheUsers, t),
           cacheLock'.mode[t] = "none"
    PROVE  GuardsMatchControl'
  <1> DEFINE d == dev[t]
  <1>1. d \in Devices /\ LockOK(clientLock[d], Tasks)
    BY DEF GuardsMatchControl
  <1>2. \A u \in Tasks \ {t} : pc'[u] = pc[u] /\ dev'[u] = dev[u]
    BY DEF Goto, TypeOK
  <1>3. pc'[t] = p /\ dev'[t] = e
    BY DEF Goto, TypeOK
  <1>4. ~InCall(t)' /\ ClientMode(t)' = "none" /\ CacheMode(t)' = "none"
    BY <1>3 DEF InCall, ClientMode, CacheMode
  <1>5. /\ clientLock'[d] = Dequeue(clientLock[d], t)
        /\ \A c \in Devices \ {d} : clientLock'[c] = clientLock[c]
    BY <1>1 DEF ClientRelease, TypeOK
  <1>6. /\ LockOK(clientLock'[d], Tasks)
        /\ OthersUnaffected(clientLock[d], clientLock'[d], Tasks, t)
        /\ clientLock'[d].mode[t] = ClientMode(t)'
    BY <1>1, <1>4, <1>5, DequeueStep
  <1> HIDE DEF d
  <1> QED BY <1>1, <1>2, <1>3, <1>4, <1>5, <1>6, OneTaskMoves DEF d

\* A call begins: an idle task queues for one half of the lock of its device.
LEMMA EntersCall ==
    ASSUME TypeOK, GuardsMatchControl,
           NEW t \in Tasks, NEW d \in Devices, WithClient(t, d) \/ RefreshSession(t, d)
    PROVE  GuardsMatchControl'
  <1>1. PICK m \in {"read", "write"} :
          /\ pc[t] = "idle"
          /\ Goto(t, IF m = "read" THEN "clientRead" ELSE "clientWrite")
          /\ dev' = [dev EXCEPT ![t] = d]
          /\ ClientRequest(d, t, m)
          /\ cacheLock' = cacheLock
    BY DEF WithClient, RefreshSession
  <1>2. \A u \in Tasks \ {t} : pc'[u] = pc[u] /\ dev'[u] = dev[u]
    BY <1>1 DEF Goto, TypeOK
  <1>3. /\ pc'[t] = IF m = "read" THEN "clientRead" ELSE "clientWrite"
        /\ dev'[t] = d
    BY <1>1 DEF Goto, TypeOK
  <1>4. ClientMode(t)' = m /\ CacheMode(t)' = "none" /\ CacheMode(t) = "none"
    BY <1>1, <1>3 DEF ClientMode, CacheMode
  <1>5. LockOK(clientLock[d], Tasks) /\ clientLock[d].mode[t] = "none"
    BY <1>1 DEF GuardsMatchControl, ClientMode
  <1>6. /\ clientLock'[d] = Enqueue(clientLock[d], t, m)
        /\ \A c \in Devices \ {d} : clientLock'[c] = clientLock[c]
    BY <1>1 DEF ClientRequest, TypeOK
  <1>7. m \in Modes /\ m # "none"
    BY DEF Modes
  <1>8. /\ LockOK(clientLock'[d], Tasks)
        /\ OthersUnaffected(clientLock[d], clientLock'[d], Tasks, t)
        /\ clientLock'[d].mode[t] = ClientMode(t)'
    BY <1>4, <1>5, <1>6, <1>7, EnqueueStep
  <1>9. /\ LockOK(cacheLock', CacheUsers)
        /\ OthersUnaffected(cacheLock, cacheLock', CacheUsers, t)
        /\ cacheLock'.mode[t] = CacheMode(t)'
    BY <1>1, <1>4, Unaffected DEF GuardsMatchControl
  <1> QED BY <1>1, <1>2, <1>3, <1>6, <1>8, <1>9, OneTaskMoves

\* with_client gives up the read half and queues for the write half.
LEMMA ReadMissKeepsGuards ==
    ASSUME TypeOK, GuardsMatchControl, NEW t \in Tasks, ClientReadMiss(t)
    PROVE  GuardsMatchControl'
  <1> DEFINE d == dev[t]
  <1>1. d \in Devices /\ LockOK(clientLock[d], Tasks)
    BY DEF GuardsMatchControl, ClientReadMiss, InCall
  <1>2. /\ \A u \in Tasks \ {t} : pc'[u] = pc[u] /\ dev'[u] = dev[u]
        /\ pc'[t] = "clientWrite" /\ dev'[t] = d
    BY DEF ClientReadMiss, Goto, TypeOK
  <1>3. ClientMode(t)' = "write" /\ CacheMode(t)' = CacheMode(t)
    BY <1>2 DEF ClientMode, CacheMode, ClientReadMiss
  <1>4. /\ clientLock'[d] = Requeue(clientLock[d], t, "write")
        /\ \A c \in Devices \ {d} : clientLock'[c] = clientLock[c]
    BY <1>1 DEF ClientReadMiss, TypeOK
  <1>5. "write" \in Modes /\ "write" # "none"
    BY DEF Modes
  <1>6. /\ LockOK(clientLock'[d], Tasks)
        /\ OthersUnaffected(clientLock[d], clientLock'[d], Tasks, t)
        /\ clientLock'[d].mode[t] = ClientMode(t)'
    BY <1>1, <1>3, <1>4, <1>5, RequeueStep
  <1>7. /\ LockOK(cacheLock', CacheUsers)
        /\ OthersUnaffected(cacheLock, cacheLock', CacheUsers, t)
        /\ cacheLock'.mode[t] = CacheMode(t)'
    BY <1>3, Unaffected DEF GuardsMatchControl, ClientReadMiss
  <1> HIDE DEF d
  <1> QED BY <1>1, <1>2, <1>4, <1>6, <1>7, OneTaskMoves DEF d

\* The caller takes the result of a call that holds nothing any more.
LEMMA ReturnKeepsGuards ==
    ASSUME TypeOK, GuardsMatchControl, NEW t \in Tasks, Return(t)
    PROVE  GuardsMatchControl'
  <1>1. /\ \A u \in Tasks \ {t} : pc'[u] = pc[u] /\ dev'[u] = dev[u]
        /\ pc'[t] = "idle" /\ dev'[t] = NoDevice
        /\ UNCHANGED <<clientLock, cacheLock>>
    BY DEF Return, Goto, TypeOK
  <1>2. \A u \in Tasks :
          /\ InCall(u)' => u # t
          /\ CacheMode(u)' = CacheMode(u) /\ ClientMode(u)' = ClientMode(u)
    BY <1>1 DEF Return, InCall, CacheMode, ClientMode
  <1>3. ClientMode(t) = "none"
    BY DEF Return, ClientMode
  <1>4. \A u \in Tasks : InCall(u)' => InCall(u) /\ (HoldsClient(u) => HoldsClient(u)')
    BY <1>1, <1>2 DEF InCall, HoldsClient
  <1>5. \A u \in Tasks, c \in Devices :
          clientLock'[c].mode[u] = IF c = dev'[u] THEN ClientMode(u)' ELSE "none"
    BY <1>1, <1>2, <1>3 DEF GuardsMatchControl
  <1> QED BY <1>1, <1>2, <1>4, <1>5 DEF GuardsMatchControl

\* The refresher queues for the cache and leaves it; tasks keep what they have.
LEMMA SweepKeepsGuards ==
    ASSUME TypeOK, GuardsMatchControl, SweepDone \/ SweepStore
    PROVE  GuardsMatchControl'
  <1>1. LockOK(cacheLock, CacheUsers) /\ Refresher \in CacheUsers
    BY DeviceAssumption DEF GuardsMatchControl
  <1>2. /\ LockOK(cacheLock', CacheUsers)
        /\ OthersUnaffected(cacheLock, cacheLock', CacheUsers, Refresher)
    <2>1. CASE SweepDone
      <3>1. cacheLock.mode[Refresher] = "none" /\ cacheLock' = Enqueue(cacheLock, Refresher, "write")
        BY <2>1 DEF SweepDone, Requested
      <3>2. "write" \in Modes /\ "write" # "none"
        BY DEF Modes
      <3> QED BY <1>1, <3>1, <3>2, EnqueueStep
    <2>2. CASE SweepStore
      <3>1. cacheLock' = Dequeue(cacheLock, Refresher)
        BY <2>2 DEF SweepStore
      <3> QED BY <1>1, <3>1, DequeueStep
    <2> QED BY <2>1, <2>2
  <1>3. UNCHANGED <<clientLock, pc, dev>>
    BY DEF SweepDone, SweepStore
  <1>4. \A u \in Tasks : /\ InCall(u)' = InCall(u)
                         /\ ClientMode(u)' = ClientMode(u)
                         /\ CacheMode(u)' = CacheMode(u)
                         /\ HoldsClient(u)' = HoldsClient(u)
    BY <1>3 DEF InCall, ClientMode, CacheMode, HoldsClient
  <1>5. \A u \in Tasks : cacheLock'.mode[u] = cacheLock.mode[u]
    BY <1>2, DeviceAssumption DEF OthersUnaffected
  <1> QED BY <1>2, <1>3, <1>4, <1>5 DEF GuardsMatchControl

\* What happens after the retry keeps the guards, whatever the cache lock does.
LEMMA FallBackKeepsGuards ==
    ASSUME TypeOK, GuardsMatchControl,
           NEW t \in Tasks, pc[t] \in {"cacheRead", "connect2"}, HoldsClient(t),
           NEW ip, FallBack(t, ip), dev' = dev,
           LockOK(cacheLock', CacheUsers),
           OthersUnaffected(cacheLock, cacheLock', CacheUsers, t),
           cacheLock'.mode[t] = "none"
    PROVE  GuardsMatchControl'
  <1>1. InCall(t) /\ ClientMode(t) = "write" /\ dev' = [dev EXCEPT ![t] = dev[t]]
    BY DEF InCall, ClientMode, TypeOK
  <1>2. CASE initialIp[t] # NoIp /\ initialIp[t] # ip
    <2>1. Goto(t, "connect3") /\ UNCHANGED <<clientLock, dev>>
      BY <1>2 DEF FallBack
    <2>2. pc'[t] = "connect3"
      BY <2>1 DEF Goto, TypeOK
    <2>3. ClientMode(t)' = ClientMode(t) /\ CacheMode(t)' = "none"
      BY <1>1, <2>2 DEF ClientMode, CacheMode
    <2>4. "connect3" \in Points
      BY DEF Points
    <2> QED BY <1>1, <2>1, <2>3, <2>4, WithinCall
  <1>3. CASE ~(initialIp[t] # NoIp /\ initialIp[t] # ip)
    <2>1. Goto(t, "failed") /\ ClientRelease(t)
      BY <1>3 DEF FallBack
    <2> QED BY <1>1, <2>1, LeavesCall
  <1> QED BY <1>2, <1>3

\* Every step of a call keeps the guards.
LEMMA CallStepKeepsGuards ==
    ASSUME TypeOK, GuardsMatchControl, NEW t \in Tasks, CallStep(t)
    PROVE  GuardsMatchControl'
  <1> DEFINE Same == /\ LockOK(cacheLock, CacheUsers)
                     /\ OthersUnaffected(cacheLock, cacheLock, CacheUsers, t)
                     /\ cacheLock.mode[t] = CacheMode(t)
  <1>1. Same /\ t \in CacheUsers
    BY Unaffected, DeviceAssumption DEF GuardsMatchControl
  <1>2. pc[t] \in {"funcRead", "funcWrite", "funcNew", "connect1", "connect2", "connect3",
                   "discover", "cacheWrite", "cacheRead"} => HoldsClient(t)
    BY DEF GuardsMatchControl, InCall
  <1>3. \A p : Goto(t, p) => pc'[t] = p
    BY DEF Goto, TypeOK
  <1>4. dev = [dev EXCEPT ![t] = dev[t]]
    BY DEF TypeOK
  <1>5. ASSUME NEW p \in Points, Goto(t, p), InCall(t), HoldsClient(t),
               UNCHANGED <<clientLock, cacheLock, dev>>,
               \/ pc[t] \in {"clientRead", "funcRead"} /\ p = "funcRead"
               \/ /\ pc[t] \in {"clientWrite", "connect1", "connect2", "connect3"}
                  /\ p \in {"funcWrite", "funcNew", "connect1", "discover"}
        PROVE  GuardsMatchControl'
    <2>1. pc'[t] = p
      BY <1>3, <1>5
    <2>2. ClientMode(t)' = ClientMode(t) /\ CacheMode(t)' = CacheMode(t)
      BY <1>5, <2>1 DEF ClientMode, CacheMode
    <2>3. /\ LockOK(cacheLock', CacheUsers)
          /\ OthersUnaffected(cacheLock, cacheLock', CacheUsers, t)
          /\ cacheLock'.mode[t] = CacheMode(t)'
      BY <1>1, <1>5, <2>2
    <2> QED BY <1>5, <2>2, <2>3, WithinCall
  <1>6. ASSUME NEW p \in {"cacheWrite", "cacheRead", "connect2"},
               Goto(t, p), HoldsClient(t),
               pc[t] \in {"discover", "cacheWrite", "cacheRead"},
               UNCHANGED <<clientLock, dev>>,
               LockOK(cacheLock', CacheUsers),
               OthersUnaffected(cacheLock, cacheLock', CacheUsers, t),
               cacheLock'.mode[t] = CASE p = "cacheRead" -> "read"
                                      [] p = "cacheWrite" -> "write"
                                      [] OTHER -> "none"
        PROVE  GuardsMatchControl'
    <2>1. pc'[t] = p
      BY <1>3, <1>6
    <2>2. /\ ClientMode(t)' = ClientMode(t) /\ CacheMode(t)' = cacheLock'.mode[t]
          /\ InCall(t) /\ p \in Points
      BY <1>6, <2>1 DEF ClientMode, CacheMode, InCall, Points
    <2> QED BY <1>6, <2>2, WithinCall
  <1>7. ASSUME NEW p \in {"ok", "failed"}, Goto(t, p), ClientRelease(t),
               UNCHANGED <<cacheLock, dev>>,
               pc[t] \in {"funcRead", "funcWrite", "funcNew", "connect3"}
        PROVE  GuardsMatchControl'
    <2>1. InCall(t) /\ CacheMode(t) = "none"
      BY <1>7 DEF InCall, CacheMode
    <2>2. /\ LockOK(cacheLock', CacheUsers)
          /\ OthersUnaffected(cacheLock, cacheLock', CacheUsers, t)
          /\ cacheLock'.mode[t] = "none"
      BY <1>1, <1>7, <2>1
    <2> QED BY <1>4, <1>7, <2>1, <2>2, LeavesCall
  <1>8. "read" \in Modes /\ "write" \in Modes /\ "read" # "none" /\ "write" # "none"
    BY DEF Modes
  <1>9. CASE ClientReadHit(t)
    BY <1>5, <1>9 DEF ClientReadHit, InCall, Points
  <1>10. CASE ClientReadMiss(t)
    BY <1>10, ReadMissKeepsGuards
  <1>11. CASE ClientWriteHit(t)
    BY <1>5, <1>11 DEF ClientWriteHit, InCall, Points
  <1>12. CASE FuncDone(t)
    BY <1>7, <1>12 DEF FuncDone
  <1>13. CASE FuncNewDone(t)
    BY <1>7, <1>13 DEF FuncNewDone
  <1>14. CASE EstablishStart(t)
    BY <1>5, <1>14 DEF EstablishStart, InCall, Points
  <1>15. CASE ConnectOk(t)
    BY <1>2, <1>5, <1>15 DEF ConnectOk, InCall, Points
  <1>16. CASE FirstAttemptFails(t)
    BY <1>2, <1>5, <1>16 DEF FirstAttemptFails, InCall, Points
  <1>17. CASE DiscoverOk(t)
    <2>1. cacheLock.mode[t] = "none" /\ cacheLock' = Enqueue(cacheLock, t, "write")
      BY <1>1, <1>17 DEF DiscoverOk, CacheMode
    <2>2. /\ LockOK(cacheLock', CacheUsers)
          /\ OthersUnaffected(cacheLock, cacheLock', CacheUsers, t)
          /\ cacheLock'.mode[t] = "write"
      BY <1>1, <1>8, <2>1, EnqueueStep
    <2> QED BY <1>2, <1>6, <1>17, <2>2 DEF DiscoverOk
  <1>18. CASE DiscoverErr(t)
    <2>1. cacheLock.mode[t] = "none" /\ cacheLock' = Enqueue(cacheLock, t, "read")
      BY <1>1, <1>18 DEF DiscoverErr, CacheMode
    <2>2. /\ LockOK(cacheLock', CacheUsers)
          /\ OthersUnaffected(cacheLock, cacheLock', CacheUsers, t)
          /\ cacheLock'.mode[t] = "read"
      BY <1>1, <1>8, <2>1, EnqueueStep
    <2> QED BY <1>2, <1>6, <1>18, <2>2 DEF DiscoverErr
  <1>19. CASE CacheMerge(t)
    <2>1. cacheLock' = Requeue(cacheLock, t, "read")
      BY <1>19 DEF CacheMerge
    <2>2. /\ LockOK(cacheLock', CacheUsers)
          /\ OthersUnaffected(cacheLock, cacheLock', CacheUsers, t)
          /\ cacheLock'.mode[t] = "read"
      BY <1>1, <1>8, <2>1, RequeueStep
    <2> QED BY <1>2, <1>6, <1>19, <2>2 DEF CacheMerge
  <1>20. cacheLock' = Dequeue(cacheLock, t)
           => /\ LockOK(cacheLock', CacheUsers)
              /\ OthersUnaffected(cacheLock, cacheLock', CacheUsers, t)
              /\ cacheLock'.mode[t] = "none"
    BY <1>1, DequeueStep
  <1>21. CASE LookupHit(t)
    BY <1>2, <1>6, <1>20, <1>21 DEF LookupHit
  <1>22. CASE LookupMiss(t)
    BY <1>2, <1>20, <1>22, FallBackKeepsGuards DEF LookupMiss
  <1>23. CASE RetryFails(t)
    <2>1. cacheLock' = cacheLock /\ CacheMode(t) = "none"
      BY <1>23 DEF RetryFails, CacheMode
    <2>2. /\ LockOK(cacheLock', CacheUsers)
          /\ OthersUnaffected(cacheLock, cacheLock', CacheUsers, t)
          /\ cacheLock'.mode[t] = "none"
      BY <1>1, <2>1
    <2> QED BY <1>2, <1>23, <2>2, FallBackKeepsGuards DEF RetryFails
  <1>24. CASE FallbackFails(t)
    BY <1>7, <1>24 DEF FallbackFails
  <1> QED BY <1>9, <1>10, <1>11, <1>12, <1>13, <1>14, <1>15, <1>16, <1>17, <1>18,
             <1>19, <1>21, <1>22, <1>23, <1>24 DEF CallStep

\* A dropped future takes its guards with it.
LEMMA DropCallKeepsGuards ==
    ASSUME TypeOK, GuardsMatchControl, NEW t \in Tasks, DropCall(t)
    PROVE  GuardsMatchControl'
  <1>1. t \in CacheUsers /\ LockOK(cacheLock, CacheUsers)
    BY DeviceAssumption DEF GuardsMatchControl
  <1>2. cacheLock' = Dequeue(cacheLock, t)
    BY DEF DropCall
  <1>3. /\ LockOK(cacheLock', CacheUsers)
        /\ OthersUnaffected(cacheLock, cacheLock', CacheUsers, t)
        /\ cacheLock'.mode[t] = "none"
    BY <1>1, <1>2, DequeueStep
  <1> QED BY <1>3, LeavesCall DEF DropCall

\* Every step keeps the guards.
LEMMA NextKeepsGuards ==
    ASSUME TypeOK, GuardsMatchControl, [Next]_devVars
    PROVE  GuardsMatchControl'
  <1>1. CASE \E t \in Tasks, d \in Devices : WithClient(t, d) \/ RefreshSession(t, d)
    BY <1>1, EntersCall
  <1>2. CASE \E t \in Tasks : CallStep(t)
    BY <1>2, CallStepKeepsGuards
  <1>3. CASE \E t \in Tasks : DropCall(t)
    BY <1>3, DropCallKeepsGuards
  <1>4. CASE \E t \in Tasks : Return(t)
    BY <1>4, ReturnKeepsGuards
  <1>5. CASE SweepDone \/ SweepStore
    BY <1>5, SweepKeepsGuards
  <1>6. CASE UNCHANGED devVars
    BY <1>6 DEF devVars, GuardsMatchControl, InCall, ClientMode, CacheMode, HoldsClient
  <1> QED BY <1>1, <1>2, <1>3, <1>4, <1>5, <1>6 DEF Next

-----------------------------------------------------------------------------
(* Types                                                                   *)

\* What a task's step does to the variables it shares with nobody.
LEMMA LocalTypes ==
    ASSUME TypeOK, NEW t \in Tasks
    PROVE  /\ \A p \in Points : Goto(t, p) => pc' \in [Tasks -> Points]
           /\ \A e \in Devices \cup {NoDevice} :
                dev' = [dev EXCEPT ![t] = e] => dev' \in [Tasks -> Devices \cup {NoDevice}]
           /\ \A ip \in MaybeIp :
                /\ initialIp' = [initialIp EXCEPT ![t] = ip]
                     => initialIp' \in [Tasks -> MaybeIp]
                /\ target' = [target EXCEPT ![t] = ip] => target' \in [Tasks -> MaybeIp]
           /\ \A S \in SUBSET MaybeIp :
                tried' = [tried EXCEPT ![t] = S] => tried' \in [Tasks -> SUBSET MaybeIp]
  BY DEF TypeOK, Goto

\* The types of the locks are part of GuardsMatchControl.
LEMMA LockTypes ==
    ASSUME TypeOK, GuardsMatchControl', NEW d \in Devices, NEW M,
           clientLock' = [clientLock EXCEPT ![d] = M] \/ clientLock' = clientLock
    PROVE  clientLock' \in [Devices -> LockType(Tasks)] /\ cacheLock' \in LockType(CacheUsers)
  <1>1. \A c \in Devices : clientLock'[c] \in LockType(Tasks)
    BY DEF GuardsMatchControl, LockOK
  <1>2. cacheLock' \in LockType(CacheUsers)
    BY DEF GuardsMatchControl, LockOK
  <1>3. clientLock' = [c \in Devices |-> clientLock'[c]]
    BY DEF TypeOK
  <1> QED BY <1>1, <1>2, <1>3

\* Every step of a call on device d keeps the types.
LEMMA CallStepKeepsTypes ==
    ASSUME TypeOK, GuardsMatchControl, GuardsMatchControl',
           NEW t \in Tasks, CallStep(t)
    PROVE  TypeOK'
  <1> DEFINE d == dev[t]
  <1>1. d \in Devices
    BY DEF GuardsMatchControl, InCall, CallStep, ClientReadHit, ClientReadMiss,
           ClientWriteHit, FuncDone, FuncNewDone, EstablishStart, ConnectOk,
           FirstAttemptFails, DiscoverOk, DiscoverErr, CacheMerge, LookupHit,
           LookupMiss, RetryFails, FallbackFails
  <1>2. \/ \E M : clientLock' = [clientLock EXCEPT ![d] = M]
        \/ clientLock' = clientLock
    BY DEF CallStep, ClientReadHit, ClientReadMiss, ClientWriteHit, FuncDone, FuncNewDone,
           EstablishStart, ConnectOk, FirstAttemptFails, DiscoverOk, DiscoverErr,
           CacheMerge, LookupHit, LookupMiss, RetryFails, FallbackFails, FallBack,
           ClientRelease
  <1>3. clientLock' \in [Devices -> LockType(Tasks)] /\ cacheLock' \in LockType(CacheUsers)
    BY <1>1, <1>2, LockTypes
  <1>4. pc' \in [Tasks -> Points]
    <2>1. PICK p \in Points : Goto(t, p)
      BY DEF CallStep, ClientReadHit, ClientReadMiss, ClientWriteHit, FuncDone, FuncNewDone,
             EstablishStart, ConnectOk, FirstAttemptFails, DiscoverOk, DiscoverErr,
             CacheMerge, LookupHit, LookupMiss, RetryFails, FallbackFails, FallBack, Points
    <2> QED BY <2>1, LocalTypes
  <1>5. dev' \in [Tasks -> Devices \cup {NoDevice}]
    BY DEF TypeOK, CallStep, ClientReadHit, ClientReadMiss, ClientWriteHit, FuncDone, FuncNewDone,
           EstablishStart, ConnectOk, FirstAttemptFails, DiscoverOk, DiscoverErr,
           CacheMerge, LookupHit, LookupMiss, RetryFails, FallbackFails
  <1>6. client' \in [Devices -> MaybeIp]
    BY DEF TypeOK, CallStep, ClientReadHit, ClientReadMiss, ClientWriteHit, FuncDone, FuncNewDone,
           EstablishStart, ConnectOk, FirstAttemptFails, DiscoverOk, DiscoverErr,
           CacheMerge, LookupHit, LookupMiss, RetryFails, FallbackFails
  <1>7. currentIp' \in [Devices -> MaybeIp]
    <2>1. \A n : Lookup(cache, n) \subseteq MaybeIp
      BY LookupType DEF TypeOK
    <2> QED BY <2>1
         DEF TypeOK, CallStep, ClientReadHit, ClientReadMiss, ClientWriteHit, FuncDone,
             FuncNewDone, EstablishStart, ConnectOk, FirstAttemptFails, DiscoverOk,
             DiscoverErr, CacheMerge, LookupHit, LookupMiss, RetryFails, FallbackFails
  <1>8. cache' \in Cache
    <2>1. \A fresh \in Cache : MergeIn(cache, fresh) \in Cache
      BY MergeInType DEF TypeOK
    <2> QED BY <2>1
         DEF TypeOK, CallStep, ClientReadHit, ClientReadMiss, ClientWriteHit, FuncDone,
             FuncNewDone, EstablishStart, ConnectOk, FirstAttemptFails, DiscoverOk,
             DiscoverErr, CacheMerge, LookupHit, LookupMiss, RetryFails, FallbackFails
  <1>9. /\ initialIp' \in [Tasks -> MaybeIp]
        /\ target' \in [Tasks -> MaybeIp]
        /\ tried' \in [Tasks -> SUBSET MaybeIp]
    <2>1. \A n : Lookup(cache, n) \subseteq MaybeIp
      BY LookupType DEF TypeOK
    <2>2. /\ NoIp \in MaybeIp /\ initialIp[t] \in MaybeIp /\ target[t] \in MaybeIp
          /\ currentIp[d] \in MaybeIp /\ tried[t] \subseteq MaybeIp
      BY <1>1 DEF TypeOK, MaybeIp
    <2> QED BY <2>1, <2>2
         DEF TypeOK, CallStep, ClientReadHit, ClientReadMiss, ClientWriteHit, FuncDone,
             FuncNewDone, EstablishStart, ConnectOk, FirstAttemptFails, DiscoverOk,
             DiscoverErr, CacheMerge, LookupHit, LookupMiss, RetryFails, FallbackFails,
             FallBack, ForgetLocals, locals
  <1> QED BY <1>3, <1>4, <1>5, <1>6, <1>7, <1>8, <1>9 DEF TypeOK

\* Every step keeps the types.
LEMMA NextKeepsTypes ==
    ASSUME TypeOK, GuardsMatchControl, GuardsMatchControl', [Next]_devVars
    PROVE  TypeOK'
  <1>1. CASE \E t \in Tasks, d \in Devices : WithClient(t, d) \/ RefreshSession(t, d)
    <2>1. PICK t \in Tasks, d \in Devices : WithClient(t, d) \/ RefreshSession(t, d)
      BY <1>1
    <2>2. \E M : clientLock' = [clientLock EXCEPT ![d] = M]
      BY <2>1 DEF WithClient, RefreshSession, ClientRequest
    <2>3. clientLock' \in [Devices -> LockType(Tasks)] /\ cacheLock' \in LockType(CacheUsers)
      BY <2>2, LockTypes
    <2>4. /\ pc' \in [Tasks -> Points]
          /\ dev' \in [Tasks -> Devices \cup {NoDevice}]
      BY <2>1, LocalTypes DEF WithClient, RefreshSession, Points
    <2> QED BY <2>1, <2>3, <2>4 DEF TypeOK, WithClient, RefreshSession, locals
  <1>2. CASE \E t \in Tasks : CallStep(t)
    BY <1>2, CallStepKeepsTypes
  <1>3. CASE \E t \in Tasks : DropCall(t)
    <2>1. PICK t \in Tasks : DropCall(t)
      BY <1>3
    <2>2. dev[t] \in Devices /\ \E M : clientLock' = [clientLock EXCEPT ![dev[t]] = M]
      BY <2>1 DEF DropCall, ClientRelease, GuardsMatchControl
    <2>3. clientLock' \in [Devices -> LockType(Tasks)] /\ cacheLock' \in LockType(CacheUsers)
      BY <2>2, LockTypes
    <2>4. /\ pc' \in [Tasks -> Points]
          /\ dev' \in [Tasks -> Devices \cup {NoDevice}]
          /\ initialIp' \in [Tasks -> MaybeIp]
          /\ target' \in [Tasks -> MaybeIp]
          /\ tried' \in [Tasks -> SUBSET MaybeIp]
      BY <2>1, LocalTypes DEF DropCall, ForgetLocals, Points, MaybeIp
    <2> QED BY <2>1, <2>3, <2>4 DEF TypeOK, DropCall
  <1>4. CASE \E t \in Tasks : Return(t)
    <2>1. PICK t \in Tasks : Return(t)
      BY <1>4
    <2>2. /\ pc' \in [Tasks -> Points]
          /\ dev' \in [Tasks -> Devices \cup {NoDevice}]
          /\ initialIp' \in [Tasks -> MaybeIp]
          /\ target' \in [Tasks -> MaybeIp]
          /\ tried' \in [Tasks -> SUBSET MaybeIp]
      BY <2>1, LocalTypes DEF Return, ForgetLocals, Points, MaybeIp
    <2> QED BY <2>1, <2>2 DEF TypeOK, Return
  <1>5. CASE SweepDone \/ SweepStore
    <2>1. cacheLock' \in LockType(CacheUsers)
      BY DEF GuardsMatchControl, LockOK
    <2> QED BY <1>5, <2>1 DEF TypeOK, SweepDone, SweepStore, locals
  <1>6. CASE UNCHANGED devVars
    BY <1>6 DEF TypeOK, devVars
  <1> QED BY <1>1, <1>2, <1>3, <1>4, <1>5, <1>6 DEF Next

-----------------------------------------------------------------------------
(* ExclusiveUse and ConnectsOnce                                           *)

\* Whoever is alone on a device holds its write guard; nobody else can be on it.
LEMMA GuardsGiveExclusiveUse ==
    ASSUME GuardsMatchControl
    PROVE  ExclusiveUse
  <1> SUFFICES ASSUME NEW t \in Tasks, NEW u \in Tasks, t # u,
                      AloneOnDevice(t), UsesDevice(u), dev[t] = dev[u]
               PROVE  FALSE
    BY DEF ExclusiveUse
  <1>1. /\ InCall(t) /\ pc[t] \notin {"clientRead", "clientWrite"} /\ ClientMode(t) = "write"
        /\ InCall(u) /\ pc[u] \notin {"clientRead", "clientWrite"}
    BY DEF AloneOnDevice, UsesDevice, Establishing, InCall, ClientMode
  <1>2. /\ dev[t] \in Devices
        /\ LockOK(clientLock[dev[t]], Tasks)
        /\ clientLock[dev[t]].mode[t] = "write"
        /\ Holds(clientLock[dev[t]], t) /\ Holds(clientLock[dev[t]], u)
    BY <1>1 DEF GuardsMatchControl, HoldsClient
  <1> QED BY <1>2, Exclusion

\* A step of one task.
TaskStep(t) ==
    \/ \E d \in Devices : WithClient(t, d) \/ RefreshSession(t, d)
    \/ CallStep(t) \/ DropCall(t) \/ Return(t)

\* A task's step changes nobody else's locals.
LEMMA OnlyOwnLocals ==
    ASSUME TypeOK, NEW t \in Tasks, TaskStep(t), NEW u \in Tasks \ {t}
    PROVE  /\ pc'[u] = pc[u] /\ dev'[u] = dev[u] /\ initialIp'[u] = initialIp[u]
           /\ target'[u] = target[u] /\ tried'[u] = tried[u]
  BY DEF TypeOK, TaskStep, WithClient, RefreshSession, CallStep, ClientReadHit,
         ClientReadMiss, ClientWriteHit, FuncDone, FuncNewDone, EstablishStart, ConnectOk,
         FirstAttemptFails, DiscoverOk, DiscoverErr, CacheMerge, LookupHit, LookupMiss,
         RetryFails, FallbackFails, FallBack, DropCall, Return, ForgetLocals, Goto, locals

\* Only the end of a first operation stores a connection, and only a rediscovery
\* changes an address in use; both happen to the task's own device.
LEMMA WhoChangesWhat ==
    ASSUME TypeOK, NEW t \in Tasks, TaskStep(t)
    PROVE  /\ \/ client' = client
              \/ /\ pc[t] = "funcNew" /\ pc'[t] = "ok"
                 /\ client' = [client EXCEPT ![dev[t]] = target[t]]
           /\ \/ currentIp' = currentIp
              \/ /\ pc[t] = "cacheRead" /\ pc'[t] = "connect2" /\ dev'[t] = dev[t]
                 /\ currentIp' = [currentIp EXCEPT ![dev[t]] = target'[t]]
                 /\ initialIp' = initialIp /\ tried' = tried
  BY DEF TypeOK, TaskStep, WithClient, RefreshSession, CallStep, ClientReadHit,
         ClientReadMiss, ClientWriteHit, FuncDone, FuncNewDone, EstablishStart, ConnectOk,
         FirstAttemptFails, DiscoverOk, DiscoverErr, CacheMerge, LookupHit, LookupMiss,
         RetryFails, FallbackFails, FallBack, DropCall, Return, ForgetLocals, Goto, locals

\* The refresher changes nothing but the cache and its lock.
LEMMA SweepTouches ==
    ASSUME SweepDone \/ SweepStore \/ UNCHANGED devVars
    PROVE  UNCHANGED <<client, clientLock, currentIp, pc, dev, initialIp, target, tried>>
  BY DEF SweepDone, SweepStore, devVars, locals

\* Next, by who takes the step.
LEMMA NextCases ==
    ASSUME [Next]_devVars
    PROVE  \/ \E t \in Tasks : TaskStep(t)
           \/ SweepDone \/ SweepStore \/ UNCHANGED devVars
  BY DEF Next, TaskStep

\* A task that is establishing was so before, on the same device, or has just
\* seen that there is no connection.
LEMMA HowToEstablish ==
    ASSUME TypeOK, NEW t \in Tasks, TaskStep(t),
           Establishing(t)' \/ pc'[t] = "funcNew"
    PROVE  /\ dev'[t] = dev[t]
           /\ client' = client
           /\ \/ Establishing(t) \/ pc[t] = "funcNew"
              \/ client[dev[t]] = NoIp
  BY DEF TypeOK, Establishing, TaskStep, WithClient, RefreshSession, CallStep,
         ClientReadHit, ClientReadMiss, ClientWriteHit, FuncDone, FuncNewDone,
         EstablishStart, ConnectOk, FirstAttemptFails, DiscoverOk, DiscoverErr, CacheMerge,
         LookupHit, LookupMiss, RetryFails, FallbackFails, FallBack, DropCall, Return, Goto

\* Nobody stores a connection while another task is connecting to the device.
LEMMA NextKeepsConnectsOnce ==
    ASSUME Inv, [Next]_devVars
    PROVE  ConnectsOnce'
  <1>1. ExclusiveUse
    BY GuardsGiveExclusiveUse DEF Inv
  <1>2. ASSUME NEW t \in Tasks, TaskStep(t) PROVE ConnectsOnce'
    <2> SUFFICES ASSUME NEW u \in Tasks, Establishing(u)' \/ pc'[u] = "funcNew"
                 PROVE  client'[dev'[u]] = NoIp
      BY DEF ConnectsOnce
    <2>1. CASE u = t
      BY <1>2, <2>1, HowToEstablish DEF Inv, ConnectsOnce
    <2>2. CASE u # t
      <3>1. pc'[u] = pc[u] /\ dev'[u] = dev[u]
        BY <1>2, <2>2, OnlyOwnLocals DEF Inv
      <3>2. Establishing(u) \/ pc[u] = "funcNew"
        BY <3>1 DEF Establishing
      <3>3. client[dev[u]] = NoIp
        BY <3>2 DEF Inv, ConnectsOnce
      <3>4. pc[t] = "funcNew" => dev[t] # dev[u]
        BY <1>1, <2>2, <3>2 DEF ExclusiveUse, AloneOnDevice, UsesDevice
      <3>5. client'[dev[u]] = client[dev[u]]
        <4>1. dev[u] \in Devices
          BY <3>2 DEF Inv, GuardsMatchControl, Establishing, InCall
        <4> QED BY <1>2, <3>4, <4>1, WhoChangesWhat DEF Inv, TypeOK
      <3> QED BY <3>1, <3>3, <3>5
    <2> QED BY <2>1, <2>2
  <1>3. CASE SweepDone \/ SweepStore \/ UNCHANGED devVars
    BY <1>3, SweepTouches DEF Inv, ConnectsOnce, Establishing
  <1> QED BY <1>2, <1>3, NextCases

-----------------------------------------------------------------------------
(* The theorems.                                                           *)

\* No task is in a call and no lock is requested at first.
LEMMA InitInv ==
    ASSUME Init
    PROVE  Inv
  <1>1. LockOK(NewLock(Tasks), Tasks) /\ LockOK(NewLock(CacheUsers), CacheUsers)
    BY NewLockOK
  <1>2. \A t \in Tasks : /\ ~InCall(t) /\ ~Establishing(t) /\ pc[t] # "funcNew"
                         /\ ClientMode(t) = "none" /\ CacheMode(t) = "none"
    BY DEF Init, InCall, Establishing, ClientMode, CacheMode
  <1>3. /\ \A t \in Tasks : NewLock(Tasks).mode[t] = "none"
        /\ \A t \in Tasks : NewLock(CacheUsers).mode[t] = "none"
    BY DeviceAssumption DEF NewLock
  <1>4. TypeOK
    <2>1. NewLock(Tasks) \in LockType(Tasks) /\ NewLock(CacheUsers) \in LockType(CacheUsers)
      BY <1>1 DEF LockOK
    <2> QED BY <2>1 DEF Init, TypeOK, MaybeIp, Points
  <1>5. GuardsMatchControl
    BY <1>1, <1>2, <1>3 DEF Init, GuardsMatchControl
  <1> QED BY <1>2, <1>4, <1>5 DEF Inv, ConnectsOnce

\* Every step keeps the invariant.
LEMMA NextInv ==
    ASSUME Inv, [Next]_devVars
    PROVE  Inv'
  <1>1. TypeOK /\ GuardsMatchControl
    BY DEF Inv
  <1>2. GuardsMatchControl'
    BY <1>1, NextKeepsGuards
  <1>3. TypeOK'
    BY <1>1, <1>2, NextKeepsTypes
  <1>4. ConnectsOnce'
    BY NextKeepsConnectsOnce
  <1> QED BY <1>2, <1>3, <1>4 DEF Inv

\* The invariant of everything else: Inv holds in every state TapoDevice reaches.
THEOREM Invariance == Spec => []Inv
  <1>1. Init => Inv
    BY InitInv
  <1>2. Inv /\ [Next]_devVars => Inv'
    BY NextInv
  <1> QED BY <1>1, <1>2, PTL DEF Spec

\* Every variable of TapoDevice has its type.
THEOREM TypeCorrect == Spec => []TypeOK
  <1>1. Inv => TypeOK
    BY DEF Inv
  <1> QED BY <1>1, Invariance, PTL

\* No path through with_client, with_client_mut, _establish_conn or
\* refresh_in_memory leaks a guard or goes on without one.
THEOREM GuardsCorrect == Spec => []GuardsMatchControl
  <1>1. Inv => GuardsMatchControl
    BY DEF Inv
  <1> QED BY <1>1, Invariance, PTL

\* Connecting, first operations and session refreshes have their device alone.
THEOREM Exclusive == Spec => []ExclusiveUse
  <1>1. Inv => ExclusiveUse
    BY GuardsGiveExclusiveUse DEF Inv
  <1> QED BY <1>1, Invariance, PTL

\* However many requests find a device unconnected, one at a time connects, and
\* only while there is no connection.
THEOREM OneConnection == Spec => []ConnectsOnce
  <1>1. Inv => ConnectsOnce
    BY DEF Inv
  <1> QED BY <1>1, Invariance, PTL

\* A stored connection stays, and so does the address in use behind it.
THEOREM ConnectionStays == Spec => ConnectionKept
  <1> DEFINE Kept == \A d \in Devices : client[d] # NoIp
                       => client'[d] = client[d] /\ currentIp'[d] = currentIp[d]
  <1>1. ASSUME Inv, [Next]_devVars PROVE [Kept]_devVars
    <2>1. ASSUME NEW t \in Tasks, TaskStep(t) PROVE Kept
      <3> SUFFICES ASSUME NEW d \in Devices, client[d] # NoIp
                   PROVE  client'[d] = client[d] /\ currentIp'[d] = currentIp[d]
        OBVIOUS
      <3>1. pc[t] \in {"funcNew", "cacheRead"} => client[dev[t]] = NoIp
        BY <1>1 DEF Inv, ConnectsOnce, Establishing
      <3> QED BY <1>1, <2>1, <3>1, WhoChangesWhat DEF Inv, TypeOK
    <2>2. CASE SweepDone \/ SweepStore \/ UNCHANGED devVars
      BY <2>2, SweepTouches
    <2> QED BY <1>1, <2>1, <2>2, NextCases
  <1> QED BY <1>1, Invariance, PTL DEF Spec, ConnectionKept

-----------------------------------------------------------------------------
(* AttemptsRecorded and FailureIsExhaustive                                *)

\* AttemptsRecorded, for one task.
Recorded(t) ==
    LET known == {initialIp[t], currentIp[dev[t]]} \ {NoIp} IN
    /\ pc[t] = "connect1" => target[t] = initialIp[t] /\ target[t] = currentIp[dev[t]]
    /\ pc[t] \in {"discover", "cacheWrite", "cacheRead"} =>
         initialIp[t] = currentIp[dev[t]] /\ known \subseteq tried[t]
    /\ pc[t] = "connect2" =>
         target[t] = currentIp[dev[t]] /\ known \subseteq tried[t] \cup {target[t]}
    /\ pc[t] = "connect3" => known \subseteq tried[t]

\* A task keeps its own record right.
LEMMA OwnRecord ==
    ASSUME TypeOK, NEW t \in Tasks, dev[t] \in Devices, CallStep(t), Recorded(t)
    PROVE  Recorded(t)'
  <1> USE DEF Recorded, Goto, TypeOK
  <1>1. CASE ClientReadHit(t) \/ ClientReadMiss(t) \/ ClientWriteHit(t) \/ FuncDone(t)
             \/ FuncNewDone(t) \/ ConnectOk(t) \/ FallbackFails(t)
    BY <1>1 DEF ClientReadHit, ClientReadMiss, ClientWriteHit, FuncDone, FuncNewDone,
                ConnectOk, FallbackFails
  <1>2. CASE EstablishStart(t)
    BY <1>2 DEF EstablishStart
  <1>3. CASE FirstAttemptFails(t)
    BY <1>3 DEF FirstAttemptFails
  <1>4. CASE DiscoverOk(t) \/ DiscoverErr(t) \/ CacheMerge(t)
    BY <1>4 DEF DiscoverOk, DiscoverErr, CacheMerge, locals
  <1>5. CASE LookupHit(t)
    BY <1>5 DEF LookupHit
  <1>6. CASE LookupMiss(t)
    BY <1>6 DEF LookupMiss, FallBack
  <1>7. CASE RetryFails(t)
    BY <1>7 DEF RetryFails, FallBack
  <1> QED BY <1>1, <1>2, <1>3, <1>4, <1>5, <1>6, <1>7 DEF CallStep

\* Nobody else disturbs it: whoever changes the address of a device is alone there.
LEMMA NextKeepsRecords ==
    ASSUME Inv, AttemptsRecorded, [Next]_devVars
    PROVE  AttemptsRecorded'
  <1> SUFFICES ASSUME NEW u \in Tasks PROVE Recorded(u)'
    BY DEF AttemptsRecorded, Recorded
  <1>1. Recorded(u) /\ TypeOK
    BY DEF AttemptsRecorded, Recorded, Inv
  <1>2. ASSUME NEW t \in Tasks, TaskStep(t) PROVE Recorded(u)'
    <2>1. CASE u = t /\ CallStep(t)
      <3>1. dev[t] \in Devices
        BY <2>1
           DEF Inv, GuardsMatchControl, InCall, CallStep, ClientReadHit, ClientReadMiss,
               ClientWriteHit, FuncDone, FuncNewDone, EstablishStart, ConnectOk,
               FirstAttemptFails, DiscoverOk, DiscoverErr, CacheMerge, LookupHit,
               LookupMiss, RetryFails, FallbackFails
      <3> QED BY <1>1, <2>1, <3>1, OwnRecord
    <2>2. CASE u = t /\ ~CallStep(t)
      <3>1. pc'[t] \in {"clientRead", "clientWrite", "idle"}
        BY <1>1, <1>2, <2>2
           DEF TypeOK, TaskStep, WithClient, RefreshSession, DropCall, Return, Goto
      <3> QED BY <2>2, <3>1 DEF Recorded
    <2>3. CASE u # t
      <3>1. /\ pc'[u] = pc[u] /\ dev'[u] = dev[u] /\ initialIp'[u] = initialIp[u]
            /\ target'[u] = target[u] /\ tried'[u] = tried[u]
        BY <1>1, <1>2, <2>3, OnlyOwnLocals
      <3>2. CASE Establishing(u)
        <4>1. pc[t] = "cacheRead" => dev[t] # dev[u]
          BY <2>3, <3>2, GuardsGiveExclusiveUse
             DEF Inv, ExclusiveUse, AloneOnDevice, UsesDevice, Establishing
        <4>2. dev[u] \in Devices
          BY <3>2 DEF Inv, GuardsMatchControl, Establishing, InCall
        <4>3. currentIp'[dev[u]] = currentIp[dev[u]]
          BY <1>1, <1>2, <4>1, <4>2, WhoChangesWhat DEF TypeOK
        <4> QED BY <1>1, <3>1, <4>3 DEF Recorded
      <3>3. CASE ~Establishing(u)
        BY <3>1, <3>3 DEF Recorded, Establishing
      <3> QED BY <3>2, <3>3
    <2> QED BY <2>1, <2>2, <2>3
  <1>3. CASE SweepDone \/ SweepStore \/ UNCHANGED devVars
    BY <1>1, <1>3, SweepTouches DEF Recorded
  <1> QED BY <1>2, <1>3, NextCases

\* At every await of _establish_conn the addresses that matter have been tried.
THEOREM Records == Spec => []AttemptsRecorded
  <1>1. Init => AttemptsRecorded
    BY DEF Init, AttemptsRecorded
  <1>2. Inv /\ AttemptsRecorded /\ [Next]_devVars => AttemptsRecorded'
    BY NextKeepsRecords
  <1> QED BY <1>1, <1>2, Invariance, PTL DEF Spec

\* _establish_conn gives up only after it has tried the address it began with and
\* the one in use now.
THEOREM FailsExhaustively == Spec => FailureIsExhaustive
  <1> DEFINE Exhausted ==
        \A t \in Tasks : pc[t] # "failed" /\ pc'[t] = "failed"
          => {initialIp[t], currentIp[dev[t]]} \ {NoIp} \subseteq tried'[t]
  <1>1. ASSUME Inv, AttemptsRecorded, [Next]_devVars PROVE [Exhausted]_devVars
    <2> USE <1>1
    <2>1. ASSUME NEW t \in Tasks, TaskStep(t) PROVE Exhausted
      <3> SUFFICES ASSUME NEW u \in Tasks, pc[u] # "failed", pc'[u] = "failed"
                   PROVE  {initialIp[u], currentIp[dev[u]]} \ {NoIp} \subseteq tried'[u]
        OBVIOUS
      <3>1. u = t
        BY <2>1, OnlyOwnLocals DEF Inv
      <3>2. LookupMiss(t) \/ RetryFails(t) \/ FallbackFails(t)
        BY <2>1, <3>1
           DEF Inv, TypeOK, TaskStep, WithClient, RefreshSession, CallStep, ClientReadHit,
               ClientReadMiss, ClientWriteHit, FuncDone, FuncNewDone, EstablishStart,
               ConnectOk, FirstAttemptFails, DiscoverOk, DiscoverErr, CacheMerge,
               LookupHit, DropCall, Return, Goto
      <3>3. Recorded(t) /\ TypeOK
        BY DEF AttemptsRecorded, Recorded, Inv
      <3>4. CASE LookupMiss(t)
        BY <3>1, <3>3, <3>4 DEF Recorded, LookupMiss
      <3>5. CASE RetryFails(t)
        BY <3>1, <3>3, <3>5 DEF Recorded, RetryFails, TypeOK
      <3>6. CASE FallbackFails(t)
        BY <3>1, <3>3, <3>6 DEF Recorded, FallbackFails, TypeOK
      <3> QED BY <3>2, <3>4, <3>5, <3>6
    <2>2. CASE SweepDone \/ SweepStore \/ UNCHANGED devVars
      BY <2>2, SweepTouches
    <2> QED BY <2>1, <2>2, NextCases
  <1> QED BY <1>1, Invariance, Records, PTL DEF Spec, FailureIsExhaustive
=============================================================================
