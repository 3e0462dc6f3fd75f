------------------------- MODULE TapoDeviceRefinement -------------------------
(***************************************************************************)
(* TapoDevice implements SharedConnection: with its locks, addresses and   *)
(* discovery hidden, every step of a TapoDevice is a step of the abstract  *)
(* connection or changes nothing there.  On top of Inv the proof needs     *)
(* that a task connects to an address (TargetsKnown).                      *)
(***************************************************************************)
EXTENDS TapoDeviceProofs

\* A task that connects, or has just connected, has an address.
TargetsKnown ==
    \A t \in Tasks :
        pc[t] \in {"connect1", "connect2", "connect3", "funcNew"} => target[t] # NoIp

\* A step keeps a task's own target known ...
LEMMA OwnTarget ==
    ASSUME TypeOK, TargetsKnown, NEW t \in Tasks, TaskStep(t),
           pc'[t] \in {"connect1", "connect2", "connect3", "funcNew"}
    PROVE  target'[t] # NoIp
  <1> USE DEF TypeOK, TargetsKnown, Goto
  <1>1. CASE EstablishStart(t)
    BY <1>1 DEF EstablishStart
  <1>2. CASE ConnectOk(t)
    BY <1>2 DEF ConnectOk, locals
  <1>3. CASE LookupHit(t)
    BY <1>3 DEF LookupHit
  <1>4. CASE LookupMiss(t) \/ RetryFails(t)
    BY <1>4 DEF LookupMiss, RetryFails, FallBack
  <1>5. CASE ~(EstablishStart(t) \/ ConnectOk(t) \/ LookupHit(t) \/ LookupMiss(t)
               \/ RetryFails(t))
    BY <1>5 DEF TaskStep, WithClient, RefreshSession, CallStep, ClientReadHit,
                ClientReadMiss, ClientWriteHit, FuncDone, FuncNewDone, FirstAttemptFails,
                DiscoverOk, DiscoverErr, CacheMerge, FallbackFails, DropCall, Return
  <1> QED BY <1>1, <1>2, <1>3, <1>4, <1>5

\* ... and everybody else's.
LEMMA NextKeepsTargets ==
    ASSUME TypeOK, TargetsKnown, [Next]_devVars
    PROVE  TargetsKnown'
  <1>1. ASSUME NEW t \in Tasks, TaskStep(t) PROVE TargetsKnown'
    BY <1>1, OwnTarget, OnlyOwnLocals DEF TargetsKnown
  <1>2. CASE SweepDone \/ SweepStore \/ UNCHANGED devVars
    BY <1>2, SweepTouches DEF TargetsKnown
  <1> QED BY <1>1, <1>2, NextCases

-----------------------------------------------------------------------------
(* The mapped variables                                                    *)

use   == [t \in Tasks |-> UseOf(t)]
fresh == [t \in Tasks |-> FreshOf(t)]

\* What a task's step does to the mapped variables is what it does to its own entry.
LEMMA UseMoves ==
    ASSUME TypeOK, NEW t \in Tasks, TaskStep(t)
    PROVE  /\ use' = [use EXCEPT ![t] = UseOf(t)']
           /\ fresh' = [fresh EXCEPT ![t] = FreshOf(t)']
           /\ use[t] = UseOf(t) /\ fresh[t] = FreshOf(t)
  <1>1. \A u \in Tasks \ {t} : UseOf(u)' = UseOf(u) /\ FreshOf(u)' = FreshOf(u)
    BY OnlyOwnLocals DEF UseOf, FreshOf
  <1> QED BY <1>1 DEF use, fresh

\* Who holds a device's lock keeps everybody from having the device alone, and who
\* holds the write half keeps everybody from using it.
LEMMA HolderExcludes ==
    ASSUME GuardsMatchControl, NEW t \in Tasks, InCall(t), HoldsClient(t)
    PROVE  /\ Shared!NobodyAlone(t)
           /\ ClientMode(t) = "write" => Shared!NobodyElse(t)
  <1>1. dev[t] \in Devices /\ LockOK(clientLock[dev[t]], Tasks)
    BY DEF GuardsMatchControl
  <1>2. /\ clientLock[dev[t]].mode[t] = ClientMode(t)
        /\ Holds(clientLock[dev[t]], t)
    BY <1>1 DEF GuardsMatchControl, HoldsClient
  <1>3. ASSUME NEW u \in Tasks \ {t}, dev[u] = dev[t],
               UseOf(u) \in {"shared", "alone", "new"}
        PROVE  /\ Holds(clientLock[dev[t]], u)
               /\ clientLock[dev[t]].mode[u] = ClientMode(u)
               /\ UseOf(u) \in {"alone", "new"} => ClientMode(u) = "write"
    <2>1. pc[u] \in {"funcRead", "funcWrite", "funcNew"}
      BY <1>3 DEF UseOf
    <2>2. InCall(u) /\ pc[u] \notin {"clientRead", "clientWrite"}
      BY <2>1 DEF InCall
    <2>3. HoldsClient(u) /\ clientLock[dev[t]].mode[u] = ClientMode(u)
      BY <1>1, <1>3, <2>2 DEF GuardsMatchControl
    <2>4. UseOf(u) \in {"alone", "new"} => ClientMode(u) = "write"
      BY <2>1 DEF UseOf, ClientMode
    <2> QED BY <1>3, <2>3, <2>4 DEF HoldsClient
  <1>4. ASSUME NEW u \in Tasks \ {t}, dev[u] = dev[t], UseOf(u) \in {"alone", "new"}
        PROVE  FALSE
    <2>1. Holds(clientLock[dev[t]], u) /\ clientLock[dev[t]].mode[u] = "write"
      BY <1>3, <1>4
    <2> QED BY <1>1, <1>2, <2>1, Exclusion
  <1>5. ASSUME ClientMode(t) = "write", NEW u \in Tasks \ {t}, dev[u] = dev[t],
               UseOf(u) \in {"shared", "alone", "new"}
        PROVE  FALSE
    <2>1. Holds(clientLock[dev[t]], u)
      BY <1>3, <1>5
    <2> QED BY <1>1, <1>2, <1>5, <2>1, Exclusion
  <1> QED BY <1>4, <1>5 DEF Shared!NobodyAlone, Shared!NobodyElse, Shared!Others

-----------------------------------------------------------------------------
(* Steps                                                                   *)

\* The first and the last step of a call, and its end before its time.
LEMMA CallAndLeave ==
    ASSUME Inv, NEW t \in Tasks,
           \/ \E d \in Devices : WithClient(t, d) \/ RefreshSession(t, d)
           \/ DropCall(t) \/ Return(t)
    PROVE  Shared!Next
  <1> USE DEF Inv
  <1>0. /\ use' = [use EXCEPT ![t] = UseOf(t)']
        /\ fresh' = [fresh EXCEPT ![t] = FreshOf(t)']
        /\ use[t] = UseOf(t) /\ fresh[t] = FreshOf(t)
    BY UseMoves DEF TaskStep
  <1>1. ASSUME NEW d \in Devices, WithClient(t, d) \/ RefreshSession(t, d)
        PROVE  Shared!Call(t, d)
    <2>1. /\ UseOf(t) = "out" /\ UseOf(t)' = "waiting"
          /\ FreshOf(t)' = NoIp /\ FreshOf(t) = NoIp
          /\ dev' = [dev EXCEPT ![t] = d] /\ client' = client
      BY <1>1 DEF WithClient, RefreshSession, UseOf, FreshOf, Goto, TypeOK
    <2>2. fresh' = fresh
      BY <1>0, <2>1 DEF fresh
    <2> QED BY <1>0, <2>1, <2>2 DEF Shared!Call, Shared!Become, use, fresh
  <1>2. ASSUME DropCall(t) \/ Return(t) PROVE Shared!Leave(t)
    <2>1. /\ UseOf(t) # "out" /\ UseOf(t)' = "out" /\ FreshOf(t)' = NoIp
          /\ dev' = [dev EXCEPT ![t] = NoDevice] /\ client' = client
      BY <1>2 DEF DropCall, Return, InCall, UseOf, FreshOf, Goto, TypeOK
    <2> QED BY <1>0, <2>1 DEF Shared!Leave, Shared!Become, use, fresh
  <1> QED BY <1>1, <1>2 DEF Shared!Next

\* A task starts its operation on a device that is connected.
LEMMA StepsThatOperate ==
    ASSUME Inv, NEW t \in Tasks, ClientReadHit(t) \/ ClientWriteHit(t)
    PROVE  Shared!Operate(t)
  <1> USE DEF Inv
  <1>0. /\ use' = [use EXCEPT ![t] = UseOf(t)']
        /\ fresh' = [fresh EXCEPT ![t] = FreshOf(t)']
        /\ use[t] = UseOf(t) /\ fresh[t] = FreshOf(t)
    BY UseMoves DEF TaskStep, CallStep
  <1>1. /\ UseOf(t) = "waiting" /\ FreshOf(t)' = NoIp /\ FreshOf(t) = NoIp
        /\ InCall(t) /\ HoldsClient(t) /\ client[dev[t]] # NoIp
        /\ UNCHANGED <<client, dev>>
    BY DEF ClientReadHit, ClientWriteHit, UseOf, FreshOf, InCall, Goto, TypeOK
  <1>2. fresh' = fresh
    BY <1>0, <1>1 DEF fresh
  <1>3. CASE ClientReadHit(t)
    <2>1. UseOf(t)' = "shared"
      BY <1>3 DEF ClientReadHit, UseOf, Goto, TypeOK
    <2>2. Shared!NobodyAlone(t)
      BY <1>1, HolderExcludes
    <2> QED BY <1>0, <1>1, <1>2, <2>1, <2>2 DEF Shared!Operate, Shared!Become, use, fresh
  <1>4. CASE ClientWriteHit(t)
    <2>1. UseOf(t)' = "alone" /\ ClientMode(t) = "write"
      BY <1>4 DEF ClientWriteHit, UseOf, ClientMode, Goto, TypeOK
    <2>2. Shared!NobodyElse(t)
      BY <1>1, <2>1, HolderExcludes
    <2> QED BY <1>0, <1>1, <1>2, <2>1, <2>2 DEF Shared!Operate, Shared!Become, use, fresh
  <1> QED BY <1>3, <1>4

\* A connection that is opened is the device's first, and its opener is alone there.
LEMMA StepsThatOpen ==
    ASSUME Inv, TargetsKnown, NEW t \in Tasks, ConnectOk(t)
    PROVE  Shared!Open(t)
  <1> USE DEF Inv
  <1>0. /\ use' = [use EXCEPT ![t] = UseOf(t)']
        /\ fresh' = [fresh EXCEPT ![t] = FreshOf(t)']
        /\ use[t] = UseOf(t) /\ fresh[t] = FreshOf(t)
    BY UseMoves DEF TaskStep, CallStep
  <1>1. /\ UseOf(t) = "waiting" /\ UseOf(t)' = "new" /\ FreshOf(t)' = target[t]
        /\ InCall(t) /\ pc[t] \notin {"clientRead", "clientWrite"}
        /\ ClientMode(t) = "write" /\ Establishing(t)
        /\ UNCHANGED <<client, dev>>
    BY DEF ConnectOk, UseOf, FreshOf, InCall, ClientMode, Establishing, Goto, TypeOK, locals
  <1>2. client[dev[t]] = NoIp
    BY <1>1 DEF ConnectsOnce
  <1>3. target[t] \in IPs
    BY DEF ConnectOk, TargetsKnown, TypeOK, MaybeIp
  <1>4. Shared!NobodyElse(t)
    BY <1>1, HolderExcludes DEF GuardsMatchControl
  <1> QED BY <1>0, <1>1, <1>2, <1>3, <1>4 DEF Shared!Open, Shared!Become, use, fresh

\* An operation ends; if it was the first of a connection, that is stored.
LEMMA StepsThatEnd ==
    ASSUME Inv, NEW t \in Tasks, FuncDone(t) \/ FuncNewDone(t)
    PROVE  Shared!Finish(t) \/ Shared!Store(t)
  <1> USE DEF Inv
  <1>0. /\ use' = [use EXCEPT ![t] = UseOf(t)']
        /\ fresh' = [fresh EXCEPT ![t] = FreshOf(t)']
        /\ use[t] = UseOf(t) /\ fresh[t] = FreshOf(t)
    BY UseMoves DEF TaskStep, CallStep
  <1>1. UseOf(t)' = "back" /\ FreshOf(t)' = NoIp /\ dev' = dev
    BY DEF FuncDone, FuncNewDone, UseOf, FreshOf, Goto, TypeOK
  <1>2. CASE FuncDone(t)
    <2>1. UseOf(t) \in {"shared", "alone"} /\ FreshOf(t) = NoIp /\ client' = client
      BY <1>2 DEF FuncDone, UseOf, FreshOf
    <2>2. fresh' = fresh
      BY <1>0, <1>1, <2>1 DEF fresh
    <2> QED BY <1>0, <1>1, <2>1, <2>2 DEF Shared!Finish, Shared!Become, use, fresh
  <1>3. CASE FuncNewDone(t)
    <2>1. /\ UseOf(t) = "new" /\ FreshOf(t) = target[t]
          /\ client' = [client EXCEPT ![dev[t]] = target[t]]
      BY <1>3 DEF FuncNewDone, UseOf, FreshOf
    <2> QED BY <1>0, <1>1, <2>1 DEF Shared!Store, Shared!Become, use, fresh
  <1> QED BY <1>2, <1>3

\* Every other step of _establish_conn, and of the wait for the write half, is not
\* seen, or is a failure of a device that is not connected.
LEMMA StepsThatFailOrHide ==
    ASSUME Inv, NEW t \in Tasks,
           \/ ClientReadMiss(t) \/ EstablishStart(t) \/ FirstAttemptFails(t)
           \/ DiscoverOk(t) \/ DiscoverErr(t) \/ CacheMerge(t)
           \/ LookupHit(t) \/ LookupMiss(t) \/ RetryFails(t) \/ FallbackFails(t)
    PROVE  Shared!Fail(t) \/ UNCHANGED Shared!vars
  <1> USE DEF Inv
  <1>0. /\ use' = [use EXCEPT ![t] = UseOf(t)']
        /\ fresh' = [fresh EXCEPT ![t] = FreshOf(t)']
        /\ use[t] = UseOf(t) /\ fresh[t] = FreshOf(t)
    BY UseMoves DEF TaskStep, CallStep
  <1>1. /\ UseOf(t) = "waiting" /\ UseOf(t)' \in {"waiting", "back"}
        /\ FreshOf(t)' = NoIp /\ FreshOf(t) = NoIp
        /\ UNCHANGED <<client, dev>>
    BY DEF ClientReadMiss, EstablishStart, FirstAttemptFails, DiscoverOk, DiscoverErr,
           CacheMerge, LookupHit, LookupMiss, RetryFails, FallbackFails, FallBack,
           UseOf, FreshOf, Goto, TypeOK
  <1>2. fresh' = fresh
    BY <1>0, <1>1 DEF fresh
  <1>3. CASE UseOf(t)' = "waiting"
    <2>1. use' = use
      BY <1>0, <1>1, <1>3 DEF use
    <2> QED BY <1>1, <1>2, <2>1 DEF Shared!vars, use, fresh
  <1>4. CASE UseOf(t)' = "back"
    <2>1. LookupMiss(t) \/ RetryFails(t) \/ FallbackFails(t)
      BY <1>4 DEF ClientReadMiss, EstablishStart, FirstAttemptFails, DiscoverOk,
                  DiscoverErr, CacheMerge, LookupHit, UseOf, Goto, TypeOK
    <2>2. client[dev[t]] = NoIp
      BY <2>1 DEF LookupMiss, RetryFails, FallbackFails, ConnectsOnce, Establishing
    <2> QED BY <1>0, <1>1, <1>2, <1>4, <2>2 DEF Shared!Fail, Shared!Become, use, fresh
  <1> QED BY <1>1, <1>3, <1>4

\* Every step of TapoDevice is a step of SharedConnection or is not seen there.
LEMMA StepSimulation ==
    ASSUME Inv, TargetsKnown, [Next]_devVars
    PROVE  [Shared!Next]_Shared!vars
  <1>1. ASSUME NEW t \in Tasks, TaskStep(t) PROVE [Shared!Next]_Shared!vars
    BY <1>1, CallAndLeave, StepsThatOperate, StepsThatOpen, StepsThatEnd,
       StepsThatFailOrHide DEF TaskStep, CallStep, Shared!Next
  <1>2. CASE SweepDone \/ SweepStore \/ UNCHANGED devVars
    <2>1. UNCHANGED <<client, pc, dev, target>>
      BY <1>2, SweepTouches
    <2> QED BY <2>1 DEF Shared!vars, UseOf, FreshOf
  <1> QED BY <1>1, <1>2, NextCases

-----------------------------------------------------------------------------
(* Theorems                                                                *)

\* No path through _establish_conn reaches connect_at without an address.
THEOREM Targets == Spec => []TargetsKnown
  <1>1. Init => TargetsKnown
    BY DEF Init, TargetsKnown
  <1>2. Inv /\ TargetsKnown /\ [Next]_devVars => TargetsKnown'
    BY NextKeepsTargets DEF Inv
  <1> QED BY <1>1, <1>2, Invariance, PTL DEF Spec

\* A TapoDevice keeps its promise: it is a SharedConnection to all who call it.
THEOREM KeepsPromise == Spec => ImplementsSharedConnection
  <1>1. Init => Shared!Init
    BY DEF Init, Shared!Init, UseOf, FreshOf
  <1>2. Inv /\ TargetsKnown /\ [Next]_devVars => [Shared!Next]_Shared!vars
    BY StepSimulation
  <1> QED BY <1>1, <1>2, Invariance, Targets, PTL
          DEF Spec, Shared!Spec, ImplementsSharedConnection
=============================================================================
