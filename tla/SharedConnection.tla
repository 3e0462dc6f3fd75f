-------------------------- MODULE SharedConnection --------------------------
(***************************************************************************)
(* What devices::TapoDevice promises to the tasks that share it, without   *)
(* locks, addresses to try or discovery: one connection per device, opened *)
(* by the first call that succeeds in it and kept from then on; operations *)
(* run on it either beside one another (actions) or alone (the refresh of  *)
(* a session, and the operation that follows the opening).                 *)
(***************************************************************************)
CONSTANTS Tasks, Devices, NoDevice, IPs, NoIp

VARIABLES conn,   \* conn[d]: address the device is connected at, or NoIp
          use,    \* use[t]: what task t does with the device ...
          on,     \* ... on[t]
          fresh   \* fresh[t]: address of a connection t opened but did not store

vars == <<conn, use, on, fresh>>

Others(t) == {u \in Tasks \ {t} : on[u] = on[t]}

NobodyElse(t) == \A u \in Others(t) : use[u] \notin {"shared", "alone", "new"}
NobodyAlone(t) == \A u \in Others(t) : use[u] \notin {"alone", "new"}

Become(t, what) == use' = [use EXCEPT ![t] = what]

Init ==
    /\ conn = [d \in Devices |-> NoIp]
    /\ use = [t \in Tasks |-> "out"]
    /\ on = [t \in Tasks |-> NoDevice]
    /\ fresh = [t \in Tasks |-> NoIp]

Call(t, d) ==
    /\ use[t] = "out"
    /\ Become(t, "waiting")
    /\ on' = [on EXCEPT ![t] = d]
    /\ UNCHANGED <<conn, fresh>>

Operate(t) ==
    /\ use[t] = "waiting"
    /\ conn[on[t]] # NoIp
    /\ \/ NobodyAlone(t) /\ Become(t, "shared")
       \/ NobodyElse(t) /\ Become(t, "alone")
    /\ UNCHANGED <<conn, on, fresh>>

Open(t) ==
    /\ use[t] = "waiting"
    /\ conn[on[t]] = NoIp
    /\ NobodyElse(t)
    /\ Become(t, "new")
    /\ \E ip \in IPs : fresh' = [fresh EXCEPT ![t] = ip]
    /\ UNCHANGED <<conn, on>>

Finish(t) ==
    /\ use[t] \in {"shared", "alone"}
    /\ Become(t, "back")
    /\ UNCHANGED <<conn, on, fresh>>

Store(t) ==
    /\ use[t] = "new"
    /\ Become(t, "back")
    /\ conn' = [conn EXCEPT ![on[t]] = fresh[t]]
    /\ fresh' = [fresh EXCEPT ![t] = NoIp]
    /\ UNCHANGED on

\* Only a device without a connection can fail to be reached.
Fail(t) ==
    /\ use[t] = "waiting"
    /\ conn[on[t]] = NoIp
    /\ Become(t, "back")
    /\ UNCHANGED <<conn, on, fresh>>

\* The caller has its answer, or gives up (a fresh connection is then lost).
Leave(t) ==
    /\ use[t] # "out"
    /\ Become(t, "out")
    /\ on' = [on EXCEPT ![t] = NoDevice]
    /\ fresh' = [fresh EXCEPT ![t] = NoIp]
    /\ UNCHANGED conn

Next ==
    \E t \in Tasks :
        \/ \E d \in Devices : Call(t, d)
        \/ Operate(t) \/ Open(t) \/ Finish(t) \/ Store(t) \/ Fail(t) \/ Leave(t)

Spec == Init /\ [][Next]_vars
=============================================================================
