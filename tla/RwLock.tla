------------------------------- MODULE RwLock -------------------------------
(***************************************************************************)
(* The fair reader-writer lock `tokio::sync::RwLock' as the code under     *)
(* src/ uses it: StateData.loaded_config, StateData.device_cache,          *)
(* Sessions.map and TapoDevice.client are all such locks.  The lock itself *)
(* is library code and therefore external.                                 *)
(*                                                                         *)
(* A request that has been made and not yet given up is either granted (a  *)
(* guard is held) or queued.  Requests are served in the order they are    *)
(* made, so a lock is described by what every user has requested and by    *)
(* the users whose requests came before its own:                           *)
(*                                                                         *)
(*   L.mode[u]   "none", "read" or "write": the request u has outstanding  *)
(*   L.ahead[u]  the users whose outstanding requests precede u's          *)
(*                                                                         *)
(* Dropping a guard and dropping a future that is still queued are the     *)
(* same operation: the request disappears from everybody's `ahead'.        *)
(***************************************************************************)

Modes == {"none", "read", "write"}

\* A lock nobody has requested.
NewLock(U) == [mode |-> [u \in U |-> "none"], ahead |-> [u \in U |-> {}]]

Requested(L, u) == L.mode[u] # "none"

\* u's request has been granted: everything ahead of it is compatible with it.
\* A queued writer therefore holds back the readers that arrive after it.
Holds(L, u) ==
    \/ L.mode[u] = "write" /\ L.ahead[u] = {}
    \/ L.mode[u] = "read" /\ \A v \in L.ahead[u] : L.mode[v] = "read"

\* `lock.read()' or `lock.write()' is polled for the first time.
Enqueue(L, u, m) ==
    [mode  |-> [L.mode EXCEPT ![u] = m],
     ahead |-> [L.ahead EXCEPT ![u] = {v \in DOMAIN L.mode : Requested(L, v)}]]

\* The guard is dropped, or the future waiting for it is.
Dequeue(L, u) ==
    [mode  |-> [L.mode EXCEPT ![u] = "none"],
     ahead |-> [v \in DOMAIN L.ahead |->
                  IF v = u THEN {} ELSE L.ahead[v] \ {u}]]

\* One guard is dropped and another one requested with no await in between.
Requeue(L, u, m) == Enqueue(Dequeue(L, u), u, m)

-----------------------------------------------------------------------------
(* What the users of a lock rely on.                                       *)

LockType(U) == [mode : [U -> Modes], ahead : [U -> SUBSET U]]

\* The outstanding requests are totally ordered by `ahead'.
LockOK(L, U) ==
    /\ L \in LockType(U)
    /\ \A u \in U : L.mode[u] = "none" => L.ahead[u] = {}
    /\ \A u \in U : \A v \in L.ahead[u] : Requested(L, v)
    /\ \A u, v \in U :
         Requested(L, u) /\ Requested(L, v) /\ u # v
           => (u \in L.ahead[v] <=> v \notin L.ahead[u])
    /\ \A u \in U : u \notin L.ahead[u]
    /\ \A u \in U : \A v \in L.ahead[u] : L.ahead[v] \subseteq L.ahead[u]
=============================================================================
