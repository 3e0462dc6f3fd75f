---------------------------- MODULE RwLockProofs ----------------------------
(***************************************************************************)
(* What holds of the lock of module RwLock for any set of users: its       *)
(* operations keep the outstanding requests in a total order, a writer     *)
(* excludes everybody else, and what one user does never takes a granted   *)
(* guard away from another.                                                *)
(***************************************************************************)
EXTENDS RwLock, TLAPS

\* A lock nobody has requested is in order.
LEMMA NewLockOK ==
    ASSUME NEW U
    PROVE  LockOK(NewLock(U), U)
  BY DEF LockOK, LockType, NewLock, Requested, Modes

\* Enqueue, on the fields of the lock.
LEMMA EnqueueFields ==
    ASSUME NEW U, NEW L, LockOK(L, U), NEW u \in U, NEW m \in Modes, m # "none"
    PROVE  /\ Enqueue(L, u, m) \in LockType(U)
           /\ Enqueue(L, u, m).mode = [L.mode EXCEPT ![u] = m]
           /\ \A v \in U : Enqueue(L, u, m).ahead[v] =
                            IF v # u THEN L.ahead[v] ELSE Enqueue(L, u, m).ahead[u]
           /\ \A v \in U : v \in Enqueue(L, u, m).ahead[u] <=> L.mode[v] # "none"
  BY DEF LockOK, LockType, Enqueue, Requested, Modes

\* Dequeue, on the fields of the lock.
LEMMA DequeueFields ==
    ASSUME NEW U, NEW L, LockOK(L, U), NEW u \in U
    PROVE  /\ Dequeue(L, u) \in LockType(U)
           /\ Dequeue(L, u).mode = [L.mode EXCEPT ![u] = "none"]
           /\ Dequeue(L, u).ahead =
                [v \in U |-> IF v = u THEN {} ELSE L.ahead[v] \ {u}]
  BY DEF LockOK, LockType, Dequeue, Modes

\* A first request goes behind everybody else's.
LEMMA EnqueueOK ==
    ASSUME NEW U, NEW L, LockOK(L, U), NEW u \in U, L.mode[u] = "none",
           NEW m \in Modes, m # "none"
    PROVE  LockOK(Enqueue(L, u, m), U)
  <1> DEFINE M == Enqueue(L, u, m)
  <1>1. /\ M \in LockType(U)
        /\ M.mode = [L.mode EXCEPT ![u] = m]
        /\ \A v \in U : M.ahead[v] = IF v # u THEN L.ahead[v] ELSE M.ahead[u]
        /\ \A v \in U : v \in M.ahead[u] <=> L.mode[v] # "none"
    BY EnqueueFields
  <1> HIDE DEF M
  <1>2. /\ L.mode \in [U -> Modes] /\ L.ahead \in [U -> SUBSET U]
        /\ M.ahead \in [U -> SUBSET U]
    BY <1>1 DEF LockOK, LockType
  <1>3. \A v, w \in U : w \in L.ahead[v] => w # u /\ v # u
    BY <1>2 DEF LockOK, Requested
  <1>4. \A v \in U : M.mode[v] = "none" => M.ahead[v] = {}
    BY <1>1, <1>2 DEF LockOK, Requested
  <1>5. \A v \in U : \A w \in M.ahead[v] : Requested(M, w)
    BY <1>1, <1>2, <1>3 DEF LockOK, Requested
  <1>6. \A v, w \in U : Requested(M, v) /\ Requested(M, w) /\ v # w
                          => (v \in M.ahead[w] <=> w \notin M.ahead[v])
    BY <1>1, <1>2, <1>3 DEF LockOK, Requested
  <1>7. \A v \in U : v \notin M.ahead[v]
    BY <1>1, <1>2, <1>3 DEF LockOK, Requested
  <1>8. \A v \in U : \A w \in M.ahead[v] : M.ahead[w] \subseteq M.ahead[v]
    BY <1>1, <1>2, <1>3 DEF LockOK, Requested
  <1> QED BY <1>1, <1>4, <1>5, <1>6, <1>7, <1>8 DEF LockOK, M

\* Taking a request out leaves the others in order.
LEMMA DequeueOK ==
    ASSUME NEW U, NEW L, LockOK(L, U), NEW u \in U
    PROVE  LockOK(Dequeue(L, u), U)
  <1> DEFINE M == Dequeue(L, u)
  <1>1. /\ M \in LockType(U)
        /\ M.mode = [L.mode EXCEPT ![u] = "none"]
        /\ M.ahead = [v \in U |-> IF v = u THEN {} ELSE L.ahead[v] \ {u}]
    BY DequeueFields
  <1> HIDE DEF M
  <1>2. L.mode \in [U -> Modes] /\ L.ahead \in [U -> SUBSET U]
    BY DEF LockOK, LockType
  <1>3. \A v \in U : M.mode[v] = "none" => M.ahead[v] = {}
    BY <1>1, <1>2 DEF LockOK, Requested
  <1>4. \A v \in U : \A w \in M.ahead[v] : Requested(M, w)
    BY <1>1, <1>2 DEF LockOK, Requested
  <1>5. \A v, w \in U : Requested(M, v) /\ Requested(M, w) /\ v # w
                          => (v \in M.ahead[w] <=> w \notin M.ahead[v])
    BY <1>1, <1>2 DEF LockOK, Requested
  <1>6. \A v \in U : v \notin M.ahead[v]
    BY <1>1, <1>2 DEF LockOK, Requested
  <1>7. \A v \in U : \A w \in M.ahead[v] : M.ahead[w] \subseteq M.ahead[v]
    BY <1>1, <1>2 DEF LockOK, Requested
  <1> QED BY <1>1, <1>3, <1>4, <1>5, <1>6, <1>7 DEF LockOK, M

\* The granted write guard excludes every other granted guard.
LEMMA Exclusion ==
    ASSUME NEW U, NEW L, LockOK(L, U), NEW u \in U, NEW v \in U, u # v,
           Holds(L, u), L.mode[u] = "write"
    PROVE  ~Holds(L, v)
  <1> SUFFICES ASSUME Holds(L, v) PROVE FALSE
    OBVIOUS
  <1>1. L.ahead[u] = {} /\ Requested(L, u) /\ Requested(L, v)
    BY DEF Holds, Requested
  <1>2. u \in L.ahead[v]
    BY <1>1 DEF LockOK
  <1> QED BY <1>2 DEF Holds

\* A granted guard stays granted when somebody else queues up ...
LEMMA EnqueueKeepsOthers ==
    ASSUME NEW U, NEW L, LockOK(L, U), NEW u \in U, L.mode[u] = "none",
           NEW m \in Modes, m # "none", NEW v \in U, v # u
    PROVE  /\ Holds(L, v) => Holds(Enqueue(L, u, m), v)
           /\ Enqueue(L, u, m).mode[v] = L.mode[v]
  <1> DEFINE M == Enqueue(L, u, m)
  <1>1. /\ M.mode = [L.mode EXCEPT ![u] = m]
        /\ \A w \in U : M.ahead[w] = IF w # u THEN L.ahead[w] ELSE M.ahead[u]
    BY EnqueueFields
  <1> HIDE DEF M
  <1>2. L.mode \in [U -> Modes] /\ L.ahead \in [U -> SUBSET U]
    BY DEF LockOK, LockType
  <1>3. M.mode[v] = L.mode[v] /\ M.ahead[v] = L.ahead[v]
    BY <1>1, <1>2
  <1>4. \A w \in L.ahead[v] : w \in U /\ w # u
    BY <1>2 DEF LockOK, Requested
  <1> QED BY <1>1, <1>2, <1>3, <1>4 DEF Holds, M

\* ... and when somebody else leaves.
LEMMA DequeueKeepsOthers ==
    ASSUME NEW U, NEW L, LockOK(L, U), NEW u \in U, NEW v \in U, v # u
    PROVE  /\ Holds(L, v) => Holds(Dequeue(L, u), v)
           /\ Dequeue(L, u).mode[v] = L.mode[v]
  <1> DEFINE M == Dequeue(L, u)
  <1>1. /\ M.mode = [L.mode EXCEPT ![u] = "none"]
        /\ M.ahead = [w \in U |-> IF w = u THEN {} ELSE L.ahead[w] \ {u}]
    BY DequeueFields
  <1> HIDE DEF M
  <1>2. L.mode \in [U -> Modes] /\ L.ahead \in [U -> SUBSET U]
    BY DEF LockOK, LockType
  <1> QED BY <1>1, <1>2 DEF Holds, M

\* What every user but u has of lock L it has of lock M too.
OthersUnaffected(L, M, U, u) ==
    \A v \in U \ {u} : M.mode[v] = L.mode[v] /\ (Holds(L, v) => Holds(M, v))

\* The three ways a user changes a lock, each in one fact.
LEMMA EnqueueStep ==
    ASSUME NEW U, NEW L, LockOK(L, U), NEW u \in U, L.mode[u] = "none",
           NEW m \in Modes, m # "none"
    PROVE  /\ LockOK(Enqueue(L, u, m), U)
           /\ Enqueue(L, u, m).mode[u] = m
           /\ OthersUnaffected(L, Enqueue(L, u, m), U, u)
  <1>0. L.mode \in [U -> Modes]
    BY DEF LockOK, LockType
  <1>1. Enqueue(L, u, m).mode = [L.mode EXCEPT ![u] = m]
    BY DEF Enqueue
  <1>2. OthersUnaffected(L, Enqueue(L, u, m), U, u)
    BY EnqueueKeepsOthers DEF OthersUnaffected
  <1> QED BY <1>0, <1>1, <1>2, EnqueueOK

\* So does leaving, whether with a guard or from the queue.
LEMMA DequeueStep ==
    ASSUME NEW U, NEW L, LockOK(L, U), NEW u \in U
    PROVE  /\ LockOK(Dequeue(L, u), U)
           /\ Dequeue(L, u).mode[u] = "none"
           /\ OthersUnaffected(L, Dequeue(L, u), U, u)
  <1>0. L.mode \in [U -> Modes]
    BY DEF LockOK, LockType
  <1>1. Dequeue(L, u).mode = [L.mode EXCEPT ![u] = "none"]
    BY DEF Dequeue
  <1>2. OthersUnaffected(L, Dequeue(L, u), U, u)
    BY DequeueKeepsOthers DEF OthersUnaffected
  <1> QED BY <1>0, <1>1, <1>2, DequeueOK

\* And leaving to queue again.
LEMMA RequeueStep ==
    ASSUME NEW U, NEW L, LockOK(L, U), NEW u \in U,
           NEW m \in Modes, m # "none"
    PROVE  /\ LockOK(Requeue(L, u, m), U)
           /\ Requeue(L, u, m).mode[u] = m
           /\ OthersUnaffected(L, Requeue(L, u, m), U, u)
  <1> DEFINE K == Dequeue(L, u)
  <1>1. LockOK(K, U) /\ K.mode[u] = "none" /\ OthersUnaffected(L, K, U, u)
    BY DequeueStep
  <1> HIDE DEF K
  <1>2. /\ LockOK(Enqueue(K, u, m), U)
        /\ Enqueue(K, u, m).mode[u] = m
        /\ OthersUnaffected(K, Enqueue(K, u, m), U, u)
    BY <1>1, EnqueueStep
  <1>3. OthersUnaffected(L, Enqueue(K, u, m), U, u)
    BY <1>1, <1>2 DEF OthersUnaffected
  <1> QED BY <1>2, <1>3 DEF Requeue, K
=============================================================================
