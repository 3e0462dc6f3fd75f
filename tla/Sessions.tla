------------------------------ MODULE Sessions ------------------------------
(***************************************************************************)
(* server::sessions::Sessions, its file sessions.json, and the two users   *)
(* of it in server::auth: login, which inserts a session and writes the    *)
(* whole map to disk before it answers, and auth_middleware, which looks   *)
(* one up.  One write lock is held across the insertion and the disk write.*)
(*                                                                         *)
(* tokio::fs::write hands std::fs::write to a thread of the blocking pool: *)
(* it truncates the file, then writes it, and it runs to its end even if   *)
(* the future that waits for it, with the lock, is dropped.  The process   *)
(* has no shutdown handler, so a restart is a kill followed by a start.    *)
(*                                                                         *)
(* Faults says what the environment may do besides killing the process     *)
(* between two writes: "kill" (in the middle of one), "disk" (a write      *)
(* fails), "hangup" (the client of a login disconnects while it runs).     *)
(***************************************************************************)
EXTENDS RwLock, Naturals, FiniteSets

CONSTANTS Logins,  \* POST /login requests with the right password
          Checks,  \* connections whose requests pass auth_middleware
          Sids,    \* session ids
          Faults

ASSUME SessionsAssumption ==
    /\ Logins \cap Checks = {}
    /\ IsFiniteSet(Sids)
    /\ Faults \subseteq {"kill", "disk", "hangup"}

VARIABLES
    phase,   \* "up", "down", or "refused": the last start failed
    map,     \* Sessions.map: the ids of the sessions in memory ...
    lock,    \* ... and its RwLock
    file,    \* sessions.json
    pc,      \* pc[l]: where login l is
    id,      \* id[l]: the id it generated
    job,     \* job[l]: its write in the blocking pool ...
    data,    \* ... and what is to be written
    issued,  \* ids that clients have received (history)
    failed,  \* the last write to end has failed (history)
    harm     \* the Faults that have hit so far (history)

vars == <<phase, map, lock, file, pc, id, job, data, issued, failed, harm>>

Users == Logins \cup Checks

\* A torn file does not parse.  `size' counts the sessions' worth of bytes in it.
Files == [kind : {"absent", "torn", "whole"}, ids : SUBSET Sids,
          size : 0..Cardinality(Sids)]

NoFile    == [kind |-> "absent", ids |-> {}, size |-> 0]
Torn(n)   == [kind |-> "torn", ids |-> {}, size |-> n]
\* Mutant of Whole: one separator too many is counted.
WholePadded(S) == [kind |-> "whole", ids |-> S, size |-> Cardinality(S) + 1]
Whole(S)  == [kind |-> "whole", ids |-> S, size |-> Cardinality(S)]

Larger(m, n) == IF m > n THEN m ELSE n

NoId == "no id"
Writing(l) == job[l] \in {"queued", "opened"}
Goto(l, point) == pc' = [pc EXCEPT ![l] = point]

-----------------------------------------------------------------------------
(* login and Sessions::insert                                              *)

LoginStart(l) ==
    /\ phase = "up"
    /\ pc[l] = "idle"
    /\ \E i \in Sids : id' = [id EXCEPT ![l] = i]
    /\ lock' = Enqueue(lock, l, "write")
    /\ Goto(l, "wait")
    /\ UNCHANGED <<phase, map, file, job, data, issued, failed, harm>>

\* Mutant of Taken: ids are believed to be unique.
NeverTaken(l) == FALSE

Taken(l) == id[l] \in map

InsertDuplicate(l) ==
    /\ pc[l] = "wait"
    /\ Holds(lock, l)
    /\ Taken(l)
    /\ lock' = Dequeue(lock, l)
    /\ Goto(l, "error")
    /\ UNCHANGED <<phase, map, file, id, job, data, issued, failed, harm>>

\* Mutant of Serialised: the map is serialised before the insertion.
SerialisedBefore(l) == map

\* What _flush writes: the map with the new session.
Serialised(l) == map \cup {id[l]}

\* Mutant of Insert: _flush asks for the map that its caller has locked.
InsertRelocks(l) ==
    /\ pc[l] = "wait"
    /\ Holds(lock, l)
    /\ ~Taken(l)
    /\ map' = map \cup {id[l]}
    /\ lock' = Enqueue(lock, l, "write")
    /\ UNCHANGED <<phase, file, pc, id, job, data, issued, failed, harm>>

Insert(l) ==
    /\ pc[l] = "wait"
    /\ Holds(lock, l)
    /\ ~Taken(l)
    /\ map' = map \cup {id[l]}
    /\ job' = [job EXCEPT ![l] = "queued"]
    /\ data' = [data EXCEPT ![l] = Serialised(l)]
    /\ Goto(l, "flush")
    /\ UNCHANGED <<phase, lock, file, id, issued, failed, harm>>

\* Mutant of LoginEnd: the result of the flush is ignored.
LoginEndAnyway(l) ==
    /\ pc[l] = "flush"
    /\ job[l] \in {"ok", "err"}
    /\ lock' = Dequeue(lock, l)
    /\ Goto(l, "done")
    /\ issued' = issued \cup {id[l]}
    /\ UNCHANGED <<phase, map, file, id, job, data, failed, harm>>

\* The flush has ended: the guard is dropped and the client gets its answer.
LoginEnd(l) ==
    /\ pc[l] = "flush"
    /\ job[l] \in {"ok", "err"}
    /\ lock' = Dequeue(lock, l)
    /\ IF job[l] = "ok"
       THEN Goto(l, "done") /\ issued' = issued \cup {id[l]}
       ELSE Goto(l, "error") /\ UNCHANGED issued
    /\ UNCHANGED <<phase, map, file, id, job, data, failed, harm>>

\* The client disconnects: guard and answer are lost, the write goes on.
LoginHangup(l) ==
    /\ "hangup" \in Faults
    /\ pc[l] \in {"wait", "flush"}
    /\ lock' = Dequeue(lock, l)
    /\ Goto(l, "gone")
    /\ harm' = harm \cup {"hangup"}
    /\ UNCHANGED <<phase, map, file, id, job, data, issued, failed>>

-----------------------------------------------------------------------------
(* std::fs::write in the blocking pool                                     *)

WriteOpen(l) ==
    /\ job[l] = "queued"
    /\ job' = [job EXCEPT ![l] = "opened"]
    /\ file' = Torn(0)
    /\ UNCHANGED <<phase, map, lock, pc, id, data, issued, failed, harm>>

\* Every opened write starts at offset 0: a shorter one leaves the tail of a
\* longer one behind.
WriteData(l) ==
    /\ job[l] = "opened"
    /\ job' = [job EXCEPT ![l] = "ok"]
    /\ failed' = FALSE
    /\ file' = IF Cardinality(data[l]) >= file.size THEN Whole(data[l])
                                                    ELSE Torn(file.size)
    /\ UNCHANGED <<phase, map, lock, pc, id, data, issued, harm>>

\* The file cannot be opened, or the disk is full half way.
WriteError(l) ==
    /\ "disk" \in Faults
    /\ Writing(l)
    /\ job' = [job EXCEPT ![l] = "err"]
    /\ failed' = TRUE
    /\ harm' = harm \cup {"disk"}
    /\ IF job[l] = "queued"
       THEN UNCHANGED file
       ELSE \E n \in 0..Cardinality(data[l]) :
              file' = IF n = 0 THEN file ELSE Torn(Larger(n, file.size))
    /\ UNCHANGED <<phase, map, lock, pc, id, data, issued>>

-----------------------------------------------------------------------------
(* auth_middleware and Sessions::get                                       *)

CheckStart(c) ==
    /\ phase = "up"
    /\ ~Requested(lock, c)
    /\ lock' = Enqueue(lock, c, "read")
    /\ UNCHANGED <<phase, map, file, pc, id, job, data, issued, failed, harm>>

CheckEnd(c) ==
    /\ Requested(lock, c) /\ Holds(lock, c)
    /\ lock' = Dequeue(lock, c)
    /\ UNCHANGED <<phase, map, file, pc, id, job, data, issued, failed, harm>>

-----------------------------------------------------------------------------
(* The process.                                                            *)

Kill ==
    /\ phase = "up"
    /\ IF \E l \in Logins : Writing(l)
       THEN "kill" \in Faults /\ harm' = harm \cup {"kill"}
       ELSE UNCHANGED harm
    /\ phase' = "down"
    /\ map' = {}
    /\ lock' = NewLock(Users)
    /\ pc' = [l \in Logins |-> IF pc[l] \in {"wait", "flush"} THEN "error" ELSE pc[l]]
    /\ job' = [l \in Logins |-> "none"]
    /\ data' = [l \in Logins |-> {}]
    /\ failed' = FALSE
    /\ UNCHANGED <<file, id, issued>>

\* Sessions::create: a file that does not parse makes the server exit.
Start ==
    /\ phase = "down"
    /\ IF file.kind = "torn"
       THEN phase' = "refused" /\ UNCHANGED map
       ELSE phase' = "up" /\ map' = file.ids
    /\ UNCHANGED <<lock, file, pc, id, job, data, issued, failed, harm>>

Init ==
    /\ phase = "down"
    /\ map = {}
    /\ lock = NewLock(Users)
    /\ file = NoFile
    /\ pc = [l \in Logins |-> "idle"]
    /\ id = [l \in Logins |-> NoId]
    /\ job = [l \in Logins |-> "none"]
    /\ data = [l \in Logins |-> {}]
    /\ issued = {}
    /\ failed = FALSE
    /\ harm = {}

LoginStep(l) == InsertDuplicate(l) \/ Insert(l) \/ LoginEnd(l)
JobStep(l)   == WriteOpen(l) \/ WriteData(l) \/ WriteError(l)

Next ==
    \/ \E l \in Logins :
         LoginStart(l) \/ LoginStep(l) \/ JobStep(l) \/ LoginHangup(l)
    \/ \E c \in Checks : CheckStart(c) \/ CheckEnd(c)
    \/ Kill
    \/ Start

Spec == Init /\ [][Next]_vars

\* The runtime polls what can run and the blocking pool works off its queue.
Fairness ==
    /\ \A l \in Logins : WF_vars(LoginStep(l)) /\ WF_vars(JobStep(l))
    /\ \A c \in Checks : WF_vars(CheckEnd(c))

FairSpec == Spec /\ Fairness

-----------------------------------------------------------------------------
(* Properties                                                              *)

TypeOK ==
    /\ phase \in {"up", "down", "refused"}
    /\ map \in SUBSET Sids
    /\ lock \in LockType(Users)
    /\ file \in Files
    /\ pc \in [Logins -> {"idle", "wait", "flush", "done", "error", "gone"}]
    /\ id \in [Logins -> Sids \cup {NoId}]
    /\ job \in [Logins -> {"none", "queued", "opened", "ok", "err"}]
    /\ data \in [Logins -> SUBSET Sids]
    /\ issued \in SUBSET Sids
    /\ failed \in BOOLEAN
    /\ harm \in SUBSET Faults

\* README.md:69: "Sessions are preserved after server restart": a server that is
\* restarted starts ...
Restarts == phase # "refused"

\* ... and knows every session id a client has received.
IssuedKept == phase = "up" => issued \subseteq map

NobodyHungUp == "hangup" \notin harm

\* It starts as long as no write was interrupted or failed; and if it starts it
\* knows them, whatever was killed and whichever write failed, as long as nobody
\* hung up while logging in.
SessionsPreserved ==
    /\ harm = {} => Restarts
    /\ NobodyHungUp => IssuedKept

\* As long as nobody hangs up, whenever no write is under way and the last one did
\* not fail, the file is the map: a login that succeeds also saves the sessions
\* which earlier, failed flushes left in memory only, and repairs a torn file.
FileFollowsMap ==
    (phase = "up" /\ map # {} /\ NobodyHungUp /\ ~failed /\ \A l \in Logins : ~Writing(l))
      => file = Whole(map)

\* As long as nobody hangs up, a client receives its id only when the file as it is
\* then contains that id and everybody else's: neither an error nor somebody else's
\* write comes between the flush and the answer.
IssuedWereWritten ==
    [][NobodyHungUp => \A i \in issued' \ issued :
                         file.kind = "whole" /\ map \subseteq file.ids /\ i \in map
      ]_vars

\* Two logins never receive the same session, not even one before and one after a
\* restart, as long as nobody hangs up (a hang-up may make the file forget an id).
SessionsDistinct ==
    NobodyHungUp =>
      \A l, m \in Logins :
        l # m /\ pc[l] = "done" /\ pc[m] = "done" => id[l] # id[m]

\* Every login and every check is answered, unless the process dies.
RequestsEnd ==
    /\ \A l \in Logins : pc[l] = "wait" ~> pc[l] \in {"done", "error", "gone"}
    /\ \A c \in Checks : Requested(lock, c) ~> ~Requested(lock, c)
=============================================================================
