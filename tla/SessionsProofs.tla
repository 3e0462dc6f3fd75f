---------------------------- MODULE SessionsProofs ----------------------------
(***************************************************************************)
(* Proofs about Sessions, for any logins, checks and session ids and any   *)
(* set of faults.  The lock guards every path (Guards), hang-ups included; *)
(* as long as nobody hangs up, a write belongs to the login that holds the *)
(* write guard, and there is one of those at most (WritesGuarded).  What   *)
(* the file says of issued sessions follows from that.                     *)
(***************************************************************************)
EXTENDS Sessions, RwLockProofs, FiniteSetTheorems

\* A login has requested the write half exactly while it is in Sessions::insert.
Guards ==
    /\ LockOK(lock, Users)
    /\ \A l \in Logins :
         /\ lock.mode[l] = IF pc[l] \in {"wait", "flush"} THEN "write" ELSE "none"
         /\ pc[l] = "flush" => Holds(lock, l)
         /\ pc[l] \in {"wait", "flush"} => phase = "up" /\ id[l] \in Sids

\* A file is complete, absent or torn; jobs die with the process.
FileSound ==
    /\ file.kind = "whole" => file = Whole(file.ids)
    /\ file.kind = "absent" => file = NoFile
    /\ \A l \in Logins : job[l] # "none" => phase = "up"

\* As long as nobody hangs up, whoever writes holds the guard and writes the map.
WritesGuarded ==
    NobodyHungUp =>
      \A l \in Logins :
        /\ Writing(l) => pc[l] = "flush"
        /\ job[l] = "opened" => file = Torn(0)
        /\ pc[l] = "flush" => /\ data[l] = map
                              /\ id[l] \in map \ issued
                              /\ job[l] = "ok" => file = Whole(map)

\* Sessions are issued when the file has them, and stay in it.
IssuedSaved ==
    NobodyHungUp =>
      /\ file.kind # "torn" => issued \subseteq file.ids
      /\ \A l \in Logins : pc[l] = "done" => id[l] \in issued

\* Without faults only a write that is under way leaves the file torn.
TornWhileWritten ==
    harm = {} /\ file.kind = "torn" => \E l \in Logins : job[l] = "opened"

IInv ==
    /\ TypeOK /\ Guards /\ FileSound /\ WritesGuarded /\ IssuedSaved
    /\ TornWhileWritten /\ SessionsPreserved /\ FileFollowsMap /\ SessionsDistinct

-----------------------------------------------------------------------------
(* Types                                                                   *)

\* The number of ids in a set that may be written.
LEMMA SizeType ==
    ASSUME NEW S \in SUBSET Sids
    PROVE  /\ Cardinality(S) \in 0..Cardinality(Sids)
           /\ Cardinality(Sids) \in Nat
  <1>1. /\ Cardinality(S) \in Nat /\ Cardinality(Sids) \in Nat
        /\ Cardinality(S) <= Cardinality(Sids)
    BY SessionsAssumption, FS_Subset, FS_CardinalityType
  <1> QED BY <1>1

\* Torn and complete files are files.
LEMMA FileTypes ==
    /\ NoFile \in Files
    /\ \A n \in 0..Cardinality(Sids) : Torn(n) \in Files
    /\ \A S \in SUBSET Sids : Whole(S) \in Files
  <1>1. /\ {} \in SUBSET Sids /\ Cardinality(Sids) \in Nat
        /\ \A S \in SUBSET Sids : Cardinality(S) \in 0..Cardinality(Sids)
    BY SizeType
  <1>2. NoFile \in Files
    BY <1>1 DEF NoFile, Files
  <1>3. \A n \in 0..Cardinality(Sids) : Torn(n) \in Files
    BY <1>1 DEF Torn, Files
  <1>4. \A S \in SUBSET Sids : Whole(S) \in Files
    BY <1>1 DEF Whole, Files
  <1> QED BY <1>2, <1>3, <1>4

\* The steps of a write leave a file and a job behind.
LEMMA JobKeepsTypes ==
    ASSUME TypeOK, NEW l \in Logins, JobStep(l)
    PROVE  /\ file' \in Files
           /\ job' \in [Logins -> {"none", "queued", "opened", "ok", "err"}]
           /\ failed' \in BOOLEAN
           /\ harm' \in SUBSET Faults
           /\ UNCHANGED <<phase, map, lock, pc, id, data, issued>>
  <1>1. /\ Cardinality(Sids) \in Nat
        /\ data[l] \in SUBSET Sids
        /\ Cardinality(data[l]) \in 0..Cardinality(Sids)
        /\ file.size \in 0..Cardinality(Sids)
    BY SizeType DEF TypeOK, Files
  <1>2. CASE WriteOpen(l)
    BY <1>1, <1>2, FileTypes DEF WriteOpen, TypeOK
  <1>3. CASE WriteData(l)
    BY <1>1, <1>3, FileTypes DEF WriteData, TypeOK
  <1>4. CASE WriteError(l)
    <2>1. \A n \in 0..Cardinality(data[l]) :
            Larger(n, file.size) \in 0..Cardinality(Sids)
      BY <1>1 DEF Larger
    <2>2. file' \in Files
      BY <1>4, <2>1, FileTypes DEF WriteError, TypeOK
    <2> QED BY <1>4, <2>2 DEF WriteError, TypeOK
  <1> QED BY <1>2, <1>3, <1>4 DEF JobStep

\* Every step keeps the types; that of the lock comes with Guards.
LEMMA NextKeepsTypes ==
    ASSUME TypeOK, Guards, Guards', [Next]_vars
    PROVE  TypeOK'
  <1>1. lock' \in LockType(Users)
    BY DEF Guards, LockOK
  <1>2. ASSUME NEW l \in Logins, LoginStart(l) PROVE TypeOK'
    BY <1>1, <1>2 DEF TypeOK, LoginStart, Goto
  <1>3. ASSUME NEW l \in Logins, LoginStep(l) PROVE TypeOK'
    <2>1. pc[l] \in {"wait", "flush"} /\ id[l] \in Sids
      BY <1>3 DEF Guards, LoginStep, InsertDuplicate, Insert, LoginEnd
    <2>2. CASE InsertDuplicate(l)
      BY <1>1, <2>2 DEF TypeOK, InsertDuplicate, Goto
    <2>3. CASE Insert(l)
      BY <1>1, <2>1, <2>3 DEF TypeOK, Insert, Goto, Serialised
    <2>4. CASE LoginEnd(l)
      BY <1>1, <2>1, <2>4 DEF TypeOK, LoginEnd, Goto
    <2> QED BY <1>3, <2>2, <2>3, <2>4 DEF LoginStep
  <1>4. ASSUME NEW l \in Logins, JobStep(l) PROVE TypeOK'
    BY <1>4, JobKeepsTypes DEF TypeOK
  <1>5. ASSUME NEW l \in Logins, LoginHangup(l) PROVE TypeOK'
    BY <1>1, <1>5 DEF TypeOK, LoginHangup, Goto
  <1>6. ASSUME NEW c \in Checks, CheckStart(c) \/ CheckEnd(c) PROVE TypeOK'
    BY <1>1, <1>6 DEF TypeOK, CheckStart, CheckEnd
  <1>7. CASE Kill
    BY <1>1, <1>7 DEF TypeOK, Kill
  <1>8. CASE Start
    BY <1>8 DEF TypeOK, Start, Files
  <1>9. CASE UNCHANGED vars
    BY <1>9 DEF TypeOK, vars
  <1> QED BY <1>2, <1>3, <1>4, <1>5, <1>6, <1>7, <1>8, <1>9 DEF Next

-----------------------------------------------------------------------------
(* Guards                                                                  *)

\* To show that a step of login l keeps Guards it is enough to look at l.
LEMMA OneLoginMoves ==
    ASSUME Guards, NEW l \in Logins,
           \A m \in Logins \ {l} : pc'[m] = pc[m] /\ id'[m] = id[m],
           phase' = phase,
           LockOK(lock', Users),
           OthersUnaffected(lock, lock', Users, l),
           lock'.mode[l] = IF pc'[l] \in {"wait", "flush"} THEN "write" ELSE "none",
           pc'[l] = "flush" => Holds(lock', l),
           pc'[l] \in {"wait", "flush"} => phase = "up" /\ id'[l] \in Sids
    PROVE  Guards'
  BY DEF Guards, OthersUnaffected, Users

\* Every step keeps the guards, a hang-up and a kill included.
LEMMA NextKeepsGuards ==
    ASSUME TypeOK, Guards, [Next]_vars
    PROVE  Guards'
  <1>1. LockOK(lock, Users) /\ "read" \in Modes /\ "write" \in Modes
    BY DEF Guards, Modes
  <1>2. ASSUME NEW l \in Logins, LoginStart(l) PROVE Guards'
    <2>1. /\ pc'[l] = "wait" /\ id'[l] \in Sids /\ phase = "up" /\ phase' = phase
          /\ \A m \in Logins \ {l} : pc'[m] = pc[m] /\ id'[m] = id[m]
          /\ lock' = Enqueue(lock, l, "write")
      BY <1>2 DEF LoginStart, Goto, TypeOK
    <2>2. lock.mode[l] = "none" /\ l \in Users
      BY <1>2 DEF LoginStart, Guards, Users
    <2>3. /\ LockOK(lock', Users) /\ lock'.mode[l] = "write"
          /\ OthersUnaffected(lock, lock', Users, l)
      BY <1>1, <2>1, <2>2, EnqueueStep
    <2> QED BY <2>1, <2>3, OneLoginMoves
  <1>3. ASSUME NEW l \in Logins, Insert(l) PROVE Guards'
    <2>1. /\ pc'[l] = "flush" /\ UNCHANGED <<phase, lock, id>>
          /\ \A m \in Logins \ {l} : pc'[m] = pc[m]
      BY <1>3 DEF Insert, Goto, TypeOK
    <2>2. /\ Holds(lock, l) /\ lock.mode[l] = "write"
          /\ phase = "up" /\ id[l] \in Sids
      BY <1>3 DEF Insert, Guards
    <2>3. OthersUnaffected(lock, lock', Users, l)
      BY <2>1 DEF OthersUnaffected
    <2> QED BY <1>1, <2>1, <2>2, <2>3, OneLoginMoves
  <1>4. ASSUME NEW l \in Logins, InsertDuplicate(l) \/ LoginEnd(l) \/ LoginHangup(l)
        PROVE  Guards'
    <2>1. /\ pc'[l] \in {"done", "error", "gone"} /\ UNCHANGED <<phase, id>>
          /\ \A m \in Logins \ {l} : pc'[m] = pc[m]
          /\ lock' = Dequeue(lock, l)
      BY <1>4 DEF InsertDuplicate, LoginEnd, LoginHangup, Goto, TypeOK
    <2>2. /\ LockOK(lock', Users) /\ lock'.mode[l] = "none"
          /\ OthersUnaffected(lock, lock', Users, l)
      BY <1>1, <2>1, DequeueStep DEF Users
    <2> QED BY <2>1, <2>2, OneLoginMoves
  <1>5. ASSUME NEW l \in Logins, JobStep(l) PROVE Guards'
    BY <1>5, JobKeepsTypes DEF Guards
  <1>6. ASSUME NEW c \in Checks, CheckStart(c) \/ CheckEnd(c) PROVE Guards'
    <2>1. c \in Users /\ c \notin Logins /\ UNCHANGED <<phase, pc, id>>
      BY <1>6, SessionsAssumption DEF Users, CheckStart, CheckEnd
    <2>2. LockOK(lock', Users) /\ OthersUnaffected(lock, lock', Users, c)
      <3>1. CASE CheckStart(c)
        <4>1. lock.mode[c] = "none" /\ lock' = Enqueue(lock, c, "read")
          BY <3>1 DEF CheckStart, Requested
        <4> QED BY <1>1, <2>1, <4>1, EnqueueStep
      <3>2. CASE CheckEnd(c)
        <4>1. lock' = Dequeue(lock, c)
          BY <3>2 DEF CheckEnd
        <4> QED BY <1>1, <2>1, <4>1, DequeueStep
      <3> QED BY <1>6, <3>1, <3>2
    <2> QED BY <2>1, <2>2 DEF Guards, OthersUnaffected, Users
  <1>7. CASE Kill
    <2>1. lock' = NewLock(Users) /\ \A l \in Logins : pc'[l] \notin {"wait", "flush"}
      BY <1>7 DEF Kill
    <2>2. LockOK(lock', Users) /\ \A l \in Logins : lock'.mode[l] = "none"
      BY <2>1, NewLockOK DEF NewLock, Users
    <2> QED BY <2>1, <2>2 DEF Guards
  <1>8. CASE Start
    BY <1>8 DEF Start, Guards
  <1>9. CASE UNCHANGED vars
    BY <1>9 DEF vars, Guards
  <1> QED BY <1>2, <1>3, <1>4, <1>5, <1>6, <1>7, <1>8, <1>9 DEF Next, LoginStep

\* One login at a time is past its insertion and not yet done.
LEMMA OneAtATime ==
    ASSUME Guards, NEW l \in Logins, NEW m \in Logins, l # m, pc[l] = "flush"
    PROVE  ~(pc[m] \in {"wait", "flush"} /\ Holds(lock, m))
  <1>1. l \in Users /\ m \in Users
    BY DEF Users
  <1> QED BY <1>1, Exclusion DEF Guards

-----------------------------------------------------------------------------
(* The file                                                                *)

\* What has gone wrong stays gone wrong.
LEMMA HarmStays ==
    ASSUME [Next]_vars
    PROVE  harm \subseteq harm' /\ (NobodyHungUp' => NobodyHungUp)
  <1>1. harm \subseteq harm'
    BY DEF Next, vars, LoginStart, LoginStep, InsertDuplicate, Insert, LoginEnd,
           LoginHangup, JobStep, WriteOpen, WriteData, WriteError,
           CheckStart, CheckEnd, Kill, Start
  <1> QED BY <1>1 DEF NobodyHungUp

\* While one login inserts or flushes, no other one does, nor has a write going.
LEMMA OneWriter ==
    ASSUME Guards, WritesGuarded, NobodyHungUp, NEW l \in Logins,
           pc[l] = "flush" \/ (pc[l] = "wait" /\ Holds(lock, l))
    PROVE  \A m \in Logins \ {l} : pc[m] # "flush" /\ ~Writing(m)
  <1>1. Holds(lock, l)
    BY DEF Guards
  <1>2. ASSUME NEW m \in Logins \ {l}, pc[m] = "flush" PROVE FALSE
    BY <1>1, <1>2, OneAtATime
  <1> QED BY <1>2 DEF WritesGuarded

\* A write that ends well leaves the map in the file.
LEMMA WriteDataWritesMap ==
    ASSUME TypeOK, Guards, WritesGuarded, NobodyHungUp, NEW l \in Logins, WriteData(l)
    PROVE  pc[l] = "flush" /\ file' = Whole(map)
  <1>1. pc[l] = "flush" /\ data[l] = map /\ file = Torn(0)
    BY DEF WriteData, WritesGuarded, Writing
  <1>2. file.size = 0 /\ Cardinality(map) \in Nat
    BY <1>1, SizeType DEF Torn, TypeOK
  <1> QED BY <1>1, <1>2 DEF WriteData

\* Every step keeps FileSound.
LEMMA NextKeepsFileSound ==
    ASSUME TypeOK, Guards, FileSound, [Next]_vars
    PROVE  FileSound'
  <1>1. ASSUME NEW l \in Logins,
               LoginStart(l) \/ InsertDuplicate(l) \/ LoginEnd(l) \/ LoginHangup(l)
        PROVE  FileSound'
    BY <1>1 DEF FileSound, LoginStart, InsertDuplicate, LoginEnd, LoginHangup
  <1>2. ASSUME NEW l \in Logins, Insert(l) PROVE FileSound'
    BY <1>2 DEF FileSound, Insert, Guards, TypeOK
  <1>3. ASSUME NEW l \in Logins, JobStep(l) PROVE FileSound'
    <2>1. job[l] # "none" /\ phase' = phase
      BY <1>3 DEF JobStep, WriteOpen, WriteData, WriteError, Writing
    <2>2. \A m \in Logins \ {l} : job'[m] = job[m]
      BY <1>3 DEF JobStep, WriteOpen, WriteData, WriteError, TypeOK
    <2>3. file' = file \/ file'.kind = "torn" \/ file' = Whole(data[l])
      BY <1>3 DEF JobStep, WriteOpen, WriteData, WriteError, Torn
    <2> QED BY <2>1, <2>2, <2>3 DEF FileSound, Whole
  <1>4. ASSUME NEW c \in Checks, CheckStart(c) \/ CheckEnd(c) PROVE FileSound'
    BY <1>4 DEF FileSound, CheckStart, CheckEnd
  <1>5. CASE Kill
    BY <1>5 DEF FileSound, Kill
  <1>6. CASE Start
    BY <1>6 DEF FileSound, Start
  <1>7. CASE UNCHANGED vars
    BY <1>7 DEF FileSound, vars
  <1> QED BY <1>1, <1>2, <1>3, <1>4, <1>5, <1>6, <1>7 DEF Next, LoginStep

\* Every step keeps WritesGuarded.  An insertion is of an id nobody has received,
\* because the map has all of those.
LEMMA NextKeepsWritesGuarded ==
    ASSUME TypeOK, Guards, FileSound, WritesGuarded, SessionsPreserved, [Next]_vars
    PROVE  WritesGuarded'
  <1> SUFFICES ASSUME NobodyHungUp' PROVE WritesGuarded'
    BY DEF WritesGuarded
  <1>0. NobodyHungUp
    BY HarmStays
  <1>1. ASSUME NEW l \in Logins, LoginStart(l) PROVE WritesGuarded'
    <2>1. /\ \A m \in Logins : pc'[m] = IF m = l THEN "wait" ELSE pc[m]
          /\ \A m \in Logins \ {l} : id'[m] = id[m]
          /\ pc[l] = "idle"
          /\ UNCHANGED <<map, file, job, data, issued>>
      BY <1>1 DEF LoginStart, Goto, TypeOK
    <2> QED BY <1>0, <2>1 DEF WritesGuarded, Writing
  <1>2. ASSUME NEW l \in Logins, InsertDuplicate(l) PROVE WritesGuarded'
    <2>1. /\ \A m \in Logins : pc'[m] = IF m = l THEN "error" ELSE pc[m]
          /\ pc[l] = "wait"
          /\ UNCHANGED <<map, file, id, job, data, issued>>
      BY <1>2 DEF InsertDuplicate, Goto, TypeOK
    <2> QED BY <1>0, <2>1 DEF WritesGuarded, Writing
  <1>3. ASSUME NEW l \in Logins, Insert(l) PROVE WritesGuarded'
    <2>1. \A m \in Logins \ {l} : pc[m] # "flush" /\ ~Writing(m)
      BY <1>0, <1>3, OneWriter DEF Insert
    <2>2. phase = "up" /\ issued \subseteq map /\ id[l] \notin map
      BY <1>0, <1>3 DEF Insert, Guards, Taken, SessionsPreserved, IssuedKept
    <2>3. /\ \A m \in Logins : /\ pc'[m] = IF m = l THEN "flush" ELSE pc[m]
                               /\ job'[m] = IF m = l THEN "queued" ELSE job[m]
          /\ data'[l] = map' /\ id'[l] \in map' \ issued'
      BY <1>3, <2>2 DEF Insert, Goto, TypeOK, Serialised
    <2> QED BY <2>1, <2>3 DEF WritesGuarded, Writing
  <1>4. ASSUME NEW l \in Logins, LoginEnd(l) PROVE WritesGuarded'
    <2>1. \A m \in Logins \ {l} : pc[m] # "flush" /\ ~Writing(m)
      BY <1>0, <1>4, OneWriter DEF LoginEnd
    <2>2. /\ pc'[l] \in {"done", "error"} /\ job'[l] \in {"ok", "err"}
          /\ \A m \in Logins \ {l} : pc'[m] = pc[m]
          /\ job' = job
      BY <1>4 DEF LoginEnd, Goto, TypeOK
    <2> QED BY <2>1, <2>2 DEF WritesGuarded, Writing
  <1>5. ASSUME NEW l \in Logins, LoginHangup(l) PROVE WritesGuarded'
    BY <1>5 DEF LoginHangup, NobodyHungUp
  <1>6. ASSUME NEW l \in Logins, JobStep(l) PROVE WritesGuarded'
    <2>1. pc[l] = "flush" /\ data[l] = map /\ id[l] \in map \ issued
      BY <1>0, <1>6 DEF JobStep, WriteOpen, WriteData, WriteError, Writing, WritesGuarded
    <2>2. \A m \in Logins \ {l} : pc[m] # "flush" /\ ~Writing(m)
      BY <1>0, <2>1, OneWriter
    <2>3. /\ \A m \in Logins \ {l} : job'[m] = job[m]
          /\ UNCHANGED <<map, pc, id, data, issued>>
      BY <1>6 DEF JobStep, WriteOpen, WriteData, WriteError, TypeOK
    <2>4. /\ job'[l] = "opened" => file' = Torn(0)
          /\ job'[l] = "ok" => file' = Whole(map)
      BY <1>0, <1>6, WriteDataWritesMap
         DEF JobStep, WriteOpen, WriteData, WriteError, TypeOK
    <2> QED BY <2>1, <2>2, <2>3, <2>4 DEF WritesGuarded, Writing
  <1>7. ASSUME NEW c \in Checks, CheckStart(c) \/ CheckEnd(c) PROVE WritesGuarded'
    BY <1>0, <1>7 DEF WritesGuarded, Writing, CheckStart, CheckEnd
  <1>8. CASE Kill
    BY <1>8 DEF WritesGuarded, Writing, Kill
  <1>9. CASE Start
    BY <1>9 DEF WritesGuarded, Writing, Start, Guards, FileSound
  <1>10. CASE UNCHANGED vars
    BY <1>0, <1>10 DEF WritesGuarded, Writing, vars
  <1> QED BY <1>1, <1>2, <1>3, <1>4, <1>5, <1>6, <1>7, <1>8, <1>9, <1>10
          DEF Next, LoginStep

\* A login that is answered with an id: the file has that id and everybody's.
LEMMA AnswerIsSaved ==
    ASSUME TypeOK, Guards, WritesGuarded, SessionsPreserved, NobodyHungUp,
           NEW l \in Logins, LoginEnd(l), job[l] = "ok"
    PROVE  /\ file = Whole(map)
           /\ issued \subseteq map
           /\ id[l] \in map \ issued
           /\ issued' = issued \cup {id[l]}
  BY DEF LoginEnd, WritesGuarded, SessionsPreserved, IssuedKept, Guards

\* Every step keeps IssuedSaved.
LEMMA NextKeepsIssuedSaved ==
    ASSUME TypeOK, Guards, WritesGuarded, SessionsPreserved, IssuedSaved, [Next]_vars
    PROVE  IssuedSaved'
  <1> SUFFICES ASSUME NobodyHungUp' PROVE IssuedSaved'
    BY DEF IssuedSaved
  <1>0. NobodyHungUp
    BY HarmStays
  <1>1. ASSUME NEW l \in Logins, LoginStart(l) \/ InsertDuplicate(l) \/ Insert(l)
        PROVE  IssuedSaved'
    <2>1. /\ UNCHANGED <<file, issued>>
          /\ \A m \in Logins : pc'[m] = "done" => pc[m] = "done" /\ id'[m] = id[m]
      BY <1>1 DEF LoginStart, InsertDuplicate, Insert, Goto, TypeOK
    <2> QED BY <1>0, <2>1 DEF IssuedSaved
  <1>2. ASSUME NEW l \in Logins, LoginEnd(l) PROVE IssuedSaved'
    <2>1. /\ UNCHANGED <<file, id>>
          /\ \A m \in Logins \ {l} : pc'[m] = pc[m]
      BY <1>2 DEF LoginEnd, Goto, TypeOK
    <2>2. CASE job[l] = "ok"
      BY <1>0, <1>2, <2>1, <2>2, AnswerIsSaved DEF IssuedSaved, Whole
    <2>3. CASE job[l] # "ok"
      <3>1. pc'[l] = "error" /\ issued' = issued
        BY <1>2, <2>3 DEF LoginEnd, Goto, TypeOK
      <3> QED BY <1>0, <2>1, <3>1 DEF IssuedSaved
    <2> QED BY <2>2, <2>3
  <1>3. ASSUME NEW l \in Logins, LoginHangup(l) PROVE IssuedSaved'
    BY <1>3 DEF LoginHangup, NobodyHungUp
  <1>4. ASSUME NEW l \in Logins, JobStep(l) PROVE IssuedSaved'
    <2>1. UNCHANGED <<pc, id, issued>>
      BY <1>4, JobKeepsTypes
    <2>2. phase = "up" => issued \subseteq map
      BY <1>0 DEF SessionsPreserved, IssuedKept
    <2>3. file' = file \/ file'.kind = "torn" \/ (pc[l] = "flush" /\ file' = Whole(map))
      BY <1>0, <1>4, WriteDataWritesMap DEF JobStep, WriteOpen, WriteError, Torn
    <2> QED BY <1>0, <2>1, <2>2, <2>3 DEF IssuedSaved, Whole, Guards
  <1>5. ASSUME NEW c \in Checks, CheckStart(c) \/ CheckEnd(c) PROVE IssuedSaved'
    BY <1>0, <1>5 DEF IssuedSaved, CheckStart, CheckEnd
  <1>6. CASE Kill
    BY <1>0, <1>6 DEF IssuedSaved, Kill
  <1>7. CASE Start
    BY <1>0, <1>7 DEF IssuedSaved, Start
  <1>8. CASE UNCHANGED vars
    BY <1>0, <1>8 DEF IssuedSaved, vars
  <1> QED BY <1>1, <1>2, <1>3, <1>4, <1>5, <1>6, <1>7, <1>8 DEF Next, LoginStep

\* Every step keeps TornWhileWritten: while nothing goes wrong, only the end of the
\* write that truncated the file lets go of it, and that writes the whole map.
LEMMA NextKeepsTornWhileWritten ==
    ASSUME TypeOK, Guards, WritesGuarded, TornWhileWritten, [Next]_vars
    PROVE  TornWhileWritten'
  <1> SUFFICES ASSUME harm' = {}, file'.kind = "torn"
               PROVE  \E l \in Logins : job'[l] = "opened"
    BY DEF TornWhileWritten
  <1>0. harm = {} /\ NobodyHungUp
    BY HarmStays DEF NobodyHungUp
  <1>1. ASSUME NEW l \in Logins, Insert(l) PROVE \E m \in Logins : job'[m] = "opened"
    <2>1. ~Writing(l) /\ file' = file /\ \A m \in Logins \ {l} : job'[m] = job[m]
      BY <1>0, <1>1 DEF Insert, WritesGuarded, TypeOK
    <2> QED BY <1>0, <2>1 DEF TornWhileWritten, Writing
  <1>2. ASSUME NEW l \in Logins, JobStep(l) PROVE \E m \in Logins : job'[m] = "opened"
    <2>1. CASE WriteOpen(l)
      BY <2>1 DEF WriteOpen, TypeOK
    <2>2. CASE WriteData(l)
      BY <1>0, <2>2, WriteDataWritesMap DEF Whole
    <2>3. CASE WriteError(l)
      BY <2>3 DEF WriteError
    <2> QED BY <1>2, <2>1, <2>2, <2>3 DEF JobStep
  <1>3. ASSUME NEW l \in Logins,
               LoginStart(l) \/ InsertDuplicate(l) \/ LoginEnd(l) \/ LoginHangup(l)
        PROVE  \E m \in Logins : job'[m] = "opened"
    BY <1>0, <1>3
       DEF TornWhileWritten, LoginStart, InsertDuplicate, LoginEnd, LoginHangup
  <1>4. ASSUME NEW c \in Checks, CheckStart(c) \/ CheckEnd(c)
        PROVE  \E m \in Logins : job'[m] = "opened"
    BY <1>0, <1>4 DEF TornWhileWritten, CheckStart, CheckEnd
  <1>5. CASE Kill
    <2>1. file' = file /\ ~\E l \in Logins : Writing(l)
      BY <1>5 DEF Kill
    <2> QED BY <1>0, <2>1 DEF TornWhileWritten, Writing
  <1>6. CASE Start
    BY <1>0, <1>6 DEF TornWhileWritten, Start
  <1>7. CASE UNCHANGED vars
    BY <1>0, <1>7 DEF TornWhileWritten, vars
  <1> QED BY <1>1, <1>2, <1>3, <1>4, <1>5, <1>6, <1>7 DEF Next, LoginStep

-----------------------------------------------------------------------------
(* What the runs check                                                     *)

\* Every step keeps SessionsPreserved: a start finds the file sound, and with it
\* every id that was issued.
LEMMA NextKeepsSessionsPreserved ==
    ASSUME TypeOK, Guards, FileSound, WritesGuarded, IssuedSaved, TornWhileWritten,
           SessionsPreserved, [Next]_vars
    PROVE  SessionsPreserved'
  <1>0. NobodyHungUp' => NobodyHungUp
    BY HarmStays
  <1>1. ASSUME NEW l \in Logins,
               \/ LoginStart(l) \/ InsertDuplicate(l) \/ Insert(l) \/ LoginHangup(l)
               \/ JobStep(l)
        PROVE  SessionsPreserved'
    <2>1. UNCHANGED <<phase, issued>> /\ map \subseteq map' /\ (harm' = {} => harm = {})
      BY <1>1 DEF LoginStart, InsertDuplicate, Insert, LoginHangup,
                  JobStep, WriteOpen, WriteData, WriteError
    <2> QED BY <1>0, <2>1 DEF SessionsPreserved, Restarts, IssuedKept
  <1>2. ASSUME NEW l \in Logins, LoginEnd(l) PROVE SessionsPreserved'
    <2>1. UNCHANGED <<phase, map, harm>>
      BY <1>2 DEF LoginEnd
    <2>2. NobodyHungUp /\ phase = "up" => issued' \subseteq map
      BY <1>2, AnswerIsSaved DEF LoginEnd, SessionsPreserved, IssuedKept
    <2> QED BY <1>0, <2>1, <2>2 DEF SessionsPreserved, Restarts, IssuedKept
  <1>3. ASSUME NEW c \in Checks, CheckStart(c) \/ CheckEnd(c) PROVE SessionsPreserved'
    BY <1>0, <1>3 DEF SessionsPreserved, Restarts, IssuedKept, CheckStart, CheckEnd
  <1>4. CASE Kill
    BY <1>4 DEF SessionsPreserved, Restarts, IssuedKept, Kill
  <1>5. CASE Start
    <2>1. CASE file.kind = "torn"
      <3>1. harm' # {}
        BY <1>5, <2>1 DEF Start, TornWhileWritten, FileSound
      <3> QED BY <1>5, <2>1, <3>1 DEF Start, SessionsPreserved, IssuedKept
    <2>2. CASE file.kind # "torn"
      BY <1>0, <1>5, <2>2 DEF Start, SessionsPreserved, Restarts, IssuedKept, IssuedSaved
    <2> QED BY <2>1, <2>2
  <1>6. CASE UNCHANGED vars
    BY <1>0, <1>6 DEF SessionsPreserved, Restarts, IssuedKept, vars
  <1> QED BY <1>1, <1>2, <1>3, <1>4, <1>5, <1>6 DEF Next, LoginStep

\* Every step keeps FileFollowsMap.
LEMMA NextKeepsFileFollowsMap ==
    ASSUME TypeOK, Guards, FileSound, WritesGuarded, FileFollowsMap, [Next]_vars
    PROVE  FileFollowsMap'
  <1>0. NobodyHungUp' => NobodyHungUp
    BY HarmStays
  <1>1. ASSUME NEW l \in Logins,
               LoginStart(l) \/ InsertDuplicate(l) \/ LoginEnd(l) \/ LoginHangup(l)
        PROVE  FileFollowsMap'
    <2>1. UNCHANGED <<phase, map, file, job, failed>>
      BY <1>1 DEF LoginStart, InsertDuplicate, LoginEnd, LoginHangup
    <2> QED BY <1>0, <2>1 DEF FileFollowsMap, Writing
  <1>2. ASSUME NEW l \in Logins, Insert(l) PROVE FileFollowsMap'
    <2>1. job'[l] = "queued"
      BY <1>2 DEF Insert, TypeOK
    <2> QED BY <2>1 DEF FileFollowsMap, Writing
  <1>3. ASSUME NEW l \in Logins, JobStep(l) PROVE FileFollowsMap'
    <2>1. CASE WriteOpen(l)
      <3>1. job'[l] = "opened"
        BY <2>1 DEF WriteOpen, TypeOK
      <3> QED BY <3>1 DEF FileFollowsMap, Writing
    <2>2. CASE WriteData(l)
      <3>1. NobodyHungUp' => file' = Whole(map')
        BY <1>0, <2>2, WriteDataWritesMap DEF WriteData
      <3> QED BY <3>1 DEF FileFollowsMap
    <2>3. CASE WriteError(l)
      BY <2>3 DEF FileFollowsMap, WriteError
    <2> QED BY <1>3, <2>1, <2>2, <2>3 DEF JobStep
  <1>4. ASSUME NEW c \in Checks, CheckStart(c) \/ CheckEnd(c) PROVE FileFollowsMap'
    <2>1. UNCHANGED <<phase, map, file, job, failed>>
      BY <1>4 DEF CheckStart, CheckEnd
    <2> QED BY <1>0, <2>1 DEF FileFollowsMap, Writing
  <1>5. CASE Kill
    BY <1>5 DEF FileFollowsMap, Kill
  <1>6. CASE Start
    <2> SUFFICES ASSUME phase' = "up", map' # {} PROVE file' = Whole(map')
      BY DEF FileFollowsMap
    <2>1. file.kind # "torn" /\ map' = file.ids /\ file' = file
      BY <1>6 DEF Start
    <2>2. file.kind = "whole"
      BY <2>1 DEF FileSound, NoFile, TypeOK, Files
    <2> QED BY <2>1, <2>2 DEF FileSound
  <1>7. CASE UNCHANGED vars
    BY <1>0, <1>7 DEF FileFollowsMap, Writing, vars
  <1> QED BY <1>1, <1>2, <1>3, <1>4, <1>5, <1>6, <1>7 DEF Next, LoginStep

\* Every step keeps SessionsDistinct.
LEMMA NextKeepsSessionsDistinct ==
    ASSUME TypeOK, Guards, WritesGuarded, IssuedSaved, SessionsPreserved,
           SessionsDistinct, [Next]_vars
    PROVE  SessionsDistinct'
  <1> SUFFICES ASSUME NobodyHungUp' PROVE SessionsDistinct'
    BY DEF SessionsDistinct
  <1>0. NobodyHungUp
    BY HarmStays
  <1>1. ASSUME NEW l \in Logins, LoginEnd(l), job[l] = "ok" PROVE SessionsDistinct'
    <2>1. id[l] \notin issued
      BY <1>0, <1>1, AnswerIsSaved
    <2>2. id' = id /\ \A m \in Logins \ {l} : pc'[m] = pc[m]
      BY <1>1 DEF LoginEnd, Goto, TypeOK
    <2> QED BY <1>0, <2>1, <2>2 DEF SessionsDistinct, IssuedSaved
  <1>2. ASSUME \A m \in Logins : pc'[m] = "done" => pc[m] = "done" /\ id'[m] = id[m]
        PROVE  SessionsDistinct'
    BY <1>0, <1>2 DEF SessionsDistinct
  <1>3. ASSUME NEW l \in Logins,
               \/ LoginStart(l) \/ InsertDuplicate(l) \/ Insert(l) \/ LoginHangup(l)
               \/ (LoginEnd(l) /\ job[l] # "ok")
        PROVE  SessionsDistinct'
    <2>1. \A m \in Logins : pc'[m] = "done" => pc[m] = "done" /\ id'[m] = id[m]
      BY <1>3 DEF LoginStart, InsertDuplicate, Insert, LoginHangup, LoginEnd, Goto, TypeOK
    <2> QED BY <1>2, <2>1
  <1>4. ASSUME NEW l \in Logins, JobStep(l) PROVE SessionsDistinct'
    BY <1>2, <1>4, JobKeepsTypes
  <1>5. ASSUME NEW c \in Checks, CheckStart(c) \/ CheckEnd(c) PROVE SessionsDistinct'
    BY <1>2, <1>5 DEF CheckStart, CheckEnd
  <1>6. CASE Kill
    <2>1. \A m \in Logins : pc'[m] = "done" => pc[m] = "done" /\ id'[m] = id[m]
      BY <1>6 DEF Kill
    <2> QED BY <1>2, <2>1
  <1>7. CASE Start
    BY <1>2, <1>7 DEF Start
  <1>8. CASE UNCHANGED vars
    BY <1>2, <1>8 DEF vars
  <1> QED BY <1>1, <1>3, <1>4, <1>5, <1>6, <1>7, <1>8 DEF Next, LoginStep

-----------------------------------------------------------------------------
(* Theorems                                                                *)

\* The initial states satisfy the inductive invariant.
LEMMA InitIInv == Init => IInv
  <1> SUFFICES ASSUME Init PROVE IInv
    OBVIOUS
  <1>1. LockOK(lock, Users) /\ \A u \in Users : lock.mode[u] = "none"
    BY NewLockOK DEF Init, NewLock
  <1>2. TypeOK
    BY <1>1, FileTypes DEF Init, TypeOK, LockOK
  <1>3. Guards
    BY <1>1 DEF Init, Guards, Users
  <1>4. FileSound /\ WritesGuarded /\ IssuedSaved /\ TornWhileWritten
    BY DEF Init, FileSound, WritesGuarded, IssuedSaved, TornWhileWritten, NoFile, Writing
  <1>5. SessionsPreserved /\ FileFollowsMap /\ SessionsDistinct
    BY DEF Init, SessionsPreserved, Restarts, IssuedKept, FileFollowsMap, SessionsDistinct
  <1> QED BY <1>2, <1>3, <1>4, <1>5 DEF IInv

\* The inductive invariant is one.
LEMMA NextKeepsIInv ==
    ASSUME IInv, [Next]_vars
    PROVE  IInv'
  <1> USE DEF IInv
  <1>1. Guards'
    BY NextKeepsGuards
  <1>2. TypeOK'
    BY <1>1, NextKeepsTypes
  <1>3. FileSound' /\ WritesGuarded' /\ IssuedSaved' /\ TornWhileWritten'
    BY NextKeepsFileSound, NextKeepsWritesGuarded, NextKeepsIssuedSaved,
       NextKeepsTornWhileWritten
  <1>4. SessionsPreserved' /\ FileFollowsMap' /\ SessionsDistinct'
    BY NextKeepsSessionsPreserved, NextKeepsFileFollowsMap, NextKeepsSessionsDistinct
  <1> QED BY <1>1, <1>2, <1>3, <1>4

\* The inductive invariant holds in every reachable state.
THEOREM SessionsInvariance == Spec => []IInv
  <1>1. Init => IInv
    BY InitIInv
  <1>2. IInv /\ [Next]_vars => IInv'
    BY NextKeepsIInv
  <1> QED BY <1>1, <1>2, PTL DEF Spec

\* The variables keep their types.
THEOREM SessionsTypeCorrectness == Spec => []TypeOK
  <1>1. IInv => TypeOK
    BY DEF IInv
  <1> QED BY <1>1, SessionsInvariance, PTL

\* Sessions::insert holds the write guard from the insertion to the end of the flush,
\* and no two logins do at once.
THEOREM OneInsertionAtATime ==
    Spec => [](\A l, m \in Logins : pc[l] = "flush" /\ pc[m] = "flush" => l = m)
  <1>1. IInv => \A l, m \in Logins : pc[l] = "flush" /\ pc[m] = "flush" => l = m
    <2> SUFFICES ASSUME IInv, NEW l \in Logins, NEW m \in Logins,
                        pc[l] = "flush", pc[m] = "flush", l # m
                 PROVE  FALSE
      OBVIOUS
    <2>1. Guards /\ Holds(lock, m)
      BY DEF IInv, Guards
    <2> QED BY <2>1, OneAtATime
  <1> QED BY <1>1, SessionsInvariance, PTL

\* README.md:69: sessions are preserved after a restart, unless a client hangs up
\* while it logs in; without any fault the restart itself succeeds.
THEOREM SessionsArePreserved == Spec => []SessionsPreserved
  <1>1. IInv => SessionsPreserved
    BY DEF IInv
  <1> QED BY <1>1, SessionsInvariance, PTL

\* When no write is under way or failed, sessions.json is the map.
THEOREM FileIsTheMap == Spec => []FileFollowsMap
  <1>1. IInv => FileFollowsMap
    BY DEF IInv
  <1> QED BY <1>1, SessionsInvariance, PTL

\* No session id is handed out twice.
THEOREM SessionsAreDistinct == Spec => []SessionsDistinct
  <1>1. IInv => SessionsDistinct
    BY DEF IInv
  <1> QED BY <1>1, SessionsInvariance, PTL

\* login answers with an id only when the file has it and everybody else's.
THEOREM AnswersFollowTheWrite == Spec => IssuedWereWritten
  <1> DEFINE Written == NobodyHungUp => \A i \in issued' \ issued :
                          file.kind = "whole" /\ map \subseteq file.ids /\ i \in map
  <1>1. IInv /\ [Next]_vars => [Written]_vars
    <2> SUFFICES ASSUME IInv, [Next]_vars, NobodyHungUp, NEW i \in issued' \ issued
                 PROVE  file.kind = "whole" /\ map \subseteq file.ids /\ i \in map
      OBVIOUS
    <2>1. PICK l \in Logins : LoginEnd(l)
      BY DEF Next, vars, LoginStart, LoginStep, InsertDuplicate, Insert,
             LoginHangup, JobStep, WriteOpen, WriteData, WriteError,
             CheckStart, CheckEnd, Kill, Start
    <2>2. job[l] = "ok"
      BY <2>1 DEF LoginEnd
    <2> QED BY <2>1, <2>2, AnswerIsSaved DEF IInv, Whole
  <1> QED BY <1>1, SessionsInvariance, PTL DEF IssuedWereWritten, Spec

=============================================================================
