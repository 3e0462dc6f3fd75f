--------------------------- MODULE DiscoveryProofs ---------------------------
(***************************************************************************)
(* The device cache of every process life, whatever searches return and the *)
(* disk does: rows are unique, the file loses no device, and the Vec does   *)
(* what module DeviceCache says of it.                                      *)
(*                                                                          *)
(* merge_in is a loop over the rows found.  What it leaves behind is proved *)
(* by taking the first round of the loop that would break the claim.        *)
(***************************************************************************)
EXTENDS Startup, TLAPS, WellFoundedInduction, FiniteSetTheorems

-----------------------------------------------------------------------------
(* Numbers.                                                                *)

\* Every nonempty set of natural numbers has a least element.
LEMMA Least == ASSUME NEW S, S \subseteq Nat, S # {} PROVE \E n \in S : \A m \in S : n <= m
  <1>1. PICK n \in S : \A m \in S : <<m, n>> \notin OpToRel(<, Nat)
    BY WFMin, NatLessThanWellFounded, Zenon
  <1>2. \A m \in S : ~(m < n)
    <2> SUFFICES ASSUME NEW m \in S, m < n PROVE FALSE
      OBVIOUS
    <2>1. <<m, n>> \in Nat \X Nat /\ <<m, n>>[1] < <<m, n>>[2]
      OBVIOUS
    <2> QED BY <1>1, <2>1, Zenon DEF OpToRel
  <1> QED BY <1>2

\* Min finds it.
LEMMA MinIsLeast ==
    ASSUME NEW S, S \subseteq Nat, S # {} PROVE Min(S) \in S /\ \A m \in S : Min(S) <= m
  BY Least DEF Min

-----------------------------------------------------------------------------
(* One row.                                                                *)

\* A Vec with one row per device.
OneEach(rows) ==
    /\ rows \in Seq(DiscoveredDevice)
    /\ \A i, j \in DOMAIN rows : rows[i].id = rows[j].id => i = j

\* The position of a device is that of a row of it, or 0.
LEMMA PositionFacts ==
    ASSUME NEW rows \in Seq(DiscoveredDevice), NEW id
    PROVE  /\ Position(rows, id) \in 0..Len(rows)
           /\ Position(rows, id) = 0 => \A j \in 1..Len(rows) : rows[j].id # id
           /\ Position(rows, id) # 0 => rows[Position(rows, id)].id = id
  <1> DEFINE I == {i \in 1..Len(rows) : rows[i].id = id}
  <1>1. Position(rows, id) = IF I # {} THEN Min(I) ELSE 0
    BY DEF Position, SelectInSeq
  <1>2. I \subseteq Nat
    OBVIOUS
  <1>3. I # {} => Min(I) \in I
    BY <1>2, MinIsLeast
  <1> HIDE DEF I
  <1>4. I = {i \in 1..Len(rows) : rows[i].id = id}
    BY DEF I
  <1> QED BY <1>1, <1>3, <1>4

\* What a name resolves to is the address of a row of that name.
LEMMA FindByNameFacts ==
    ASSUME NEW rows \in Seq(DiscoveredDevice), NEW name
    PROVE  \/ FindByName(rows, name) = NoIp /\ \A r \in Range(rows) : r.nickname # name
           \/ \E r \in Range(rows) : r.nickname = name /\ FindByName(rows, name) = r.ip
  <1> DEFINE I == {i \in 1..Len(rows) : rows[i].nickname = name}
             K == SelectInSeq(rows, LAMBDA r : r.nickname = name)
  <1>1. K = IF I # {} THEN Min(I) ELSE 0
    BY DEF SelectInSeq
  <1>2. I \subseteq Nat
    OBVIOUS
  <1>3. I # {} => Min(I) \in I
    BY <1>2, MinIsLeast
  <1>4. FindByName(rows, name) = IF K = 0 THEN NoIp ELSE rows[K].ip
    BY DEF FindByName
  <1> HIDE DEF I, K
  <1>5. I = {i \in 1..Len(rows) : rows[i].nickname = name}
    BY DEF I
  <1>6. Range(rows) = {rows[i] : i \in 1..Len(rows)}
    BY DEF Range
  <1>7. CASE I = {}
    BY <1>1, <1>4, <1>5, <1>6, <1>7
  <1>8. CASE I # {}
    <2>1. Min(I) \in 1..Len(rows) /\ rows[Min(I)].nickname = name
      BY <1>3, <1>5, <1>8
    <2>2. FindByName(rows, name) = rows[Min(I)].ip
      BY <1>1, <1>4, <1>8, <2>1
    <2> QED BY <1>6, <2>1, <2>2
  <1> QED BY <1>7, <1>8

\* A row replaces the one of its device, wherever that is, or is added.
LEMMA MergeRowFacts ==
    ASSUME NEW rows, OneEach(rows), NEW new \in DiscoveredDevice
    PROVE  /\ OneEach(MergeRow(rows, new))
           /\ Range(MergeRow(rows, new)) = {r \in Range(rows) : r.id # new.id} \cup {new}
  <1> DEFINE k == Position(rows, new.id)
             result == MergeRow(rows, new)
  <1>1. rows \in Seq(DiscoveredDevice) /\ \A i, j \in 1..Len(rows) : rows[i].id = rows[j].id => i = j
    BY DEF OneEach
  <1>2. /\ k \in 0..Len(rows)
        /\ k = 0 => \A j \in 1..Len(rows) : rows[j].id # new.id
        /\ k # 0 => rows[k].id = new.id
    BY <1>1, PositionFacts
  <1>3. result = IF k = 0 THEN Append(rows, new) ELSE [rows EXCEPT ![k] = new]
    BY DEF MergeRow, ReplaceAt
  <1> HIDE DEF k, result
  <1>4. CASE k = 0
    <2>1. /\ result \in Seq(DiscoveredDevice) /\ Len(result) = Len(rows) + 1
          /\ \A i \in 1..Len(rows) : result[i] = rows[i]
          /\ result[Len(rows) + 1] = new
      BY <1>1, <1>3, <1>4
    <2>2. OneEach(result)
      BY <1>1, <1>2, <1>4, <2>1 DEF OneEach
    <2>3. Range(result) = {r \in Range(rows) : r.id # new.id} \cup {new}
      BY <1>1, <1>2, <1>4, <2>1 DEF Range
    <2> QED BY <2>2, <2>3 DEF result
  <1>5. CASE k # 0
    <2>1. /\ result \in Seq(DiscoveredDevice) /\ Len(result) = Len(rows)
          /\ \A i \in 1..Len(rows) : result[i] = IF i = k THEN new ELSE rows[i]
          /\ k \in 1..Len(rows)
      BY <1>1, <1>2, <1>3, <1>5
    <2>2. OneEach(result)
      BY <1>1, <1>2, <1>5, <2>1 DEF OneEach
    <2>3. Range(result) = {r \in Range(rows) : r.id # new.id} \cup {new}
      BY <1>1, <1>2, <1>5, <2>1 DEF Range
    <2> QED BY <2>2, <2>3 DEF result
  <1> QED BY <1>4, <1>5

-----------------------------------------------------------------------------
(* A batch.                                                                *)

\* The loop of merge_in, round by round.
LEMMA MergeRowsLoop ==
    ASSUME NEW rows, NEW batch, Len(batch) \in Nat
    PROVE  \E f : /\ f = [k \in 0..Len(batch) |->
                            IF k = 0 THEN rows ELSE MergeRow(f[k - 1], batch[k])]
                  /\ MergeRows(rows, batch) = f[Len(batch)]
  <1> DEFINE Loop(n, f) ==
               f = [k \in 0..n |-> IF k = 0 THEN rows ELSE MergeRow(f[k - 1], batch[k])]
             Bad == {n \in Nat : ~\E f : Loop(n, f)}
  <1>1. Bad = {}
    <2> SUFFICES ASSUME Bad # {} PROVE FALSE
      OBVIOUS
    <2>1. PICK n \in Bad : \A m \in Bad : n <= m
      BY Least
    <2>2. CASE n = 0
      <3>1. Loop(0, [k \in 0..0 |-> rows])
        OBVIOUS
      <3> QED BY <2>1, <2>2, <3>1
    <2>3. CASE n # 0
      <3>1. n - 1 \in Nat /\ n - 1 \notin Bad
        BY <2>1, <2>3
      <3>2. PICK f : Loop(n - 1, f)
        BY <3>1
      <3> DEFINE g == [k \in 0..n |-> IF k = n THEN MergeRow(f[n - 1], batch[n]) ELSE f[k]]
      <3>3. Loop(n, g)
        BY <2>3, <3>1, <3>2
      <3> QED BY <2>1, <3>3
    <2> QED BY <2>2, <2>3
  <1>2. \E f : Loop(Len(batch), f)
    BY <1>1
  <1> QED BY <1>2 DEF MergeRows

\* After k rounds: the rows of devices not answered for, and of the others the
\* last answer.
Merged(rows, batch, k) ==
    {r \in Range(rows) : \A j \in 1..k : batch[j].id # r.id}
      \cup {batch[i] : i \in {j \in 1..k : \A l \in 1..k : l > j => batch[l].id # batch[j].id}}

\* merge_in leaves one row per device, and these are the right ones.
LEMMA MergeRowsFacts ==
    ASSUME NEW rows, OneEach(rows), NEW batch \in Seq(DiscoveredDevice)
    PROVE  /\ OneEach(MergeRows(rows, batch))
           /\ Range(MergeRows(rows, batch)) = Merged(rows, batch, Len(batch))
  <1>1. PICK f : /\ f = [k \in 0..Len(batch) |->
                            IF k = 0 THEN rows ELSE MergeRow(f[k - 1], batch[k])]
                 /\ MergeRows(rows, batch) = f[Len(batch)]
    BY MergeRowsLoop
  <1>2. f[0] = rows /\ \A k \in 1..Len(batch) : f[k] = MergeRow(f[k - 1], batch[k])
    BY <1>1
  <1> DEFINE Good(k) == OneEach(f[k]) /\ Range(f[k]) = Merged(rows, batch, k)
             Bad == {n \in 0..Len(batch) : ~Good(n)}
  <1>3. Bad = {}
    <2> SUFFICES ASSUME Bad # {} PROVE FALSE
      OBVIOUS
    <2>0. Bad \subseteq Nat
      OBVIOUS
    <2>1. PICK n \in Bad : \A m \in Bad : n <= m
      <3> HIDE DEF Bad
      <3> QED BY <2>0, Least
    <2>2. CASE n = 0
      <3>1. Merged(rows, batch, 0) = Range(rows)
        BY DEF Merged
      <3> QED BY <1>2, <2>1, <2>2, <3>1
    <2>3. CASE n # 0
      <3>1. n \in 1..Len(batch) /\ n - 1 \in 0..Len(batch) /\ Good(n - 1)
            /\ batch[n] \in DiscoveredDevice
        <4>1. n \in 0..Len(batch) /\ \A m \in 0..Len(batch) : m < n => Good(m)
          BY <2>1
        <4> QED BY <2>3, <4>1
      <3>2. /\ OneEach(f[n])
            /\ Range(f[n]) = {r \in Range(f[n - 1]) : r.id # batch[n].id} \cup {batch[n]}
        BY <1>2, <3>1, MergeRowFacts
      <3>3. {r \in Merged(rows, batch, n - 1) : r.id # batch[n].id} \cup {batch[n]}
              = Merged(rows, batch, n)
        <4> DEFINE before == Merged(rows, batch, n - 1)
                   after == Merged(rows, batch, n)
        <4>1. \A k \in 1..n : k \in 1..n - 1 \/ k = n
          BY <3>1
        <4>2. \A k \in 1..n - 1 : k \in 1..n /\ k < n
          BY <3>1
        <4>3. ASSUME NEW r \in before, r.id # batch[n].id PROVE r \in after
          BY <3>1, <4>1, <4>2, <4>3 DEF Merged
        <4>4. batch[n] \in after
          BY <3>1, <4>1, <4>2 DEF Merged
        <4>5. ASSUME NEW r \in after, r # batch[n] PROVE r \in before /\ r.id # batch[n].id
          BY <3>1, <4>1, <4>2, <4>5 DEF Merged
        <4> QED BY <4>3, <4>4, <4>5
      <3> QED BY <2>1, <3>1, <3>2, <3>3
    <2> QED BY <2>2, <2>3
  <1>4. Good(Len(batch))
    BY <1>3
  <1> QED BY <1>1, <1>4

\* Of the answers of a device, one is the last.
LEMMA LastAnswer ==
    ASSUME NEW batch \in Seq(DiscoveredDevice), NEW k \in 1..Len(batch)
    PROVE  \E j \in 1..Len(batch) :
             /\ batch[j].id = batch[k].id
             /\ \A l \in 1..Len(batch) : l > j => batch[l].id # batch[j].id
  <1> DEFINE Left == {Len(batch) - j : j \in {i \in 1..Len(batch) : batch[i].id = batch[k].id}}
  <1>1. Left \subseteq Nat /\ Left # {}
    OBVIOUS
  <1>2. PICK n \in Left : \A m \in Left : n <= m
    <2> HIDE DEF Left
    <2> QED BY <1>1, Least
  <1>3. PICK j \in 1..Len(batch) : batch[j].id = batch[k].id /\ n = Len(batch) - j
    BY <1>2
  <1>4. \A l \in 1..Len(batch) : l > j => batch[l].id # batch[j].id
    <2> SUFFICES ASSUME NEW l \in 1..Len(batch), l > j, batch[l].id = batch[j].id PROVE FALSE
      OBVIOUS
    <2>1. Len(batch) - l \in Left
      BY <1>3
    <2>2. n <= Len(batch) - l
      BY <1>2, <2>1
    <2> QED BY <1>3, <2>2
  <1> QED BY <1>3, <1>4

-----------------------------------------------------------------------------
(* The Vec and the function of module DeviceCache.                         *)

\* A Vec with one row per device is a function of the devices.
LEMMA AsCacheFacts ==
    ASSUME NEW rows, OneEach(rows), NEW i \in Ids
    PROVE  /\ \A r \in Range(rows) : r.id = i =>
                AsCache(rows)[i] = [nickname |-> r.nickname, ip |-> r.ip]
           /\ (\A r \in Range(rows) : r.id # i) => AsCache(rows)[i] = Absent
  <1>1. rows \in Seq(DiscoveredDevice) /\ \A j, l \in 1..Len(rows) : rows[j].id = rows[l].id => j = l
    BY DEF OneEach
  <1>2. Range(rows) = {rows[j] : j \in 1..Len(rows)}
    BY <1>1 DEF Range
  <1> DEFINE k == Position(rows, i)
  <1>3. /\ k \in 0..Len(rows)
        /\ k = 0 => \A j \in 1..Len(rows) : rows[j].id # i
        /\ k # 0 => rows[k].id = i
    BY <1>1, PositionFacts
  <1>4. AsCache(rows)[i] =
          IF k = 0 THEN Absent ELSE [nickname |-> rows[k].nickname, ip |-> rows[k].ip]
    BY DEF AsCache
  <1> HIDE DEF k
  <1>5. ASSUME NEW r \in Range(rows), r.id = i
        PROVE  AsCache(rows)[i] = [nickname |-> r.nickname, ip |-> r.ip]
    <2>1. PICK j \in 1..Len(rows) : r = rows[j]
      BY <1>2
    <2>2. k # 0 /\ k \in 1..Len(rows)
      BY <1>3, <1>5, <2>1
    <2>3. k = j
      BY <1>1, <1>3, <1>5, <2>1, <2>2
    <2> QED BY <1>4, <2>1, <2>2, <2>3
  <1>6. ASSUME \A r \in Range(rows) : r.id # i PROVE AsCache(rows)[i] = Absent
    <2>1. k = 0
      BY <1>2, <1>3, <1>6
    <2> QED BY <1>4, <2>1
  <1> QED BY <1>5, <1>6

\* merge_in is MergeIn, the batch taken as the cache that its rows alone would make.
LEMMA MergeRowsIsMergeIn ==
    ASSUME NEW rows, OneEach(rows), NEW batch \in Seq(DiscoveredDevice)
    PROVE  AsCache(MergeRows(rows, batch)) = MergeIn(AsCache(rows), AsCache(MergeRows(<<>>, batch)))
  <1> DEFINE all == MergeRows(rows, batch)
             new == MergeRows(<<>>, batch)
             last == {batch[i] : i \in {j \in 1..Len(batch) :
                         \A l \in 1..Len(batch) : l > j => batch[l].id # batch[j].id}}
  <1>1. OneEach(<<>>) /\ Range(<<>>) = {}
    BY DEF OneEach, Range
  <1>2. OneEach(all) /\ Range(all) = {r \in Range(rows) : \A j \in 1..Len(batch) : batch[j].id # r.id} \cup last
    BY MergeRowsFacts DEF Merged
  <1>3. OneEach(new) /\ Range(new) = last
    BY <1>1, MergeRowsFacts DEF Merged
  <1>4. \A r \in last : r \in DiscoveredDevice /\ \E j \in 1..Len(batch) : batch[j].id = r.id
    OBVIOUS
  <1>5. Range(rows) \subseteq DiscoveredDevice
    BY DEF OneEach, Range
  <1> HIDE DEF all, new, last
  <1>6. ASSUME NEW i \in Ids
        PROVE  AsCache(all)[i] = IF AsCache(new)[i] # Absent THEN AsCache(new)[i] ELSE AsCache(rows)[i]
    <2>1. CASE \E r \in last : r.id = i
      <3>1. PICK r \in last : r.id = i
        BY <2>1
      <3>2. /\ AsCache(all)[i] = [nickname |-> r.nickname, ip |-> r.ip]
            /\ AsCache(new)[i] = [nickname |-> r.nickname, ip |-> r.ip]
        BY <1>2, <1>3, <3>1, AsCacheFacts
      <3>3. [nickname |-> r.nickname, ip |-> r.ip] # Absent
        BY <1>4, <3>1, CacheAssumption DEF DiscoveredDevice, Row
      <3> QED BY <3>2, <3>3
    <2>2. CASE \A r \in last : r.id # i
      <3>1. AsCache(new)[i] = Absent
        BY <1>3, <2>2, AsCacheFacts
      <3>2. CASE \E r \in Range(all) : r.id = i
        <4>1. PICK r \in Range(all) : r.id = i
          BY <3>2
        <4>2. r \in Range(rows)
          BY <1>2, <2>2, <4>1
        <4>3. /\ AsCache(all)[i] = [nickname |-> r.nickname, ip |-> r.ip]
              /\ AsCache(rows)[i] = [nickname |-> r.nickname, ip |-> r.ip]
          BY <1>2, <4>1, <4>2, AsCacheFacts
        <4> QED BY <3>1, <4>3
      <3>3. CASE \A r \in Range(all) : r.id # i
        <4>1. CASE \E r \in Range(rows) : r.id = i
          <5>1. PICK r \in Range(rows) : r.id = i
            BY <4>1
          <5>2. PICK j \in 1..Len(batch) : batch[j].id = i
            BY <1>2, <3>3, <5>1
          <5>3. \E q \in last : q.id = i
            BY <5>2, LastAnswer DEF last
          <5> QED BY <2>2, <5>3
        <4>2. CASE \A r \in Range(rows) : r.id # i
          BY <1>2, <3>1, <3>3, <4>2, AsCacheFacts
        <4> QED BY <4>1, <4>2
      <3> QED BY <3>2, <3>3
    <2> QED BY <2>1, <2>2
  <1>7. /\ AsCache(all) = [i \in Ids |-> AsCache(all)[i]]
        /\ MergeIn(AsCache(rows), AsCache(new)) =
             [i \in Ids |-> IF AsCache(new)[i] # Absent THEN AsCache(new)[i] ELSE AsCache(rows)[i]]
    BY DEF AsCache, MergeIn
  <1> QED BY <1>6, <1>7 DEF all, new

\* The first row of a name is one of those Lookup allows.
LEMMA FindIsLookup ==
    ASSUME NEW rows, OneEach(rows), NEW name \in Names
    PROVE  FindByName(rows, name) \in Lookup(AsCache(rows), name)
  <1>1. rows \in Seq(DiscoveredDevice) /\ Range(rows) \subseteq DiscoveredDevice
    BY DEF OneEach, Range
  <1> DEFINE cache == AsCache(rows)
  <1>2. ASSUME NEW i \in Ids, cache[i] # Absent
        PROVE  \E r \in Range(rows) : r.id = i /\ cache[i] = [nickname |-> r.nickname, ip |-> r.ip]
    BY <1>2, AsCacheFacts
  <1>3. CASE \A r \in Range(rows) : r.nickname # name
    <2>1. AddressesOf(cache, name) = {}
      <3>1. ASSUME NEW i \in Ids, cache[i] # Absent, cache[i].nickname = name PROVE FALSE
        <4>1. PICK r \in Range(rows) : cache[i] = [nickname |-> r.nickname, ip |-> r.ip]
          BY <1>2, <3>1
        <4> QED BY <1>3, <3>1, <4>1
      <3> HIDE DEF cache
      <3> QED BY <3>1 DEF AddressesOf
    <2> QED BY <1>1, <1>3, <2>1, FindByNameFacts DEF Lookup
  <1>4. CASE \E r \in Range(rows) : r.nickname = name /\ FindByName(rows, name) = r.ip
    <2>1. PICK r \in Range(rows) : r.nickname = name /\ FindByName(rows, name) = r.ip
      BY <1>4
    <2>2. r.id \in Ids /\ r.nickname \in Names /\ r.ip \in IPs
      BY <1>1 DEF DiscoveredDevice
    <2>3. cache[r.id] = [nickname |-> r.nickname, ip |-> r.ip]
      BY <2>2, AsCacheFacts
    <2>4. cache[r.id] # Absent
      BY <2>2, <2>3, CacheAssumption DEF Row
    <2>5. r.ip \in AddressesOf(cache, name)
      BY <2>1, <2>2, <2>3, <2>4 DEF AddressesOf
    <2> QED BY <2>1, <2>5 DEF Lookup
  <1> QED BY <1>1, <1>3, <1>4, FindByNameFacts

-----------------------------------------------------------------------------
(* The invariant.                                                          *)

\* What is in memory, on disk and in a sweep.
Stored ==
    /\ OneEach(mem)
    /\ disk \in [kind : {"absent", "foreign", "whole"}, rows : Seq(DiscoveredDevice)]
    /\ OneEach(disk.rows)
    /\ sweep \in [at : {"idle", "discover", "write", "rename", "return"},
                  rows : Seq(DiscoveredDevice), read : BOOLEAN]
    /\ OneEach(sweep.rows)
    /\ fresh \in [waits : BOOLEAN, rows : Batches(MaxOnDemand)]

\* From its beginning to its end a sweep covers the file that it has read.
SweepCovers ==
    sweep.at # "idle" /\ sweep.read => Known(disk.rows) \subseteq Known(sweep.rows)

\* What main and the operator do to the rest.
Started ==
    /\ stage \in {"off", "telemetry", "dataDir", "peek", "sweep", "cors", "initLoad",
                  "load", "sessions", "bind", "serving", "returned", "exited"}
    /\ config \in {"good", "bad"}
    /\ trouble \in Troubles \cup {"none"}
    /\ layer \in {"none", "plain", "otel"}
    /\ provider \in {"none", "live", "down"}
    /\ spans \in BOOLEAN

\* A batch is a sequence of rows, and may be empty.
LEMMA BatchesAreRows ==
    ASSUME NEW n \in Nat
    PROVE  <<>> \in Batches(n) /\ \A batch \in Batches(n) : batch \in Seq(DiscoveredDevice)
  BY DEF Batches, BoundedSeq, SeqOf

\* Nobody waits for the cache.
LEMMA NothingFound == NoSearch \in [waits : BOOLEAN, rows : Batches(MaxOnDemand)]
  BY BatchesAreRows, DiscoveryAssumption DEF NoSearch

\* A Vec without rows has one row per device.
LEMMA NoRows == OneEach(<<>>)
  BY DEF OneEach

\* A merge forgets no device.
LEMMA MergeKeepsKnown ==
    ASSUME NEW rows, OneEach(rows), NEW batch \in Seq(DiscoveredDevice)
    PROVE  Known(rows) \subseteq Known(MergeRows(rows, batch))
  <1> DEFINE all == MergeRows(rows, batch)
  <1>1. /\ OneEach(all)
        /\ Range(all) = Merged(rows, batch, Len(batch))
    BY MergeRowsFacts
  <1> HIDE DEF all
  <1>2. /\ Known(rows) = {r.id : r \in Range(rows)}
        /\ Known(all) = {r.id : r \in Range(all)}
    BY DEF Known, Range
  <1>3. ASSUME NEW r \in Range(rows) PROVE \E q \in Range(all) : q.id = r.id
    <2>1. CASE \A j \in 1..Len(batch) : batch[j].id # r.id
      BY <1>1, <2>1 DEF Merged
    <2>2. CASE \E j \in 1..Len(batch) : batch[j].id = r.id
      <3>1. PICK k \in 1..Len(batch) : batch[k].id = r.id
        BY <2>2
      <3>2. PICK j \in 1..Len(batch) :
              /\ batch[j].id = batch[k].id
              /\ \A l \in 1..Len(batch) : l > j => batch[l].id # batch[j].id
        BY LastAnswer
      <3> QED BY <1>1, <3>1, <3>2 DEF Merged
    <2> QED BY <2>1, <2>2
  <1> QED BY <1>2, <1>3 DEF all

\* What a step of the process does to the cache and the file.
LEMMA DiscoverySteps ==
    ASSUME [SNext]_vars
    PROVE  \/ SweepLoad \/ SweepStep \/ SweepDrop \/ SweepStore \/ MemLoad
           \/ OnDemandFind \/ OnDemandMerge \/ OnDemandDrop \/ Forget \/ UNCHANGED discVars
  <1>1. Exit => Forget
    BY DEF Exit, Gone
  <1>2. Cors \/ Fail => UNCHANGED discVars
    BY DEF Cors, Fail, Leave
  <1>3. MainStep => SweepLoad \/ SweepDrop \/ MemLoad \/ Forget \/ UNCHANGED discVars
    BY <1>1, <1>2 DEF MainStep, InitTelemetry, DataDir, Peek, InitialSweepStart,
       InitialSweepEnd, InitLoad, LoadDone, SessionsCreate, Bind
  <1>4. \/ Start \/ MainStep \/ PeriodicStart \/ PeriodicEnd \/ SweepGoesOn
        \/ Rediscover \/ RediscoverMerge \/ RediscoverDrop \/ SpanEnds \/ Export
        \/ EditConfig \/ Kill \/ UNCHANGED vars
    BY DEF SNext
  <1> QED BY <1>3, <1>4
     DEF Start, PeriodicStart, PeriodicEnd, SweepGoesOn, Rediscover, RediscoverMerge,
         RediscoverDrop, SpanEnds, Export, EditConfig, Kill, Gone, vars

\* They keep rows unique and what a sweep covers.
LEMMA StoredKept ==
    ASSUME Stored, SweepCovers, [SNext]_vars
    PROVE  Stored' /\ SweepCovers'
  <1> USE DiscoveryAssumption
  <1>1. CASE SweepLoad \/ MemLoad
    <2>1. \A r \in Readings :
            /\ OneEach(r.rows) /\ r.rows \in Seq(DiscoveredDevice) /\ r.read \in BOOLEAN
            /\ r.read => r.rows = disk.rows
      <3>1. /\ OneEach(disk.rows) /\ disk.rows \in Seq(DiscoveredDevice)
            /\ OneEach(<<>>) /\ <<>> \in Seq(DiscoveredDevice)
        BY NoRows DEF Stored
      <3>2. ASSUME NEW r \in Readings
            PROVE  \/ r.rows = disk.rows /\ r.read = TRUE
                   \/ r.rows = <<>> /\ r.read = FALSE
        BY <3>2 DEF Readings
      <3> QED BY <3>1, <3>2
    <2>2. CASE SweepLoad
      <3>1. PICK r \in Readings :
              sweep' = [at |-> "discover", rows |-> r.rows, read |-> r.read]
        BY <2>2 DEF SweepLoad
      <3>2. UNCHANGED <<mem, disk, fresh>>
        BY <2>2 DEF SweepLoad
      <3> QED BY <2>1, <3>1, <3>2 DEF Stored, SweepCovers
    <2>3. CASE MemLoad
      BY <2>1, <2>3 DEF MemLoad, Stored, SweepCovers
    <2> QED BY <1>1, <2>2, <2>3
  <1>2. CASE SweepFound
    <2>1. PICK batch \in Batches(MaxFound) :
            sweep' = [sweep EXCEPT !.at = "write", !.rows = MergeRows(@, batch)]
      BY <1>2 DEF SweepFound
    <2> DEFINE all == MergeRows(sweep.rows, batch)
    <2>2. OneEach(all) /\ Known(sweep.rows) \subseteq Known(all)
      BY <2>1, BatchesAreRows, MergeRowsFacts, MergeKeepsKnown DEF Stored
    <2>3. sweep' = [at |-> "write", rows |-> all, read |-> sweep.read]
      BY <2>1 DEF Stored
    <2> HIDE DEF all
    <2> QED BY <1>2, <2>2, <2>3 DEF SweepFound, Stored, SweepCovers, OneEach
  <1>3. CASE SweepFailed \/ SaveWrite \/ SaveFails
    BY <1>3 DEF SweepFailed, SaveWrite, SaveFails, Kept, Stored, SweepCovers
  <1>4. CASE SaveRename
    BY <1>4 DEF SaveRename, Whole, Stored, SweepCovers
  <1>5. CASE SweepDrop \/ SweepStore \/ Forget
    <2>1. NoSweep \in [at : {"idle"}, rows : Seq(DiscoveredDevice), read : BOOLEAN]
          /\ OneEach(NoSweep.rows)
      BY NoRows DEF NoSweep
    <2> QED BY <1>5, <2>1, NoRows, NothingFound
        DEF SweepDrop, SweepStore, Forget, Stored, SweepCovers
  <1>6. CASE OnDemandFind \/ OnDemandDrop
    <2>1. fresh' \in [waits : BOOLEAN, rows : Batches(MaxOnDemand)]
      <3>1. CASE OnDemandFind
        <4>1. PICK batch \in Batches(MaxOnDemand) : fresh' = [waits |-> TRUE, rows |-> batch]
          BY <3>1 DEF OnDemandFind
        <4> HIDE DEF Batches
        <4> QED BY <4>1
      <3> QED BY <1>6, <3>1, NothingFound DEF OnDemandDrop
    <2> QED BY <1>6, <2>1 DEF OnDemandFind, OnDemandDrop, Stored, SweepCovers
  <1>7. CASE OnDemandMerge
    <2>1. OneEach(mem')
      BY <1>7, BatchesAreRows, MergeRowsFacts DEF OnDemandMerge, Stored
    <2> QED BY <1>7, <2>1, NothingFound DEF OnDemandMerge, Stored, SweepCovers
  <1>8. CASE UNCHANGED discVars
    BY <1>8 DEF discVars, Stored, SweepCovers
  <1> QED BY <1>1, <1>2, <1>3, <1>4, <1>5, <1>6, <1>7, <1>8, DiscoverySteps DEF SweepStep

\* The steps of main and the operator stay within their states.
LEMMA StartedKept == ASSUME Started, [SNext]_vars PROVE Started'
  <1> USE DEF Started, Goto
  <1>1. Leave => Started'
    BY DEF Leave, DropGuard
  <1>2. Exit \/ Kill => Started'
    BY DEF Exit, Kill, Gone
  <1>3. Cors \/ Fail => Started'
    BY <1>1 DEF Cors, Fail, telemetry
  <1>4. MainStep => Started'
    BY <1>2, <1>3 DEF MainStep, InitTelemetry, DataDir, Peek, InitialSweepStart,
       InitialSweepEnd, InitLoad, LoadDone, SessionsCreate, Bind, startVars, telemetry
  <1>5. PeriodicStart \/ PeriodicEnd \/ SweepGoesOn \/ Rediscover \/ RediscoverMerge
        \/ RediscoverDrop \/ UNCHANGED vars => Started'
    BY DEF PeriodicStart, PeriodicEnd, SweepGoesOn, Rediscover, RediscoverMerge,
           RediscoverDrop, startVars, telemetry, vars
  <1>6. Start \/ SpanEnds \/ Export \/ EditConfig => Started'
    BY DEF Start, SpanEnds, Export, EditConfig, telemetry
  <1> QED BY <1>2, <1>4, <1>5, <1>6 DEF SNext

-----------------------------------------------------------------------------
(* Theorems.                                                               *)

\* The inductive invariant.
THEOREM DiscoveryInvariance == SSpec => [](Stored /\ SweepCovers /\ Started)
  <1>1. SInit => Stored /\ SweepCovers /\ Started
    <2> SUFFICES ASSUME SInit PROVE Stored /\ SweepCovers /\ Started
      OBVIOUS
    <2>1. mem = <<>> /\ disk \in {NoFile, Foreign} /\ sweep = NoSweep /\ fresh = NoSearch
      BY DEF SInit, DInit
    <2>2. OneEach(mem) /\ OneEach(disk.rows) /\ OneEach(sweep.rows)
      BY <2>1, NoRows DEF NoFile, Foreign, NoSweep
    <2>3. disk \in [kind : {"absent", "foreign", "whole"}, rows : Seq(DiscoveredDevice)]
      <3> DEFINE files == [kind : {"absent", "foreign", "whole"}, rows : Seq(DiscoveredDevice)]
      <3>1. NoFile \in files
        BY DEF NoFile
      <3>2. Foreign \in files
        BY DEF Foreign
      <3> HIDE DEF files
      <3>3. disk \in files
        BY <2>1, <3>1, <3>2
      <3> QED BY <3>3 DEF files
    <2>4. sweep \in [at : {"idle", "discover", "write", "rename", "return"},
                     rows : Seq(DiscoveredDevice), read : BOOLEAN]
      BY <2>1 DEF NoSweep
    <2>5. Stored
      BY <2>1, <2>2, <2>3, <2>4, NothingFound DEF Stored
    <2>6. SweepCovers
      BY <2>1 DEF NoSweep, SweepCovers
    <2>7. Started
      BY DEF SInit, Started
    <2> QED BY <2>5, <2>6, <2>7
  <1>2. Stored /\ SweepCovers /\ Started /\ [SNext]_vars => (Stored /\ SweepCovers /\ Started)'
    BY StoredKept, StartedKept
  <1> QED BY <1>1, <1>2, PTL DEF SSpec

\* Rows that are unique are no more than there are devices.
LEMMA RowsAreFew == ASSUME NEW rows, OneEach(rows) PROVE rows \in Vecs
  <1> DEFINE n == Len(rows)
             id == [i \in 1..n |-> rows[i].id]
  <1>1. n \in Nat /\ rows \in [1..n -> DiscoveredDevice]
    BY DEF OneEach
  <1>2. id \in Injection(1..n, Ids)
    BY <1>1 DEF OneEach, Injection, IsInjective, DiscoveredDevice
  <1>3. Cardinality(1..n) <= Cardinality(Ids) /\ Cardinality(Ids) \in Nat
    BY <1>2, FS_Injection, FS_CardinalityType, DiscoveryAssumption
  <1>4. Cardinality(1..n) = n
    BY <1>1, FS_Interval
  <1> QED BY <1>1, <1>3, <1>4 DEF Vecs, BoundedSeq, SeqOf

\* The types of the state; no Vec is ever longer than there are devices.
THEOREM StartupTypes == SSpec => []STypeOK
  <1>1. Stored /\ Started => STypeOK
    BY RowsAreFew DEF Stored, Started, STypeOK, DTypeOK, Files
  <1> QED BY <1>1, DiscoveryInvariance, PTL

\* No device ever has two rows.
THEOREM RowsAreUnique == SSpec => []OneRowPerDevice
  <1>1. Stored => OneRowPerDevice
    BY DEF Stored, OneEach, OneRowPerDevice
  <1> QED BY <1>1, DiscoveryInvariance, PTL

\* The cache file loses no device, whatever fails and whenever the process dies.
THEOREM FileOnlyMerges == SSpec => DiskOnlyMerges
  <1>1. ASSUME Stored, SweepCovers, [SNext]_vars
        PROVE  [/\ disk'.kind = "whole"
                /\ sweep.read => Known(disk.rows) \subseteq Known(disk'.rows)]_disk
    <2>1. SaveRename \/ UNCHANGED disk
      BY <1>1, DiscoverySteps
         DEF SweepLoad, SweepStep, SweepFound, SweepFailed, SaveWrite, SaveFails, SweepDrop,
             SweepStore, MemLoad, OnDemandFind, OnDemandMerge, OnDemandDrop, Forget, discVars
    <2>2. SaveRename => disk'.kind = "whole" /\ disk'.rows = sweep.rows /\ sweep.at # "idle"
      BY DEF SaveRename, Whole
    <2> QED BY <1>1, <2>1, <2>2 DEF SweepCovers
  <1>2. ASSUME Stored, SweepCovers, [SNext]_vars
        PROVE  [disk' # disk =>
                  /\ disk'.kind = "whole"
                  /\ sweep.read => Known(disk.rows) \subseteq Known(disk'.rows)]_disk
    BY <1>1, <1>2
  <1> QED BY <1>2, DiscoveryInvariance, PTL DEF SSpec, DiskOnlyMerges

\* What replaces the shared cache covers the file, also when the search or the save
\* has failed.
THEOREM StoreCovers == SSpec => StoreCoversDisk
  <1>1. ASSUME SweepCovers, [SNext]_vars
        PROVE  [SweepStore /\ sweep.read => Known(disk.rows) \subseteq Known(mem')]_discVars
    BY <1>1 DEF SweepCovers, SweepStore
  <1> QED BY <1>1, DiscoveryInvariance, PTL DEF SSpec, StoreCoversDisk

\* What a search has found is what its name resolves to.
THEOREM FoundServed == SSpec => FoundIsServed
  <1> DEFINE Served ==
        OnDemandMerge =>
         \A k \in DOMAIN fresh.rows :
           LET found == fresh.rows
               name  == found[k].nickname
           IN  \/ \E j \in DOMAIN found : j > k /\ found[j].id = found[k].id
               \/ \E r \in Range(mem) : r.nickname = name /\ r.id \notin Known(found)
               \/ \E r \in Range(found) : /\ r.nickname = name
                                         /\ FindByName(mem', name) = r.ip
  <1>1. ASSUME Stored PROVE Served
    <2> SUFFICES ASSUME OnDemandMerge, NEW found, found = fresh.rows, NEW k \in DOMAIN found,
                        \A j \in DOMAIN found : ~(j > k /\ found[j].id = found[k].id),
                        NEW name, name = found[k].nickname,
                        \A r \in Range(mem) : r.nickname = name => r.id \in Known(found)
                 PROVE  \E r \in Range(found) : r.nickname = name /\ FindByName(mem', name) = r.ip
      OBVIOUS
    <2>1. found \in Seq(DiscoveredDevice) /\ mem' = MergeRows(mem, found) /\ OneEach(mem)
      BY <1>1, BatchesAreRows, DiscoveryAssumption DEF Stored, OnDemandMerge
    <2>2. OneEach(mem') /\ Range(mem') = Merged(mem, found, Len(found))
      BY <2>1, MergeRowsFacts
    <2>3. /\ Range(found) = {found[j] : j \in 1..Len(found)}
          /\ Known(found) = {found[j].id : j \in 1..Len(found)}
          /\ k \in 1..Len(found)
      BY <2>1 DEF Range, Known
    <2>4. found[k] \in Range(mem')
      BY <2>1, <2>2, <2>3 DEF Merged
    <2>5. PICK r \in Range(mem') : r.nickname = name /\ FindByName(mem', name) = r.ip
      BY <2>2, <2>4, FindByNameFacts DEF OneEach
    <2>6. r \in Range(found)
      BY <2>2, <2>3, <2>5 DEF Merged
    <2> QED BY <2>5, <2>6
  <1>2. ASSUME Stored PROVE [Served]_discVars
    BY <1>1, <1>2
  <1> QED BY <1>2, DiscoveryInvariance, PTL DEF SSpec, FoundIsServed

\* The Vec implements the cache of module DeviceCache: merges and lookups.
THEOREM VecImplementsCache == SSpec => RowsImplementCache
  <1> DEFINE Implemented ==
        OnDemandMerge =>
         /\ AsCache(mem') = MergeIn(AsCache(mem), AsCache(MergeRows(<<>>, fresh.rows)))
         /\ \A n \in Names : FindByName(mem', n) \in Lookup(AsCache(mem'), n)
  <1>1. ASSUME Stored PROVE Implemented
    <2> SUFFICES ASSUME OnDemandMerge PROVE Implemented
      OBVIOUS
    <2>1. fresh.rows \in Seq(DiscoveredDevice) /\ mem' = MergeRows(mem, fresh.rows) /\ OneEach(mem)
      BY <1>1, BatchesAreRows, DiscoveryAssumption DEF Stored, OnDemandMerge
    <2>2. OneEach(mem')
      BY <2>1, MergeRowsFacts
    <2>3. AsCache(mem') = MergeIn(AsCache(mem), AsCache(MergeRows(<<>>, fresh.rows)))
      BY <2>1, MergeRowsIsMergeIn
    <2> QED BY <2>2, <2>3, FindIsLookup
  <1>2. ASSUME Stored PROVE [Implemented]_discVars
    BY <1>1, <1>2
  <1> QED BY <1>2, DiscoveryInvariance, PTL DEF SSpec, RowsImplementCache
=============================================================================
