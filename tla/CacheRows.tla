------------------------------ MODULE CacheRows ------------------------------
(***************************************************************************)
(* The Vec of rows inside discovery::DeviceCache, where DeviceCache.tla has *)
(* a function from device ids: merge_in overwrites in place or appends, and *)
(* the two lookups return the first row that fits.                          *)
(***************************************************************************)
EXTENDS DeviceCache, Naturals, SequencesExt

DiscoveredDevice == [id : Ids, nickname : Names, ip : IPs]

\* Index of the first row of a device, 0 if it has none.
Position(rows, id) == SelectInSeq(rows, LAMBDA r : r.id = id)

\* Mutant of MergeRow: a row that is there already is left as it is.
MergeRowOnce(rows, new) ==
    IF Position(rows, new.id) = 0 THEN Append(rows, new) ELSE rows

\* Mutant of MergeRow: every device found becomes a row of its own.
MergeRowAppends(rows, new) == Append(rows, new)

MergeRow(rows, new) ==
    LET k == Position(rows, new.id)
    IN  IF k = 0 THEN Append(rows, new) ELSE ReplaceAt(rows, k, new)

\* DeviceCache::merge_in.
MergeRows(rows, batch) ==
    LET merged[k \in 0..Len(batch)] ==
          IF k = 0 THEN rows ELSE MergeRow(merged[k - 1], batch[k])
    IN  merged[Len(batch)]

\* lookup_by_nickname(name).and_then(|d| d.ip.parse().ok()).
FindByName(rows, name) ==
    LET k == SelectInSeq(rows, LAMBDA r : r.nickname = name)
    IN  IF k = 0 THEN NoIp ELSE rows[k].ip

Known(rows) == {rows[k].id : k \in DOMAIN rows}

\* What DeviceCache.tla makes of a Vec.
AsCache(rows) ==
    [i \in Ids |-> LET k == Position(rows, i)
                   IN  IF k = 0 THEN Absent
                       ELSE [nickname |-> rows[k].nickname, ip |-> rows[k].ip]]

\* What discover may return: a host may answer more than once.
Batches(n) == BoundedSeq(DiscoveredDevice, n)
=============================================================================
