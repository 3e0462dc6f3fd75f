------------------------------ MODULE Discovery ------------------------------
(***************************************************************************)
(* Discovery of devices (discovery.rs): the cache file, the shared cache in *)
(* memory, the sweep that loads the file, searches the LAN, merges and      *)
(* saves (discover_and_cache), and the on-demand rediscovery of a device's  *)
(* task, which merges into memory only (refresh_in_memory).                 *)
(*                                                                          *)
(* main runs one sweep before anything else, the periodic task all others:  *)
(* never two at a time.  The actions here do not say when they may happen;  *)
(* module Startup does.  save() writes a temporary file and renames it; only *)
(* the rename looks at the temporary file, so its content is left out.  The *)
(* lock of the shared cache is left out too: each of its critical sections  *)
(* here is one assignment or merge without an await (its queues are the     *)
(* subject of module Gateway).                                              *)
(***************************************************************************)
EXTENDS CacheRows, Naturals, FiniteSets

CONSTANTS MaxFound,    \* bound: answers in one search of the LAN by a sweep ...
          MaxOnDemand  \* ... and by the task of a device

\* A LAN has finitely many devices.
ASSUME DiscoveryAssumption == IsFiniteSet(Ids) /\ MaxFound \in Nat /\ MaxOnDemand \in Nat

VARIABLES
    mem,    \* StateData.device_cache
    disk,   \* tapo_devices.json
    sweep,  \* the local state of discover_and_cache
    fresh   \* refresh_in_memory: whether a task whose search is over waits for the
            \* cache, and what it has found, which may be nothing

discVars == <<mem, disk, sweep, fresh>>

Vecs == BoundedSeq(DiscoveredDevice, Cardinality(Ids))
Files == [kind : {"absent", "foreign", "whole"}, rows : Vecs]
NoFile == [kind |-> "absent", rows |-> <<>>]
\* Not the JSON of a DeviceCache: from elsewhere, or torn by a power failure.
Foreign == [kind |-> "foreign", rows |-> <<>>]
Whole(rows) == [kind |-> "whole", rows |-> rows]

NoSweep == [at |-> "idle", rows |-> <<>>, read |-> TRUE]
NoSearch == [waits |-> FALSE, rows |-> <<>>]

\* DeviceCache::load: a file that is missing, does not parse or cannot be read
\* (read = FALSE) makes an empty cache.
Readings == {[rows |-> disk.rows, read |-> TRUE], [rows |-> <<>>, read |-> FALSE]}

-----------------------------------------------------------------------------
(* discover_and_cache                                                      *)

SweepLoad ==
    /\ sweep.at = "idle"
    /\ \E r \in Readings :
         sweep' = [at |-> "discover", rows |-> r.rows, read |-> r.read]
    /\ UNCHANGED <<mem, disk, fresh>>

SweepFound ==
    /\ sweep.at = "discover"
    /\ \E batch \in Batches(MaxFound) :
         sweep' = [sweep EXCEPT !.at = "write", !.rows = MergeRows(@, batch)]
    /\ UNCHANGED <<mem, disk, fresh>>

\* Mutant of Kept: a failed search leaves nothing behind.
KeptNone(rows) == <<>>

\* What is returned when the search fails.
Kept(rows) == rows

SweepFailed ==
    /\ sweep.at = "discover"
    /\ sweep' = [sweep EXCEPT !.at = "return", !.rows = Kept(@)]
    /\ UNCHANGED <<mem, disk, fresh>>

\* Mutant of SaveWrite: the cache file itself is truncated and written.
SaveWriteInPlace ==
    /\ sweep.at = "write"
    /\ sweep' = [sweep EXCEPT !.at = "rename"]
    /\ disk' = Foreign
    /\ UNCHANGED <<mem, fresh>>

\* The temporary file is written ...
SaveWrite ==
    /\ sweep.at = "write"
    /\ sweep' = [sweep EXCEPT !.at = "rename"]
    /\ UNCHANGED <<mem, disk, fresh>>

\* ... and renamed.
SaveRename ==
    /\ sweep.at = "rename"
    /\ sweep' = [sweep EXCEPT !.at = "return"]
    /\ disk' = Whole(sweep.rows)
    /\ UNCHANGED <<mem, fresh>>

\* The directory, the write or the rename fails: a warning.
SaveFails ==
    /\ sweep.at \in {"write", "rename"}
    /\ sweep' = [sweep EXCEPT !.at = "return"]
    /\ UNCHANGED <<mem, disk, fresh>>

\* main logs the size of the cache it gets and drops it.
SweepDrop ==
    /\ sweep.at = "return"
    /\ sweep' = NoSweep
    /\ UNCHANGED <<mem, disk, fresh>>

\* The periodic task replaces the shared cache by it.
SweepStore ==
    /\ sweep.at = "return"
    /\ sweep' = NoSweep
    /\ mem' = sweep.rows
    /\ UNCHANGED <<disk, fresh>>

SweepStep == SweepFound \/ SweepFailed \/ SaveWrite \/ SaveRename \/ SaveFails

-----------------------------------------------------------------------------
(* StateData::init, and refresh_in_memory.                                 *)

MemLoad ==
    /\ \E r \in Readings : mem' = r.rows
    /\ UNCHANGED <<disk, sweep, fresh>>

\* A search that ends well, with or without answers, asks for cache.write(); one
\* that fails leaves no trace.  Bound: one task at a time waits, as merges follow
\* each other anyway.
OnDemandFind ==
    /\ ~fresh.waits
    /\ \E batch \in Batches(MaxOnDemand) : fresh' = [waits |-> TRUE, rows |-> batch]
    /\ UNCHANGED <<mem, disk, sweep>>

OnDemandMerge ==
    /\ fresh.waits
    /\ mem' = MergeRows(mem, fresh.rows)
    /\ fresh' = NoSearch
    /\ UNCHANGED <<disk, sweep>>

\* The request that searches is dropped while it waits for the shared cache.
OnDemandDrop ==
    /\ fresh.waits
    /\ fresh' = NoSearch
    /\ UNCHANGED <<mem, disk, sweep>>

\* The process ends.
Forget ==
    /\ mem' = <<>>
    /\ sweep' = NoSweep
    /\ fresh' = NoSearch
    /\ UNCHANGED disk

DInit ==
    /\ mem = <<>>
    /\ disk \in {NoFile, Foreign}
    /\ sweep = NoSweep
    /\ fresh = NoSearch

-----------------------------------------------------------------------------
(* Properties                                                              *)

DTypeOK ==
    /\ mem \in Vecs
    /\ disk \in Files
    /\ sweep \in [at : {"idle", "discover", "write", "rename", "return"},
                  rows : Vecs, read : BOOLEAN]
    /\ fresh \in [waits : BOOLEAN, rows : Batches(MaxOnDemand)]

\* No device ever has two rows, in memory, on disk or in a sweep, although rows
\* come from several searches, each of which may see a device twice.
OneRowPerDevice ==
    \A rows \in {mem, disk.rows, sweep.rows} :
        \A i, j \in DOMAIN rows : rows[i].id = rows[j].id => i = j

\* discovery.rs:80-82 and 124-126: the cache file goes from one complete cache to
\* another, and no device in it is ever lost: not by a search that misses it or
\* fails, a save that fails, or a process that dies anywhere.  The one exception
\* is a sweep that could not read the file.
DiskOnlyMerges ==
    [][disk' # disk =>
         /\ disk'.kind = "whole"
         /\ sweep.read => Known(disk.rows) \subseteq Known(disk'.rows)]_disk

\* The same of a finished sweep and memory, also when searching or saving failed:
\* what replaces the shared cache covers the file (if it could be read).
StoreCoversDisk ==
    [][SweepStore /\ sweep.read
         => Known(disk.rows) \subseteq Known(mem')]_discVars

\* What a search found of a device is what its name resolves to from then on,
\* unless an older row, which the search did not refresh, has the same name and
\* shadows it.  (Of a device that answers twice, the last answer counts.)
FoundIsServed ==
    [][OnDemandMerge =>
         \A k \in DOMAIN fresh.rows :
           LET found == fresh.rows
               name  == found[k].nickname
           IN  \/ \E j \in DOMAIN found : j > k /\ found[j].id = found[k].id
               \/ \E r \in Range(mem) : r.nickname = name /\ r.id \notin Known(found)
               \/ \E r \in Range(found) : /\ r.nickname = name
                                         /\ FindByName(mem', name) = r.ip]_discVars

\* The Vec does what DeviceCache.tla says: a merge is MergeIn on the rows as a
\* function of ids, and the first row of a name is one of those Lookup allows.
RowsImplementCache ==
    [][OnDemandMerge =>
         /\ AsCache(mem') = MergeIn(AsCache(mem), AsCache(MergeRows(<<>>, fresh.rows)))
         /\ \A n \in Names : FindByName(mem', n) \in Lookup(AsCache(mem'), n)]_discVars

=============================================================================
