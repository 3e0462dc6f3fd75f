----------------------------- MODULE DeviceCache -----------------------------
(***************************************************************************)
(* discovery::DeviceCache: what the last discovery sweeps said about the   *)
(* devices of the LAN.  The code keeps a Vec of rows with one row per      *)
(* device_id; here it is a function from device ids to rows.  The order of *)
(* the Vec is left out: it only decides which row lookup_by_nickname       *)
(* returns when two devices have the same nickname, and Lookup allows any. *)
(***************************************************************************)
CONSTANTS Ids,      \* device_id of every Tapo device that may be discovered
          Names,    \* nicknames, which are also the names of the config file
          IPs,      \* addresses
          NoIp,     \* Option::<IpAddr>::None
          Absent    \* there is no row for a device_id

\* DiscoveredDevice, without `model' and `last_seen', which nothing reads.
Row == [nickname : Names, ip : IPs]

Cache == [Ids -> Row \cup {Absent}]

ASSUME CacheAssumption == NoIp \notin IPs /\ Absent \notin Row

\* merge_in: every row of the fresh batch replaces the row of its device_id,
\* the others stay.  (`fresh' is a Cache too: Absent means "not seen".)
MergeIn(cache, fresh) ==
    [i \in Ids |-> IF fresh[i] # Absent THEN fresh[i] ELSE cache[i]]

\* Mutant of AddressesOf: the row is handed on instead of its parsed address.
RowsOf(cache, name) ==
    {cache[i] : i \in {j \in Ids : cache[j] # Absent /\ cache[j].nickname = name}}

\* The addresses recorded under a nickname.
AddressesOf(cache, name) ==
    {cache[i].ip : i \in {j \in Ids : /\ cache[j] # Absent
                                      /\ cache[j].nickname = name}}

\* lookup_by_nickname(name).and_then(|d| d.ip.parse().ok()): the possible results.
Lookup(cache, name) ==
    IF AddressesOf(cache, name) = {} THEN {NoIp} ELSE AddressesOf(cache, name)
=============================================================================
