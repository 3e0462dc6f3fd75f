\* Starts, sweeps, rediscoveries and kills with two devices of one nickname and every
\* obstacle of a start.
SPECIFICATION SFairSpec
CONSTANTS
    Ids = {d1, d2}
    Names = {n1}
    IPs = {a1, a2}
    NoIp = NoIp
    Absent = Absent
    MaxFound = 2
    MaxOnDemand = 1
    Troubles = {"dataDir", "wildcard", "sessions", "port"}
INVARIANTS STypeOK OneRowPerDevice
PROPERTIES DiskOnlyMerges StoreCoversDisk FoundIsServed RowsImplementCache LoadIsBootLoad StartEnds
