\* Three tasks share one device; the cache has it under either of two addresses.
\* Every step is a step of SharedConnection or changes nothing in it, and every call ends.
SPECIFICATION FairSpec
CONSTANTS
    t1 = t1  t2 = t2  t3 = t3  d1 = d1  n1 = n1  refresher = refresher
    Tasks <- ThreeTasks
    Devices <- OneDevice
    Names <- OneName
    NameOf <- NameOfOne
    Ids = {x1}
    IPs = {a1, a2}
    NoIp = NoIp
    Absent = Absent
    NoDevice = NoDevice
    Refresher <- refresher
    CacheUsers <- ThreeAndRefresher
INVARIANTS TypeOK GuardsMatchControl ExclusiveUse ConnectsOnce AttemptsRecorded
PROPERTIES ConnectionKept FailureIsExhaustive ImplementsSharedConnection CallsReturn
