\* The boot load, one reload, two requests: who waits, and for how long.
\* The process may exit (boot with a malformed file) or stop for good (boot load
\* wedged), so a state without successor is not an error.
SPECIFICATION GFairSpec
CONSTANTS
    n1 = n1  n2 = n2  q1 = q1  q2 = q2  boot = boot  r1 = r1  r2 = r2
    refresher = refresher  a1 = a1  notListed = notListed  malformed = malformed
    Names <- OneName
    Reloads <- OneReload
    Requests <- TwoRequests
    Ids = {x1}
    Content <- ContentLookup
    IPs = {a1}
    NoIp = NoIp
    Absent = Absent
    NoDevice = NoDevice
    Boot <- boot
    Refresher <- refresher
    NotListed <- notListed
    Malformed <- malformed
    Devices <- MCDevices
    NameOf <- MCNameOf
    LoadOf <- MCLoadOf
    Tasks <- MCTasks
    CacheUsers <- MCCacheUsers
PROPERTIES LiveUnlessWedged
CHECK_DEADLOCK FALSE
