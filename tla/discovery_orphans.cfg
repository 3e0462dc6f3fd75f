\* One device, and nothing in the way of a start.
SPECIFICATION SFairSpec
CONSTANTS
    Ids = {d1}
    Names = {n1}
    IPs = {a1}
    NoIp = NoIp
    Absent = Absent
    MaxFound = 1
    MaxOnDemand = 1
    Troubles = {}
PROPERTIES KnownAddressesKept
