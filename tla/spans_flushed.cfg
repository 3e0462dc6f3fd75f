\* One device, killed while its server answers requests.
SPECIFICATION SSpec
CONSTANTS
    Ids = {d1}
    Names = {n1}
    IPs = {a1}
    NoIp = NoIp
    Absent = Absent
    MaxFound = 1
    MaxOnDemand = 1
    Troubles = {}
PROPERTIES SpansFlushed
