\* Three logins of which two may draw the same id; clients hang up, the disk fails,
\* the process dies at any time.
\* Logins are finitely many and a start may be refused: the system may stop.
SPECIFICATION FairSpec
CONSTANTS
    Logins = {l1, l2, l3}
    Checks = {c1}
    Sids = {s1, s2}
    Faults = {"hangup", "disk", "kill"}
INVARIANTS TypeOK SessionsPreserved SessionsDistinct FileFollowsMap
PROPERTIES IssuedWereWritten RequestsEnd
CHECK_DEADLOCK FALSE
