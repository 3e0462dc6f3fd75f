\* README.md:69 on restarts; clients may hang up while they log in.
\* Logins are finitely many and a start may be refused: the system may stop.
SPECIFICATION Spec
CONSTANTS
    Logins = {l1, l2}
    Checks = {c1}
    Sids = {s1, s2}
    Faults = {"hangup"}
INVARIANTS IssuedKept
CHECK_DEADLOCK FALSE
