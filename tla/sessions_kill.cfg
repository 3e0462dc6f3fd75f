\* README.md:69 on restarts; the process may die in the middle of a write.
\* Logins are finitely many and a start may be refused: the system may stop.
SPECIFICATION Spec
CONSTANTS
    Logins = {l1, l2}
    Checks = {c1}
    Sids = {s1, s2}
    Faults = {"kill"}
INVARIANTS Restarts
CHECK_DEADLOCK FALSE
