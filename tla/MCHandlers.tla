----------------------------- MODULE MCHandlers -----------------------------
(* A small instance of Handlers.                                            *)
EXTENDS Handlers, TLC

CONSTANTS n1, n2, malformed

Device(n, t, addressed) == [name |-> n, type |-> t, addressed |-> addressed]

\* One name twice; then another password, types exchanged and a device without
\* address; a mistake; and the first name gone.
MCConfigs ==
    <<[password |-> "old", devices |-> <<Device(n1, "L510", TRUE), Device(n1, "P100", FALSE)>>],
      [password |-> "new", devices |-> <<Device(n1, "P100", TRUE), Device(n2, "L520", FALSE)>>],
      malformed,
      [password |-> "new", devices |-> <<Device(n2, "L510", TRUE)>>]>>

Symmetric == Permutations(Clients)
=============================================================================
