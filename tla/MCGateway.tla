------------------------------ MODULE MCGateway ------------------------------
(* Small instances of Gateway.  A device object is <<name, load>>.          *)
EXTENDS Gateway, TLC

CONSTANTS n1, n2, q1, q2, boot, r1, r2, refresher, a1, notListed, malformed

OneName  == {n1}
TwoNames == {n1, n2}
NoReload   == {}
OneReload  == {r1}
TwoReloads == {r1, r2}
OneRequest  == {q1}
TwoRequests == {q1, q2}

MCDevices == Names \X ({boot} \cup Reloads)
MCNameOf  == [d \in MCDevices |-> d[1]]
MCLoadOf  == [d \in MCDevices |-> d[2]]
MCTasks   == Requests \cup MCDevices
MCCacheUsers == MCTasks \cup {boot, refresher} \cup Reloads

\* Every name is listed with its address.
Listed == [n \in Names |-> a1]
\* Every name is listed, none with an address.
Unaddressed == [n \in Names |-> NoIp]
\* n1 has been taken out.
Without1 == [n \in Names |-> IF n = n1 THEN notListed ELSE a1]

ContentFixed   == <<Listed>>
ContentLookup  == <<Unaddressed>>
ContentTwice   == <<Unaddressed, Listed>>
ContentEdited  == <<Unaddressed, malformed, Listed, Without1>>
=============================================================================
