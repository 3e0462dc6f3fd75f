------------------------------ MODULE BootLoad ------------------------------
(***************************************************************************)
(* What the boot load of server::state is to the rest of a start.  It ends  *)
(* with the devices loaded, or with the process; and once a task of it has  *)
(* searched the LAN and waits to merge what it found, only with the process. *)
(* Module Gateway has the load with its tasks and locks, module Startup has *)
(* it as one step: both implement this.                                     *)
(***************************************************************************)
VARIABLE boot  \* "off", "loading", "waiting": a task waits for the cache, or "done"

Init == boot = "off"

Begin    == boot = "off" /\ boot' = "loading"
Searched == boot = "loading" /\ boot' = "waiting"
Finish   == boot = "loading" /\ boot' = "done"

\* The config file is rejected, or the process ends, at any time.
Stop == boot # "off" /\ boot' = "off"

Next == Begin \/ Searched \/ Finish \/ Stop

Spec == Init /\ [][Next]_boot
=============================================================================
