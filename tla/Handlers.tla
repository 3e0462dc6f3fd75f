------------------------------ MODULE Handlers ------------------------------
(***************************************************************************)
(* What the server answers: auth_middleware and login (server/auth.rs), the *)
(* action routes (server/actions.rs), /refresh-session (sessions.rs),       *)
(* /devices and /reload-config (mod.rs), with their status codes, against a *)
(* config file that is edited and reloaded.                                 *)
(*                                                                          *)
(* The locks are those of modules Gateway and Sessions; here a guard on     *)
(* loaded_config is the fact that a request is at "device", and a reload    *)
(* replaces loaded_config when there is none.  Boot is over.                *)
(***************************************************************************)
EXTENDS Routes, Naturals, Sequences

CONSTANTS Clients,  \* connections, one request at a time each
          Names,    \* names of devices ...
          Types,    \* ... and their types
          Configs,  \* Configs[v]: version v of the config file
          Malformed

\* TapoConnectionInfos; `addressed' says whether ip_addr is there.
Entry == [name : Names, type : Types, addressed : BOOLEAN]
Versions == DOMAIN Configs
Passwords == {Configs[v].password : v \in {u \in Versions : Configs[u] # Malformed}}

ASSUME HandlersAssumption ==
    /\ Types \subseteq TapoDeviceType
    /\ 1 \in Versions /\ Configs[1] # Malformed
    /\ \A v \in Versions : Configs[v] # Malformed =>
         \A k \in DOMAIN Configs[v].devices : Configs[v].devices[k] \in Entry

VARIABLES
    file,    \* version of the config file on disk
    loaded,  \* StateData.loaded_config: version, password, devices by name
    req,     \* req[c]: the request of client c, and the point it is at
    token,   \* clients that have a session
    inForce  \* inForce[c]: passwords in force since the request of c began (history)

vars == <<file, loaded, req, token, inForce>>

Goto(c, point) == req' = [req EXCEPT ![c].at = point]
Reply(c, status) == req' = [req EXCEPT ![c] = [at |-> "answered", status |-> status]]

\* Requests; an unknown route or bad parameters never reach a handler.
Login(p)  == [kind |-> "login", at |-> "compare", password |-> p]
Act(n, t) == [kind |-> "action", at |-> "auth", name |-> n, route |-> t]
Plain     == {[kind |-> k, at |-> "auth"] : k \in {"devices", "reload"}}
Refresh(n) == [kind |-> "refresh", at |-> "auth", name |-> n]

\* Request r with the guard on its device, of type t; a reload of version v, under way.
Using(r, t) ==
    IF r.kind = "action"
    THEN [kind |-> "action", at |-> "device", name |-> r.name, route |-> r.route, type |-> t]
    ELSE [kind |-> "refresh", at |-> "device", name |-> r.name, type |-> t]
Joining(v) == [kind |-> "reload", at |-> "joining", version |-> v]

Requests == {Login(p) : p \in Passwords} \cup {Act(n, t) : n \in Names, t \in Types}
              \cup {Refresh(n) : n \in Names} \cup Plain

-----------------------------------------------------------------------------
(* Loading.                                                                *)

Entries(v, n) ==
    LET devices == Configs[v].devices
    IN  {devices[k] : k \in {j \in DOMAIN devices : devices[j].name = n}}

\* The entries of a name that become devices: with an address of their own, or
\* found in the device cache.
Usable(v, n, found) == {e \in Entries(v, n) : e.addressed \/ n \in found}

\* Mutant of Devices: names without an address are kept, as unresolved.
DevicesUnresolved(v, found) ==
    {f \in [Names -> Types \cup {"unresolved"}] :
       \A n \in Names : f[n] = "unresolved" <=> Usable(v, n, found) = {}}

\* LoadedConfig::new: of several devices of one name, the one whose task happened
\* to be joined last stays.
Devices(v, found) ==
    LET names == {n \in Names : Usable(v, n, found) # {}}
    IN  {f \in [names -> Types] :
           \A n \in names : \E e \in Usable(v, n, found) : e.type = f[n]}

Loadings(v) ==
    {[version |-> v, password |-> Configs[v].password, devices |-> ds] :
       ds \in UNION {Devices(v, found) : found \in SUBSET Names}}

-----------------------------------------------------------------------------
(* The handlers.                                                           *)

Begin(c) ==
    /\ req[c].at \in {"idle", "answered"}
    /\ \E r \in Requests : req' = [req EXCEPT ![c] = r]
    /\ inForce' = [inForce EXCEPT ![c] = {loaded.password}]
    /\ UNCHANGED <<file, loaded, token>>

\* auth_middleware: no valid bearer token, no service.
Auth(c) ==
    /\ req[c].at = "auth"
    /\ IF c \in token THEN Goto(c, "handler") ELSE Reply(c, 403)
    /\ UNCHANGED <<file, loaded, token, inForce>>

\* Mutant of PasswordToMatch: the file is looked at, not what is loaded.
PasswordOnDisk == IF Configs[file] = Malformed THEN loaded.password ELSE Configs[file].password

PasswordToMatch == loaded.password

LoginCompare(c) ==
    /\ req[c].at = "compare"
    /\ IF req[c].password = PasswordToMatch THEN Goto(c, "insert") ELSE Reply(c, 403)
    /\ UNCHANGED <<file, loaded, token, inForce>>

\* Sessions::insert fails when the id is taken or the file cannot be written.
LoginInsert(c) ==
    /\ req[c].at = "insert"
    /\ \/ Reply(c, 200) /\ token' = token \cup {c}
       \/ Reply(c, 500) /\ UNCHANGED token
    /\ UNCHANGED <<file, loaded, inForce>>

ListDevices(c) ==
    /\ req[c].at = "handler" /\ req[c].kind = "devices"
    /\ Reply(c, 200)
    /\ UNCHANGED <<file, loaded, token, inForce>>

\* The device is looked up; the guard is kept as long as it is used.
FindDevice(c) ==
    /\ req[c].at = "handler" /\ req[c].kind \in {"action", "refresh"}
    /\ IF req[c].name \in DOMAIN loaded.devices
       THEN req' = [req EXCEPT ![c] = Using(@, loaded.devices[@.name])]
       ELSE Reply(c, IF req[c].kind = "action" THEN 404 ELSE 500)
    /\ UNCHANGED <<file, loaded, token, inForce>>

\* It cannot be connected, or it is asked to do what it is asked to, if it can.
UseDevice(c) ==
    /\ req[c].at = "device"
    /\ \/ Reply(c, 500)
       \/ Reply(c, IF req[c].kind = "action" /\ ~Accepts(req[c].route, req[c].type)
                   THEN 400 ELSE 200)
    /\ UNCHANGED <<file, loaded, token, inForce>>

\* A reload that fails says so in the body of a 200.
ReloadRead(c) ==
    /\ req[c].at = "handler" /\ req[c].kind = "reload"
    /\ IF Configs[file] = Malformed
       THEN Reply(c, 200)
       ELSE req' = [req EXCEPT ![c] = Joining(file)]
    /\ UNCHANGED <<file, loaded, token, inForce>>

\* Mutant of GuardHeld: nobody's guard survives the lookup.
NoGuardHeld == FALSE

GuardHeld == \E c \in Clients : req[c].at = "device"

ReloadStore(c) ==
    /\ req[c].at = "joining"
    /\ ~GuardHeld
    /\ \E l \in Loadings(req[c].version) :
         /\ loaded' = l
         /\ inForce' = [d \in Clients |-> inForce[d] \cup {l.password}]
    /\ Reply(c, 200)
    /\ UNCHANGED <<file, token>>

Hangup(c) ==
    /\ req[c].at \notin {"idle", "answered"}
    /\ req' = [req EXCEPT ![c] = [at |-> "idle"]]
    /\ UNCHANGED <<file, loaded, token, inForce>>

EditFile ==
    /\ file + 1 \in Versions
    /\ file' = file + 1
    /\ UNCHANGED <<loaded, req, token, inForce>>

Init ==
    /\ file = 1
    /\ loaded \in Loadings(1)
    /\ req = [c \in Clients |-> [at |-> "idle"]]
    /\ token = {}
    /\ inForce = [c \in Clients |-> {}]

Next ==
    \/ \E c \in Clients :
         \/ Begin(c) \/ Auth(c) \/ LoginCompare(c) \/ LoginInsert(c) \/ ListDevices(c)
         \/ FindDevice(c) \/ UseDevice(c) \/ ReloadRead(c) \/ ReloadStore(c) \/ Hangup(c)
    \/ EditFile

Spec == Init /\ [][Next]_vars

-----------------------------------------------------------------------------
(* Properties                                                              *)

HTypeOK ==
    /\ file \in Versions
    /\ loaded.version \in Versions /\ loaded.password \in Passwords
    /\ \A n \in DOMAIN loaded.devices : n \in Names /\ loaded.devices[n] \in Types
    /\ token \subseteq Clients
    /\ \A c \in Clients :
         /\ inForce[c] \subseteq Passwords
         /\ req[c].at \in {"idle", "auth", "handler", "compare", "insert", "device",
                          "joining", "answered"}
         /\ req[c].at = "answered" => req[c].status \in {200, 400, 403, 404, 500}

Answers(c, kind, status) ==
    /\ req[c].at # "answered" /\ req'[c].at = "answered"
    /\ req[c].kind = kind /\ req'[c].status = status

\* The answer of an action route is true of the configuration in force when it is
\* given, however long connecting took and whatever was reloaded meanwhile: 404
\* only if no device has the name and no entry of it has an address; 400 only if
\* the device that has the name then, which some entry of that name describes, is
\* connected with another handler than the route's (devices.rs), and 200 only if
\* it is connected with the route's.  So between two reloads a name has one
\* device, also if the file lists several, and answers do not contradict each other.
AnswersTrue ==
    [][\A c \in Clients :
         LET name    == req[c].name
             entries == Entries(loaded.version, name)
             handler == HandlerOf(req[c].route)
             Serves(e) == name \in DOMAIN loaded.devices /\ loaded.devices[name] = e.type
         IN  /\ Answers(c, "action", 404) =>
                  name \notin DOMAIN loaded.devices /\ \A e \in entries : ~e.addressed
             /\ Answers(c, "action", 400) =>
                  \E e \in entries : Serves(e) /\ HandlerOf(e.type) # handler
             /\ Answers(c, "action", 200) =>
                  \E e \in entries : Serves(e) /\ HandlerOf(e.type) = handler
      ]_vars

\* A login succeeds only with a password that was in force at some time while it
\* ran; which a reload may have replaced by the time the session is there.
SessionNeedsPassword ==
    [][\A c \in Clients :
         Answers(c, "login", 200) => req[c].password \in inForce[c]]_vars

=============================================================================
