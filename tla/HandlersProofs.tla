--------------------------- MODULE HandlersProofs ---------------------------
(***************************************************************************)
(* What the server answers is true of the configuration in force, for every *)
(* set of clients, names and types and every history of the config file.    *)
(***************************************************************************)
EXTENDS Handlers, TLAPS

-----------------------------------------------------------------------------
(* Routes and device types.                                                *)

\* The groups of routes in server/actions.rs and the handlers devices.rs connects
\* are the same partition of the device types: a route accepts the types connected
\* with its own handler, and no others.
THEOREM RoutesMatchHandlers ==
    \A route, type \in TapoDeviceType :
      Accepts(route, type) <=> HandlerOf(route) = HandlerOf(type)
  BY DEF TapoDeviceType, Accepts, HandlerOf, Groups, Bulbs, ColorBulbs, RgbStrips,
         RgbicStrips, Plugs, EnergyPlugs, PowerStrips, EnergyStrips

-----------------------------------------------------------------------------
(* The invariant.                                                          *)

\* What a request carries at each point of its handler.
Shapes ==
    [at : {"idle"}]
      \cup [at : {"answered"}, status : {200, 400, 403, 404, 500}]
      \cup [kind : {"login"}, at : {"compare", "insert"}, password : Passwords]
      \cup [kind : {"action"}, at : {"auth", "handler"}, name : Names, route : Types]
      \cup [kind : {"action"}, at : {"device"}, name : Names, route : Types, type : Types]
      \cup [kind : {"refresh"}, at : {"auth", "handler"}, name : Names]
      \cup [kind : {"refresh"}, at : {"device"}, name : Names, type : Types]
      \cup [kind : {"devices", "reload"}, at : {"auth", "handler"}]
      \cup [kind : {"reload"}, at : {"joining"}, version : Versions]

Typed ==
    /\ req \in [Clients -> Shapes]
    /\ file \in Versions
    /\ token \subseteq Clients
    /\ inForce \in [Clients -> SUBSET Passwords]

\* What is loaded is a loading of one well-formed version of the file, and what a
\* reload is about to store will be.
LoadedFromFile ==
    /\ loaded.version \in Versions /\ Configs[loaded.version] # Malformed
    /\ loaded \in Loadings(loaded.version)
    /\ \A c \in Clients : req[c].at = "joining" => Configs[req[c].version] # Malformed

\* A device in use is the one loaded under its name: no reload under a guard.
DeviceOfConfig ==
    \A c \in Clients :
      req[c].at = "device" => /\ req[c].name \in DOMAIN loaded.devices
                              /\ req[c].type = loaded.devices[req[c].name]

\* inForce is complete, and a login past its comparison has a password of it.
PasswordsInForce ==
    \A c \in Clients :
      /\ req[c].at # "idle" => loaded.password \in inForce[c]
      /\ req[c].at = "insert" => req[c].password \in inForce[c]

HInv == Typed /\ LoadedFromFile /\ DeviceOfConfig /\ PasswordsInForce

-----------------------------------------------------------------------------
(* Lemmas.                                                                 *)

\* Entries of a well-formed version are entries.
LEMMA EntriesAreEntries ==
    ASSUME NEW v \in Versions, Configs[v] # Malformed, NEW n
    PROVE  Entries(v, n) \subseteq Entry
  BY HandlersAssumption DEF Entries

\* A loading has the version and password of the file, a device for every name that
\* has an entry with an address, and only devices that have an entry of their type.
LEMMA LoadingFacts ==
    ASSUME NEW v \in Versions, Configs[v] # Malformed, NEW l \in Loadings(v)
    PROVE  /\ l.version = v
           /\ l.password = Configs[v].password /\ l.password \in Passwords
           /\ \A n \in DOMAIN l.devices : n \in Names /\ l.devices[n] \in Types
           /\ \A n \in Names :
                (\E e \in Entries(v, n) : e.addressed) => n \in DOMAIN l.devices
           /\ \A n \in DOMAIN l.devices :
                \E e \in Entries(v, n) : e.type = l.devices[n]
  <1>1. PICK found \in SUBSET Names : \E ds \in Devices(v, found) :
          l = [version |-> v, password |-> Configs[v].password, devices |-> ds]
    BY DEF Loadings
  <1>2. PICK ds \in Devices(v, found) :
          l = [version |-> v, password |-> Configs[v].password, devices |-> ds]
    BY <1>1
  <1> DEFINE names == {n \in Names : Usable(v, n, found) # {}}
  <1>3. /\ ds \in [names -> Types]
        /\ \A n \in names : \E e \in Usable(v, n, found) : e.type = ds[n]
    BY <1>2 DEF Devices
  <1>4. \A n \in Names : (\E e \in Entries(v, n) : e.addressed) => n \in names
    BY DEF Usable
  <1>5. \A n \in names : \E e \in Entries(v, n) : e.type = ds[n]
    BY <1>3 DEF Usable
  <1>6. Configs[v].password \in Passwords
    BY DEF Passwords
  <1> QED BY <1>2, <1>3, <1>4, <1>5, <1>6

\* What a request at a point of its handler carries.
LEMMA ShapeFacts ==
    ASSUME Typed, NEW c \in Clients
    PROVE  /\ req[c].at \in {"idle", "auth", "handler", "compare", "insert", "device",
                             "joining", "answered"}
           /\ req[c].at = "answered" => req[c].status \in {200, 400, 403, 404, 500}
           /\ req[c].at \in {"compare", "insert"} =>
                /\ req[c].kind = "login"
                /\ req[c].password \in Passwords
           /\ req[c].at = "handler" /\ req[c].kind \in {"action", "refresh"} =>
                req[c].name \in Names
           /\ req[c].at = "handler" /\ req[c].kind = "action" => req[c].route \in Types
           /\ req[c].at = "device" =>
                /\ req[c].kind \in {"action", "refresh"}
                /\ req[c].name \in Names /\ req[c].type \in Types
                /\ req[c].kind = "action" => req[c].route \in Types
           /\ req[c].at = "joining" => req[c].version \in Versions /\ req[c].kind = "reload"
  <1>1. req[c] \in Shapes
    BY DEF Typed
  <1> QED BY <1>1 DEF Shapes

\* Past auth_middleware, a request carries what it carried.
LEMMA PastAuth ==
    ASSUME Typed, NEW c \in Clients, req[c].at = "auth", Goto(c, "handler")
    PROVE  \E r \in Shapes : r.at = "handler" /\ req' = [req EXCEPT ![c] = r]
  <1> DEFINE r == [req[c] EXCEPT !.at = "handler"]
  <1>1. req[c] \in Shapes
    BY DEF Typed
  <1>2. r \in Shapes /\ r.at = "handler"
    BY <1>1 DEF Shapes
  <1>3. req' = [req EXCEPT ![c] = r]
    BY DEF Goto
  <1> QED BY <1>2, <1>3

\* An answer, and no request, are well-formed.
LEMMA PlainShapes ==
    /\ [at |-> "idle"] \in Shapes
    /\ \A status \in {200, 400, 403, 404, 500} : [at |-> "answered", status |-> status] \in Shapes
  BY DEF Shapes

\* A request that leaves its point, for one that carries nothing and answers no login,
\* disturbs nothing.
LEMMA OneMoves ==
    ASSUME HInv, NEW c \in Clients, NEW r \in Shapes,
           req' = [req EXCEPT ![c] = r],
           r.at \notin {"device", "insert", "joining"},
           req[c].at # "idle" \/ r.at = "idle",
           token' \subseteq Clients, UNCHANGED <<file, loaded, inForce>>
    PROVE  HInv'
  <1> USE DEF HInv
  <1>1. Typed'
    BY DEF Typed
  <1>2. LoadedFromFile'
    BY DEF LoadedFromFile, Typed
  <1>3. DeviceOfConfig'
    BY DEF DeviceOfConfig, Typed
  <1>4. PasswordsInForce'
    BY DEF PasswordsInForce, Typed
  <1> QED BY <1>1, <1>2, <1>3, <1>4

-----------------------------------------------------------------------------
(* Every step keeps the invariant.                                         *)

\* A request begins with what is in force.
LEMMA BeginKeeps == ASSUME HInv, NEW c \in Clients, Begin(c) PROVE HInv'
  <1>1. PICK r \in Requests : req' = [req EXCEPT ![c] = r]
    BY DEF Begin
  <1>2. r \in Shapes /\ r.at \in {"auth", "compare"}
    BY DEF Requests, Login, Act, Refresh, Plain, Shapes
  <1>3. loaded.password \in Passwords
    BY LoadingFacts DEF HInv, LoadedFromFile
  <1>4. Typed'
    BY <1>1, <1>2, <1>3 DEF Begin, HInv, Typed
  <1>5. LoadedFromFile'
    BY <1>1, <1>2 DEF Begin, HInv, LoadedFromFile, Typed
  <1>6. DeviceOfConfig'
    BY <1>1, <1>2 DEF Begin, HInv, DeviceOfConfig, Typed
  <1>7. PasswordsInForce'
    BY <1>1, <1>2 DEF Begin, HInv, PasswordsInForce, Typed
  <1> QED BY <1>4, <1>5, <1>6, <1>7 DEF HInv

\* What answers, goes on without taking anything, or hangs up.
LEMMA SimpleKeeps ==
    ASSUME HInv, NEW c \in Clients,
           \/ Auth(c) \/ LoginInsert(c) \/ ListDevices(c) \/ UseDevice(c) \/ Hangup(c)
    PROVE  HInv'
  <1>1. token' \subseteq Clients /\ UNCHANGED <<file, loaded, inForce>>
    BY DEF HInv, Typed, Auth, LoginInsert, ListDevices, UseDevice, Hangup
  <1>2. req[c].at # "idle"
    BY DEF Auth, LoginInsert, ListDevices, UseDevice, Hangup
  <1>3. \/ Reply(c, 200) \/ Reply(c, 400) \/ Reply(c, 403) \/ Reply(c, 500)
        \/ req' = [req EXCEPT ![c] = [at |-> "idle"]]
        \/ req[c].at = "auth" /\ Goto(c, "handler")
    BY DEF Auth, LoginInsert, ListDevices, UseDevice, Hangup
  <1>4. CASE Reply(c, 200) \/ Reply(c, 400) \/ Reply(c, 403) \/ Reply(c, 500)
    <2>1. PICK r \in Shapes : r.at = "answered" /\ req' = [req EXCEPT ![c] = r]
      BY <1>4, PlainShapes DEF Reply
    <2> QED BY <1>1, <1>2, <2>1, OneMoves
  <1>5. CASE req' = [req EXCEPT ![c] = [at |-> "idle"]]
    BY <1>1, <1>2, <1>5, PlainShapes, OneMoves
  <1>6. CASE req[c].at = "auth" /\ Goto(c, "handler")
    <2>1. PICK r \in Shapes : r.at = "handler" /\ req' = [req EXCEPT ![c] = r]
      BY <1>6, PastAuth DEF HInv
    <2> QED BY <1>1, <1>2, <2>1, OneMoves
  <1> QED BY <1>3, <1>4, <1>5, <1>6

\* The comparison is with the password in force.
LEMMA LoginCompareKeeps == ASSUME HInv, NEW c \in Clients, LoginCompare(c) PROVE HInv'
  <1>1. CASE req[c].password = PasswordToMatch
    <2> DEFINE r == [kind |-> "login", at |-> "insert", password |-> req[c].password]
    <2>1. /\ req[c] = [kind |-> "login", at |-> "compare", password |-> req[c].password]
          /\ req[c].password \in Passwords
      <3>1. req[c] \in Shapes /\ req[c].at = "compare"
        BY DEF LoginCompare, HInv, Typed
      <3> QED BY <3>1 DEF Shapes
    <2>2. req' = [req EXCEPT ![c] = r] /\ r \in Shapes
      BY <1>1, <2>1 DEF LoginCompare, Goto, Shapes
    <2>3. UNCHANGED <<file, loaded, token, inForce>> /\ req[c].at = "compare"
      BY DEF LoginCompare
    <2> HIDE DEF r
    <2>4. r.at = "insert" /\ r.password = req[c].password
      BY DEF r
    <2>5. Typed' /\ LoadedFromFile' /\ DeviceOfConfig'
      BY <2>2, <2>3, <2>4 DEF HInv, Typed, LoadedFromFile, DeviceOfConfig
    <2>6. PasswordsInForce'
      BY <1>1, <2>2, <2>3, <2>4 DEF HInv, Typed, PasswordsInForce, PasswordToMatch
    <2> QED BY <2>5, <2>6 DEF HInv
  <1>2. CASE req[c].password # PasswordToMatch
    BY <1>2, PlainShapes, OneMoves DEF LoginCompare, Reply, HInv, Typed
  <1> QED BY <1>1, <1>2

\* The device found is the one loaded.
LEMMA FindDeviceKeeps == ASSUME HInv, NEW c \in Clients, FindDevice(c) PROVE HInv'
  <1>1. CASE req[c].name \in DOMAIN loaded.devices
    <2> DEFINE r == Using(req[c], loaded.devices[req[c].name])
    <2>1. req[c].name \in Names /\ (req[c].kind = "action" => req[c].route \in Types)
      BY ShapeFacts DEF FindDevice, HInv
    <2>2. loaded.devices[req[c].name] \in Types
      BY <1>1, LoadingFacts DEF HInv, LoadedFromFile
    <2>3. r \in Shapes
      BY <2>1, <2>2 DEF Using, Shapes
    <2>4. r.at = "device" /\ r.name = req[c].name /\ r.type = loaded.devices[req[c].name]
      BY DEF Using
    <2>5. req' = [req EXCEPT ![c] = r] /\ UNCHANGED <<file, loaded, token, inForce>>
          /\ req[c].at = "handler"
      BY <1>1 DEF FindDevice
    <2> HIDE DEF r
    <2>6. Typed' /\ LoadedFromFile'
      BY <2>3, <2>4, <2>5 DEF HInv, Typed, LoadedFromFile
    <2>7. DeviceOfConfig'
      BY <1>1, <2>4, <2>5 DEF HInv, Typed, DeviceOfConfig
    <2>8. PasswordsInForce'
      BY <2>4, <2>5 DEF HInv, Typed, PasswordsInForce
    <2> QED BY <2>6, <2>7, <2>8 DEF HInv
  <1>2. CASE req[c].name \notin DOMAIN loaded.devices
    BY <1>2, PlainShapes, OneMoves DEF FindDevice, Reply, HInv, Typed
  <1> QED BY <1>1, <1>2

\* A reload reads a well-formed file or fails.
LEMMA ReloadReadKeeps == ASSUME HInv, NEW c \in Clients, ReloadRead(c) PROVE HInv'
  <1>1. CASE Configs[file] = Malformed
    BY <1>1, PlainShapes, OneMoves DEF ReloadRead, Reply, HInv, Typed
  <1>2. CASE Configs[file] # Malformed
    <2>1. req' = [req EXCEPT ![c] = Joining(file)] /\ UNCHANGED <<file, loaded, token, inForce>>
          /\ req[c].at = "handler"
      BY <1>2 DEF ReloadRead
    <2>2. Joining(file) \in Shapes /\ Joining(file).at = "joining" /\ Joining(file).version = file
      BY DEF Joining, Shapes, HInv, Typed
    <2>3. Typed' /\ DeviceOfConfig' /\ PasswordsInForce'
      BY <2>1, <2>2 DEF HInv, Typed, DeviceOfConfig, PasswordsInForce
    <2>4. LoadedFromFile'
      BY <1>2, <2>1, <2>2 DEF HInv, Typed, LoadedFromFile
    <2> QED BY <2>3, <2>4 DEF HInv
  <1> QED BY <1>1, <1>2

\* A reload replaces the configuration under nobody's guard, and whoever is still
\* running sees the new password in force.
LEMMA ReloadStoreKeeps == ASSUME HInv, NEW c \in Clients, ReloadStore(c) PROVE HInv'
  <1>1. PICK l \in Loadings(req[c].version) :
          loaded' = l /\ inForce' = [d \in Clients |-> inForce[d] \cup {l.password}]
    BY DEF ReloadStore
  <1>2. /\ req[c].at = "joining" /\ req[c].version \in Versions
        /\ Configs[req[c].version] # Malformed
    <2>1. Typed /\ req[c].at = "joining"
      BY DEF ReloadStore, HInv
    <2>2. req[c].version \in Versions
      BY <2>1, ShapeFacts
    <2> QED BY <2>1, <2>2 DEF HInv, LoadedFromFile
  <1>3. l.version = req[c].version /\ l.password \in Passwords
    BY <1>2, LoadingFacts
  <1>4. req' = [req EXCEPT ![c] = [at |-> "answered", status |-> 200]]
        /\ UNCHANGED <<file, token>>
    BY DEF ReloadStore, Reply
  <1>5. \A d \in Clients : req[d].at # "device"
    BY DEF ReloadStore, GuardHeld
  <1>6. Typed'
    BY <1>1, <1>3, <1>4, PlainShapes DEF HInv, Typed
  <1>7. LoadedFromFile'
    BY <1>1, <1>2, <1>3, <1>4 DEF HInv, Typed, LoadedFromFile
  <1>8. DeviceOfConfig'
    BY <1>4, <1>5 DEF HInv, Typed, DeviceOfConfig
  <1>9. PasswordsInForce'
    BY <1>1, <1>2, <1>4 DEF HInv, Typed, PasswordsInForce
  <1> QED BY <1>6, <1>7, <1>8, <1>9 DEF HInv

\* All steps.
LEMMA HNextInv == ASSUME HInv, [Next]_vars PROVE HInv'
  <1>1. ASSUME EditFile \/ UNCHANGED vars PROVE HInv'
    BY <1>1 DEF EditFile, vars, HInv, Typed, LoadedFromFile, DeviceOfConfig, PasswordsInForce
  <1> QED BY <1>1, BeginKeeps, SimpleKeeps, LoginCompareKeeps, FindDeviceKeeps,
            ReloadReadKeeps, ReloadStoreKeeps DEF Next

\* A request is answered by a step of its own.
LEMMA WhoAnswers ==
    ASSUME Typed, [Next]_vars, NEW c \in Clients,
           req[c].at # "answered", req'[c].at = "answered"
    PROVE  \/ Auth(c) \/ LoginCompare(c) \/ LoginInsert(c) \/ ListDevices(c) \/ FindDevice(c)
           \/ UseDevice(c) \/ ReloadRead(c) \/ ReloadStore(c)
  <1>1. ASSUME NEW d \in Clients,
               \/ Begin(d) \/ Auth(d) \/ LoginCompare(d) \/ LoginInsert(d) \/ ListDevices(d)
               \/ FindDevice(d) \/ UseDevice(d) \/ ReloadRead(d) \/ ReloadStore(d) \/ Hangup(d)
        PROVE  d = c
    <2>1. \E r : req' = [req EXCEPT ![d] = r]
      BY <1>1 DEF Begin, Auth, LoginCompare, LoginInsert, ListDevices, FindDevice, UseDevice,
         ReloadRead, ReloadStore, Hangup, Reply, Goto
    <2> QED BY <2>1 DEF Typed
  <1>2. ~Begin(c) /\ ~Hangup(c)
    <2>1. \A r \in Requests : r.at # "answered"
      BY DEF Requests, Login, Act, Refresh, Plain
    <2> QED BY <2>1 DEF Begin, Hangup, Typed
  <1>3. ~EditFile /\ ~UNCHANGED vars
    BY DEF EditFile, vars
  <1> QED BY <1>1, <1>2, <1>3 DEF Next

-----------------------------------------------------------------------------
(* Theorems.                                                               *)

\* The inductive invariant.
THEOREM HandlersInvariance == Spec => []HInv
  <1>1. Init => HInv
    <2> SUFFICES ASSUME Init PROVE HInv
      OBVIOUS
    <2>1. 1 \in Versions /\ Configs[1] # Malformed
      BY HandlersAssumption
    <2>2. loaded.version = 1
      BY <2>1, LoadingFacts DEF Init
    <2>3. Typed
      BY <2>1, PlainShapes DEF Init, Typed
    <2> QED BY <2>1, <2>2, <2>3
           DEF Init, HInv, LoadedFromFile, DeviceOfConfig, PasswordsInForce
  <1> QED BY <1>1, HNextInv, PTL DEF Spec

\* The types of the state, and the status codes the handlers answer with.
THEOREM HandlersTypes == Spec => []HTypeOK
  <1>1. HInv => HTypeOK
    <2> SUFFICES ASSUME HInv PROVE HTypeOK
      OBVIOUS
    <2>1. /\ loaded.version \in Versions /\ loaded.password \in Passwords
          /\ \A n \in DOMAIN loaded.devices : n \in Names /\ loaded.devices[n] \in Types
      BY LoadingFacts DEF HInv, LoadedFromFile
    <2>2. Typed
      BY DEF HInv
    <2>3. \A c \in Clients :
            /\ req[c].at \in {"idle", "auth", "handler", "compare", "insert", "device",
                             "joining", "answered"}
            /\ req[c].at = "answered" => req[c].status \in {200, 400, 403, 404, 500}
      BY <2>2, ShapeFacts
    <2> QED BY <2>1, <2>2, <2>3 DEF HTypeOK, Typed
  <1> QED BY <1>1, HandlersInvariance, PTL

\* Status codes of action routes are true of the configuration in force.
THEOREM AnswersAreTrue == Spec => AnswersTrue
  <1> DEFINE True(c) ==
         LET name    == req[c].name
             entries == Entries(loaded.version, name)
             handler == HandlerOf(req[c].route)
             Serves(e) == name \in DOMAIN loaded.devices /\ loaded.devices[name] = e.type
         IN  /\ Answers(c, "action", 404) =>
                  name \notin DOMAIN loaded.devices /\ \A e \in entries : ~e.addressed
             /\ Answers(c, "action", 400) =>
                  \E e \in entries : Serves(e) /\ HandlerOf(e.type) # handler
             /\ Answers(c, "action", 200) =>
                  \E e \in entries : Serves(e) /\ HandlerOf(e.type) = handler
  <1>1. ASSUME HInv, [Next]_vars PROVE \A c \in Clients : True(c)
    <2> SUFFICES ASSUME NEW c \in Clients, req[c].kind = "action",
                        req[c].at # "answered", req'[c].at = "answered"
                 PROVE  True(c)
      BY DEF Answers
    <2> USE <1>1
    <2> DEFINE entries == Entries(loaded.version, req[c].name)
    <2>1. \/ Auth(c) /\ req'[c].status = 403
          \/ FindDevice(c) \/ UseDevice(c)
      <3>1. Typed
        BY DEF HInv
      <3>2. req[c].at = "compare" \/ req[c].at = "insert" => req[c].kind = "login"
        BY <3>1, ShapeFacts
      <3>3. req[c].at = "joining" => req[c].kind = "reload"
        BY <3>1, ShapeFacts
      <3>4. Auth(c) => req'[c].status = 403
        <4>1. Auth(c) /\ Goto(c, "handler") => req'[c].at = "handler"
          BY <3>1, PastAuth DEF Auth, Typed
        <4> QED BY <3>1, <4>1 DEF Typed, Auth, Reply
      <3> QED BY <3>1, <3>2, <3>3, <3>4, WhoAnswers
           DEF LoginCompare, LoginInsert, ListDevices, ReloadRead, ReloadStore
    <2>2. CASE FindDevice(c)
      <3>1. req[c].name \in Names
        BY <2>2, ShapeFacts DEF FindDevice, HInv
      <3>2. req[c].name \notin DOMAIN loaded.devices /\ req'[c].status = 404
        BY <2>2 DEF FindDevice, Using, Reply, HInv, Typed
      <3>3. \A e \in entries : ~e.addressed
        BY <3>1, <3>2, LoadingFacts, EntriesAreEntries DEF HInv, LoadedFromFile, Entry
      <3> QED BY <3>2, <3>3 DEF Answers
    <2>3. CASE UseDevice(c)
      <3>1. /\ req[c].route \in TapoDeviceType /\ req[c].type \in TapoDeviceType
            /\ req[c].name \in DOMAIN loaded.devices
            /\ req[c].type = loaded.devices[req[c].name]
        <4>1. Typed /\ req[c].at = "device"
          BY <2>3 DEF HInv, UseDevice
        <4>2. req[c].route \in Types /\ req[c].type \in Types
          BY <4>1, ShapeFacts
        <4> QED BY <4>1, <4>2, HandlersAssumption DEF HInv, DeviceOfConfig
      <3>2. PICK e \in entries : e.type = req[c].type
        BY <3>1, LoadingFacts DEF HInv, LoadedFromFile
      <3>3. \/ req'[c].status = 500
            \/ req'[c].status = 400 /\ ~Accepts(req[c].route, req[c].type)
            \/ req'[c].status = 200 /\ Accepts(req[c].route, req[c].type)
        BY <2>3 DEF UseDevice, Reply, HInv, Typed
      <3> QED BY <3>1, <3>2, <3>3, RoutesMatchHandlers DEF Answers
    <2> QED BY <2>1, <2>2, <2>3 DEF Answers
  <1> QED BY <1>1, HandlersInvariance, PTL DEF Spec, AnswersTrue

\* No session without a password that was in force while the login ran.
THEOREM SessionsNeedPasswords == Spec => SessionNeedsPassword
  <1>1. ASSUME HInv, [Next]_vars
        PROVE  \A c \in Clients : Answers(c, "login", 200) => req[c].password \in inForce[c]
    <2> SUFFICES ASSUME NEW c \in Clients, Answers(c, "login", 200)
                 PROVE  req[c].at = "insert"
      BY <1>1 DEF HInv, PasswordsInForce
    <2>1. Typed /\ req[c].kind = "login" /\ req'[c].status = 200
      BY <1>1 DEF HInv, Answers
    <2>2. req[c].at = "handler" => req[c].kind \notin {"login"}
      BY <2>1 DEF Typed, Shapes
    <2>3. req[c].at \in {"auth", "device", "joining"} => req[c].kind # "login"
      BY <2>1 DEF Typed, Shapes
    <2>4. LoginCompare(c) => req'[c].status = 403 \/ req'[c].at = "insert"
      BY <2>1 DEF LoginCompare, Reply, Goto, Typed, Shapes
    <2> QED BY <1>1, <2>1, <2>2, <2>3, <2>4, WhoAnswers
         DEF Answers, Auth, LoginCompare, LoginInsert, ListDevices, FindDevice, UseDevice,
             ReloadRead, ReloadStore
  <1> QED BY <1>1, HandlersInvariance, PTL DEF Spec, SessionNeedsPassword
=============================================================================
