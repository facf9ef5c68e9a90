------------------------------ MODULE Desktop_proofs ------------------------------
(***************************************************************************)
(* Proofs about Desktop, and with it about GuiBackend, Profiles and        *)
(* ProcessRouter, for any numbers of requests, profiles, launches, faults. *)
(***************************************************************************)
EXTENDS Desktop, FiniteSetTheorems, TLAPS

USE DesktopAssumption, GuiBackendAssumption

------------------------------------------------------------------------------------
(* The types *)

Client == [state : {"DISCONNECTED", "CONNECTING", "CONNECTED", "RECONNECTING", "ERROR"},
           running : BOOLEAN,
           task : {"none", "created", "waiting", "starting", "stopping", "sleeping", "done"},
           peer : Addrs \cup {Nowhere},
           gateway : {"none", "starting", "open", "closed", "leaked"}, shield : BOOLEAN]

GuiTypes ==
    /\ requests \in 0..MaxRequests
    /\ at \in [Requests -> {"unused", "loaded", "starting", "replacing", "stopping", "creating",
                            "done"}]
    /\ asks \in [Requests -> Addrs \cup {Nowhere}]
    /\ loaded \in [Requests -> SUBSET Nat]
    /\ victim \in [Requests -> {Nobody} \cup Requests]
    /\ config \in [addr : Addrs \cup {Nowhere}, proxy : BOOLEAN]
    /\ active \in {Nobody} \cup Requests
    /\ clients \in [Requests -> Client]
    /\ blocked \in BOOLEAN /\ systemProxy \in BOOLEAN
    /\ embedded \in [running : BOOLEAN, starts : Nat, addr : LocalAddrs \cup {Nowhere}]
    /\ daemon \in LocalAddrs \cup {Nowhere}
    /\ losses \in 0..MaxLosses
    /\ overlapped \in BOOLEAN /\ stranded \in BOOLEAN

Procs == {Gui, Cli}
Jobs == [stage : Devices!Stages, profile : Devices!Profile \cup {Devices!NoProfile},
         peers : SUBSET Nat]

DeviceTypes ==
    /\ up \subseteq Procs
    /\ memory \in [Procs -> SUBSET Devices!Profile] /\ \A p \in Procs : IsFiniteSet(memory[p])
    /\ profilesFile \in [is : {"json", "absent", "torn"}, has : SUBSET Devices!Profile]
    /\ IsFiniteSet(profilesFile.has)
    /\ serverFile \in [is : {"json", "absent", "torn"}, has : SUBSET Nat] /\ enrolled \subseteq Nat
    /\ job \in [Procs -> Jobs]
    /\ \A p \in Procs : job[p].stage \in {"read", "save"} => job[p].profile \in Devices!Profile
    /\ made \in 0..MaxProfiles /\ second \in Nat
    /\ launches \in 0..MaxLaunches /\ faults \in 0..MaxFaults
    /\ promised \subseteq Devices!Profile
    /\ sound \in BOOLEAN /\ deleted \in BOOLEAN
    /\ \A p \in Procs : p \notin up => memory[p] = {} /\ job[p] = Devices!Idle
    /\ served \in 0..MaxServed

\* The rules that were saved can be loaded.  What is listed is what the rules say if it was
\* listed after the rules changed.
RouterInv ==
    /\ Router!TypeOK
    /\ rulesFile.is = "json" => rulesFile.has \in Router!Rules
    /\ cacheAge < rulesAge /\ cache # {} => cache = Router!Scanned

------------------------------------------------------------------------------------
(* The handlers and the processes *)

\* One handler runs between two awaits; one that starts the server has set is_running.
Handlers ==
    /\ \A r \in Requests : r > requests => at[r] = "unused"
    /\ \A r \in Requests : at[r] = "stopping" => victim[r] # Nobody
    /\ \A r \in Requests : at[r] = "starting" => embedded.running /\ asks[r] \in LocalAddrs
    /\ \A r, s \in Requests : at[r] \in Running /\ at[s] \in Running => r = s
    /\ embedded.starts = IF embedded.running THEN 1 ELSE 0
    /\ embedded.addr # Nowhere => embedded.running

\* Nothing of the GUI is left when it ended; files were sound as long as one process ran at
\* a time; a handler of the tunnel and one of the profiles do not run together.
Presence ==
    /\ Gui \notin up => active = Nobody /\ embedded = NoServer /\ Quiet
    /\ sound => \A p, q \in up : p = q
    /\ ~LoopFree => job[Gui] = Devices!Idle

------------------------------------------------------------------------------------
(* What is lost, and what is not *)

\* Everything that may bring a client up, or that it changed on the machine.
Starting(k) == k.running \/ k.task \in {"created", "starting"} \/ k.gateway \in {"starting", "open"}

\* As long as the handlers do not lose track: only the active client does anything, not
\* while a handler disconnects it, and nothing is left when another is made.
Tracked ==
    /\ \A r, s \in Requests : at[r] = "stopping" /\ at[s] = "stopping" => r = s
    /\ \A r \in Requests : at[r] = "stopping" => victim[r] = active /\ active # Nobody
    /\ \A c \in Requests : Starting(clients[c]) \/ clients[c].shield => c = active
    /\ \A c \in Requests : Starting(clients[c]) => \A r \in Requests : at[r] # "stopping"
    /\ \A r \in Requests : at[r] = "creating" =>
        /\ \A s \in Requests : at[s] # "stopping"
        /\ \A c \in Requests : ~Starting(clients[c]) /\ ~clients[c].shield

\* A gateway is open while the client is connected, or connects again; its rules are in
\* the firewall until it is disconnected.
ClientShape(k) ==
    /\ k.task = "starting" \/ k.gateway = "open" => k.running
    /\ k.gateway = "starting" => k.task = "starting"
    /\ k.gateway = "open" =>
        \/ k.state = "CONNECTED" /\ k.task = "done"
        \/ k.task \in {"sleeping", "waiting"}

OnMachine ==
    /\ \A c \in Requests : ClientShape(clients[c])
    /\ \A c \in Requests : clients[c].shield =>
        \/ clients[c].gateway = "open" \/ clients[c].task = "stopping"
        \/ \E r \in Requests : at[r] = "stopping"
    /\ blocked => active # Nobody /\ clients[active].shield
    /\ systemProxy => active # Nobody /\ clients[active].gateway = "open"

OnTrack == ~overlapped /\ ~stranded => Tracked /\ OnMachine

\* A file that cannot be read holds nothing.  Whoever is about to write server.json knows
\* every key that was saved in it.
Peers ==
    /\ serverFile.is # "json" => serverFile.has = {}
    /\ sound =>
        /\ enrolled \subseteq serverFile.has
        /\ \A r \in Requests : at[r] = "loaded" => enrolled \subseteq loaded[r]
        /\ \A p \in Procs : job[p].stage = "save" => enrolled \subseteq job[p].peers

\* The profiles are numbered from 1, in their id and in their address.
Numbered(S) ==
    /\ \A q \in S : q.id[2] \in 1..Cardinality(S) /\ q.vip = q.id[2] + 1
    /\ \A q, r \in S : q.id[2] = r.id[2] => q = r

\* A process knows every profile of the file, and the one it makes is in its copy before it
\* is in the file, and in the file before it is promised.
Promises ==
    sound /\ ~deleted =>
        /\ Numbered(profilesFile.has)
        /\ promised \subseteq profilesFile.has
        /\ \A p \in up : /\ Numbered(memory[p]) /\ profilesFile.has \subseteq memory[p]
                         /\ job[p].stage = "write" /\ job[p].profile # Devices!NoProfile =>
                                job[p].profile \in memory[p]
                         /\ job[p].stage \in {"read", "save"} => job[p].profile \in profilesFile.has

Inv == GuiTypes /\ DeviceTypes /\ RouterInv /\ Handlers /\ Presence /\ OnTrack /\ Peers /\ Promises

------------------------------------------------------------------------------------
(* What a step may change *)

\* A step of the program leaves the tunnel alone, ends the process, or is one of a handler
\* or of the task of a client, which leaves the profiles and the rules alone.
LEMMA Parts ==
  ASSUME Next
  PROVE  \/ UNCHANGED guiOnly
         \/ QuitGui
         \/ \E r \in Requests : Tunnel(r) \/ TunnelStep(r)
BY DEF Next, LaunchGui, LaunchCli, QuitCli, AskForProfile, SaveProfile, Split, Tick, guiOnly,
       guiVars, handlers, machine, history

------------------------------------------------------------------------------------
(* The split tunnel *)

\* The rules of the split tunnel and the list of applications.
LEMMA RouterStep ==
  ASSUME RouterInv, Next
  PROVE  RouterInv'
<1> USE DEF RouterInv, Router!TypeOK
<1>1. CASE UNCHANGED routerVars
  BY <1>1 DEF routerVars, Router!Scanned, Router!ShouldRoute
<1>2. CASE Router!Load
  BY <1>2 DEF Router!Load, Router!Rules, Router!Defaults
<1>3. ASSUME NEW r \in Asked, NEW saved \in BOOLEAN, Router!SetRules(r, saved)
      PROVE  RouterInv'
  <2>1. rules' \in Router!Rules
    BY <1>3 DEF Router!SetRules, Router!Rules, Router!Upper
  <2>2. rulesFile' = Router!Json(rules') \/ rulesFile' = Router!Torn
    BY <1>3 DEF Router!SetRules
  <2> QED
    BY <1>3, <2>1, <2>2 DEF Router!SetRules, Router!Json, Router!Torn
<1>4. CASE Router!Scan
  BY <1>4 DEF Router!Scan, Router!Scanned, Router!ShouldRoute
<1>5. CASE Router!Tick
  BY <1>5 DEF Router!Tick, Router!Scanned, Router!ShouldRoute
<1> QED
  BY <1>1, <1>2, <1>3, <1>4, <1>5
     DEF Next, LaunchGui, LaunchCli, QuitGui, QuitCli, AskForProfile, SaveProfile, Tunnel,
         TunnelStep, Split, Tick

------------------------------------------------------------------------------------
(* A client that is disconnected *)

\* What closing leaves of a client, before and after the wait for its gateway.
LEMMA Closing ==
  ASSUME NEW k \in Client
  PROVE  /\ Shut(k) \in Client /\ ~Shut(k).running /\ Shut(k).gateway # "open"
         /\ Shut(k).gateway = "starting" <=> k.gateway = "starting"
         /\ Shut(k).task = k.task /\ Shut(k).shield = k.shield
         /\ Settled(k) \in Client /\ ~Settled(k).shield
         /\ Settled(k).gateway = k.gateway /\ Settled(k).task = k.task
         /\ Settled(k).running = k.running /\ Settled(k).state = "DISCONNECTED"
BY DEF Client, Shut, Settled

\* What Disconnect leaves of the machine: client c is shut, or settled too; the rules go
\* with the client that set them, and a system proxy that stays is noted.
LEMMA Disconnected ==
  ASSUME GuiTypes, NEW c \in Requests, NEW k \in Client, NEW waiting \in BOOLEAN,
         Disconnect(c, k, waiting)
  PROVE  /\ clients' \in [Requests -> Client]
         /\ \A d \in Requests \ {c} : clients'[d] = clients[d]
         /\ clients'[c] \in Client /\ ~clients'[c].running /\ clients'[c].gateway # "open"
         /\ clients'[c].gateway = "starting" <=> k.gateway = "starting"
         /\ clients'[c].task = k.task
         /\ waiting => clients'[c].shield = k.shield
         /\ ~waiting => ~clients'[c].shield
         /\ blocked' \in BOOLEAN /\ systemProxy' \in BOOLEAN /\ stranded' \in BOOLEAN
         /\ blocked' => blocked /\ (waiting \/ ~k.shield)
         /\ ~stranded' => ~stranded /\ ~systemProxy'
<1>1. Shut(k) \in Client
  BY Closing
<1>2. PICK j \in Client : j = Shut(k)
  BY <1>1
<1>3. PICK m \in Client : m = IF waiting THEN j ELSE Settled(j)
  BY <1>2, Closing
<1>4. clients' = [clients EXCEPT ![c] = m]
  BY <1>2, <1>3 DEF Disconnect
<1>5. /\ ~m.running /\ m.gateway # "open" /\ m.task = k.task
      /\ m.gateway = "starting" <=> k.gateway = "starting"
      /\ waiting => m.shield = k.shield
      /\ ~waiting => ~m.shield
  BY <1>2, <1>3, Closing
<1>6. blocked' \in BOOLEAN /\ (blocked' => blocked /\ (waiting \/ ~k.shield))
  BY DEF Disconnect
<1>7. systemProxy' \in BOOLEAN /\ stranded' \in BOOLEAN /\ (~stranded' => ~stranded /\ ~systemProxy')
  BY DEF Disconnect
<1> QED
  BY <1>4, <1>5, <1>6, <1>7 DEF GuiTypes

\* And what Settle does.
LEMMA NowSettled ==
  ASSUME GuiTypes, NEW c \in Requests, NEW k \in Client, Settle(c, k)
  PROVE  /\ clients' \in [Requests -> Client]
         /\ \A d \in Requests \ {c} : clients'[d] = clients[d]
         /\ clients'[c] \in Client /\ ~clients'[c].shield
         /\ clients'[c].running = k.running /\ clients'[c].gateway = k.gateway
         /\ clients'[c].task = k.task /\ clients'[c].state = "DISCONNECTED"
         /\ blocked' \in BOOLEAN /\ (blocked' => blocked /\ ~k.shield)
         /\ UNCHANGED <<systemProxy, stranded>>
<1>1. PICK m \in Client : m = Settled(k)
  BY Closing
<1>2. clients' = [clients EXCEPT ![c] = m]
  BY <1>1 DEF Settle
<1>3. /\ ~m.shield /\ m.gateway = k.gateway /\ m.task = k.task /\ m.running = k.running
      /\ m.state = "DISCONNECTED"
  BY <1>1, Closing
<1>4. blocked' \in BOOLEAN /\ (blocked' => blocked /\ ~k.shield) /\ UNCHANGED <<systemProxy, stranded>>
  BY DEF Settle
<1> QED
  BY <1>2, <1>3, <1>4 DEF GuiTypes

\* The active client is dropped by handler r, at once or after a wait.
LEMMA Dropped ==
  ASSUME GuiTypes, NEW r \in Requests, NEW next, Drop(r, next), active # Nobody
  PROVE  \E waiting \in BOOLEAN :
           /\ Disconnect(active, clients[active], waiting) /\ clients[active] \in Client
           /\ active \in Requests
           /\ at' = [at EXCEPT ![r] = IF waiting THEN "stopping" ELSE next]
           /\ victim' = [victim EXCEPT ![r] = IF waiting THEN active ELSE Nobody]
           /\ overlapped' \in BOOLEAN
           /\ ~overlapped' => /\ ~overlapped /\ \A s \in Requests : at[s] # "stopping"
                              /\ clients[active].task \notin {"created", "starting"}
<1>1. active \in Requests /\ clients[active] \in Client
  BY DEF GuiTypes
<1>2. PICK waiting \in BOOLEAN :
           /\ Disconnect(active, clients[active], waiting)
           /\ at' = [at EXCEPT ![r] = IF waiting THEN "stopping" ELSE next]
           /\ victim' = [victim EXCEPT ![r] = IF waiting THEN active ELSE Nobody]
  BY DEF Drop, Waits
<1>3. /\ overlapped' \in BOOLEAN
      /\ ~overlapped' => /\ ~overlapped /\ \A s \in Requests : at[s] # "stopping"
                         /\ clients[active].task \notin {"created", "starting"}
  BY DEF Drop, Overlap
<1> QED
  BY <1>1, <1>2, <1>3

------------------------------------------------------------------------------------
(* The types of the tunnel *)

\* A task that fails disconnects its client, and stops at once or after a wait.
LEMMA Failed ==
  ASSUME GuiTypes, NEW c \in Requests, NEW k \in Client, Fail(c, k)
  PROVE  \E j \in Client, waiting \in BOOLEAN :
           /\ Disconnect(c, j, waiting)
           /\ j = [k EXCEPT !.state = "ERROR", !.task = IF waiting THEN "stopping" ELSE "done"]
           /\ UNCHANGED <<losses, overlapped, requests, at, asks, loaded, victim, config, active,
                          embedded, daemon, serverFile, enrolled>>
<1>1. PICK waiting \in Waits(k) :
        Disconnect(c, [k EXCEPT !.state = "ERROR", !.task = IF waiting THEN "stopping" ELSE "done"],
                   waiting)
  BY DEF Fail
<1>2. waiting \in BOOLEAN
  BY DEF Waits
<1>3. [k EXCEPT !.state = "ERROR", !.task = IF waiting THEN "stopping" ELSE "done"] \in Client
  BY <1>2 DEF Client
<1>4. UNCHANGED <<losses, overlapped, requests, at, asks, loaded, victim, config, active,
                  embedded, daemon, serverFile, enrolled>>
  BY DEF Fail, Elsewhere, handlers, disk
<1> QED
  BY <1>1, <1>2, <1>3, <1>4

\* A client as it is after a step of its task that succeeds.
LEMMA Ongoing ==
  ASSUME GuiTypes, NEW c \in Requests
  PROVE  /\ clients[c] \in Client
         /\ Entered(clients[c]) \in Client
         /\ [clients[c] EXCEPT !.gateway = "starting", !.task = "starting", !.peer = Nowhere]
              \in Client
         /\ [clients[c] EXCEPT !.gateway = IF @ = "open" THEN "leaked" ELSE @] \in Client
         /\ [clients[c] EXCEPT !.gateway = "open", !.shield = TRUE, !.state = "CONNECTED",
                               !.task = "done"] \in Client
         /\ [clients[c] EXCEPT !.task = "done"] \in Client
         /\ [clients[c] EXCEPT !.task = "created"] \in Client
         /\ [clients[c] EXCEPT !.state = "RECONNECTING", !.task = "sleeping"] \in Client
<1>1. clients[c] \in Client /\ config.addr \in Addrs \cup {Nowhere}
  BY DEF GuiTypes
<1>2. PICK k \in Client : k = clients[c]
  BY <1>1
<1>3. /\ Entered(k) \in Client
      /\ [k EXCEPT !.gateway = "starting", !.task = "starting", !.peer = Nowhere] \in Client
      /\ [k EXCEPT !.gateway = IF @ = "open" THEN "leaked" ELSE @] \in Client
  BY <1>1 DEF Client, Entered
<1>4. /\ [k EXCEPT !.gateway = "open", !.shield = TRUE, !.state = "CONNECTED",
                               !.task = "done"] \in Client
      /\ [k EXCEPT !.task = "done"] \in Client
      /\ [k EXCEPT !.task = "created"] \in Client
      /\ [k EXCEPT !.state = "RECONNECTING", !.task = "sleeping"] \in Client
  BY DEF Client
<1> QED
  BY <1>1, <1>2, <1>3, <1>4

\* Every step keeps the types of the tunnel.
LEMMA GuiTypesStep ==
  ASSUME GuiTypes, DeviceTypes, Handlers, Next
  PROVE  GuiTypes'
<1> USE DEF handlers, machine, history, disk, GuiTypes, Nobody
<1>1. CASE UNCHANGED guiOnly
  BY <1>1 DEF guiOnly, Client
<1>2. CASE QuitGui
  <2>1. NoClient \in Client /\ NoServer \in [running : BOOLEAN, starts : Nat, addr : LocalAddrs \cup {Nowhere}]
    BY DEF NoClient, NoServer, Client
  <2>2. ProcessEnds
    BY <1>2 DEF QuitGui
  <2>3. stranded' \in BOOLEAN
    BY <2>2 DEF ProcessEnds
  <2> QED
    BY <2>1, <2>2, <2>3 DEF ProcessEnds
<1>3. ASSUME NEW r \in Requests, NEW a \in Addrs, NEW proxy \in BOOLEAN, PostConnect(r, a, proxy)
      PROVE  GuiTypes'
  <2>1. serverFile.has \subseteq Nat
    BY DEF DeviceTypes
  <2>2. requests' \in 0..MaxRequests
    BY <1>3 DEF PostConnect, Arrive, Requests
  <2>3. /\ at' \in [Requests -> {"unused", "loaded", "starting", "replacing", "stopping",
                                 "creating", "done"}]
        /\ asks' \in [Requests -> Addrs \cup {Nowhere}]
        /\ config' \in [addr : Addrs \cup {Nowhere}, proxy : BOOLEAN]
    BY <1>3 DEF PostConnect
  <2>4. loaded' \in [Requests -> SUBSET Nat]
    BY <1>3, <2>1 DEF PostConnect
  <2> QED
    BY <1>3, <2>2, <2>3, <2>4 DEF PostConnect, Client
<1>4. ASSUME NEW r \in Requests, Authorize(r)
      PROVE  GuiTypes'
  <2>1. embedded' \in [running : BOOLEAN, starts : Nat, addr : LocalAddrs \cup {Nowhere}]
    <3>1. embedded' = embedded \/ embedded' = [embedded EXCEPT !.running = TRUE, !.starts = @ + 1]
      BY <1>4 DEF Authorize
    <3>2. embedded \in [running : BOOLEAN, starts : Nat, addr : LocalAddrs \cup {Nowhere}]
      OBVIOUS
    <3> HIDE DEF GuiTypes
    <3>3. embedded.starts + 1 \in Nat /\ TRUE \in BOOLEAN
      BY <3>2
    <3>4. PICK n \in Nat : n = embedded.starts + 1
      BY <3>3
    <3>5. embedded' = embedded \/ embedded' = [embedded EXCEPT !.running = TRUE, !.starts = n]
      BY <3>1, <3>4
    <3> QED
      BY <3>2, <3>5
  <2> QED
    BY <1>4, <2>1 DEF Authorize, Client
<1>5. ASSUME NEW r \in Requests, ServerStarted(r)
      PROVE  GuiTypes'
  <2>1. embedded' \in [running : BOOLEAN, starts : Nat, addr : LocalAddrs \cup {Nowhere}]
    BY <1>5 DEF ServerStarted, Handlers
  <2> QED
    BY <1>5, <2>1 DEF ServerStarted, Client
<1>6. ASSUME NEW r \in Requests, NEW next \in {"creating", "done"}, Drop(r, next), active # Nobody
      PROVE  /\ clients' \in [Requests -> Client] /\ blocked' \in BOOLEAN
             /\ systemProxy' \in BOOLEAN /\ stranded' \in BOOLEAN /\ overlapped' \in BOOLEAN
             /\ at' \in [Requests -> {"unused", "loaded", "starting", "replacing", "stopping",
                                      "creating", "done"}]
             /\ victim' \in [Requests -> {Nobody} \cup Requests]
  <2>1. PICK waiting \in BOOLEAN :
           /\ Disconnect(active, clients[active], waiting) /\ clients[active] \in Client
           /\ active \in Requests
           /\ at' = [at EXCEPT ![r] = IF waiting THEN "stopping" ELSE next]
           /\ victim' = [victim EXCEPT ![r] = IF waiting THEN active ELSE Nobody]
           /\ overlapped' \in BOOLEAN
    BY <1>6, Dropped
  <2>2. /\ clients' \in [Requests -> Client] /\ blocked' \in BOOLEAN
        /\ systemProxy' \in BOOLEAN /\ stranded' \in BOOLEAN
    BY <2>1, Disconnected
  <2> QED
    BY <2>1, <2>2
<1>7. ASSUME NEW r \in Requests, Replace(r)
      PROVE  GuiTypes'
  <2>1. loaded' \in [Requests -> SUBSET Nat]
    BY <1>7 DEF Replace
  <2>2. UNCHANGED <<requests, asks, config, active, embedded, daemon, losses>>
    BY <1>7 DEF Replace
  <2>3. CASE active # Nobody
    <3>1. Drop(r, "creating")
      BY <1>7, <2>3 DEF Replace
    <3> QED
      BY <1>6, <2>1, <2>2, <2>3, <3>1
  <2>4. CASE active = Nobody
    BY <1>7, <2>1, <2>2, <2>4 DEF Replace
  <2> QED
    BY <2>3, <2>4
<1>8. ASSUME NEW r \in Requests, Create(r)
      PROVE  GuiTypes'
  <2>1. clients' \in [Requests -> Client]
    BY <1>8, Ongoing DEF Create
  <2> QED
    BY <1>8, <2>1 DEF Create
<1>9. ASSUME NEW r \in Requests, PostDisconnect(r)
      PROVE  GuiTypes'
  <2>1. requests' \in 0..MaxRequests
    BY <1>9 DEF PostDisconnect, Arrive, Requests
  <2>2. UNCHANGED <<asks, loaded, config, embedded, daemon, losses>>
    BY <1>9 DEF PostDisconnect
  <2>3. CASE active # Nobody
    <3>1. Drop(r, "done") /\ active' \in {active, Nobody}
      BY <1>9, <2>3 DEF PostDisconnect
    <3> QED
      BY <1>6, <2>1, <2>2, <2>3, <3>1
  <2>4. CASE active = Nobody
    BY <1>9, <2>1, <2>2, <2>4 DEF PostDisconnect
  <2> QED
    BY <2>3, <2>4
<1>10. ASSUME NEW r \in Requests, Stopped(r)
       PROVE  GuiTypes'
  <2>1. victim[r] \in Requests
    BY <1>10 DEF Stopped, Handlers
  <2>2. clients' \in [Requests -> Client] /\ blocked' \in BOOLEAN /\ UNCHANGED <<systemProxy, stranded>>
    BY <1>10, <2>1, NowSettled DEF Stopped
  <2> QED
    BY <1>10, <2>2 DEF Stopped
<1>11. ASSUME NEW c \in Requests, NEW k \in Client, Fail(c, k)
       PROVE  GuiTypes'
  <2> HIDE DEF GuiTypes
  <2>1. PICK j \in Client, waiting \in BOOLEAN :
           /\ Disconnect(c, j, waiting)
           /\ j = [k EXCEPT !.state = "ERROR", !.task = IF waiting THEN "stopping" ELSE "done"]
           /\ UNCHANGED <<losses, overlapped, requests, at, asks, loaded, victim, config, active,
                          embedded, daemon, serverFile, enrolled>>
    BY <1>11, Failed
  <2>2. /\ clients' \in [Requests -> Client] /\ blocked' \in BOOLEAN
        /\ systemProxy' \in BOOLEAN /\ stranded' \in BOOLEAN
    BY <2>1, Disconnected
  <2> QED
    BY <2>1, <2>2 DEF GuiTypes
<1>12. ASSUME NEW c \in Requests, NEW k \in Client, Becomes(c, k),
              blocked' \in BOOLEAN, systemProxy' \in BOOLEAN, losses' \in 0..MaxLosses,
              UNCHANGED history, Elsewhere
       PROVE  GuiTypes'
  <2>1. clients' \in [Requests -> Client]
    BY <1>12 DEF Becomes
  <2> QED
    BY <1>12, <2>1 DEF Elsewhere
<1>13. ASSUME NEW c \in Requests, ClientStep(c)
       PROVE  GuiTypes'
  <2>1. CASE Enter(c)
    BY <1>12, <2>1, Ongoing DEF Enter
  <2>2. CASE Authenticated(c)
    <3>1. CASE PortBusy
      BY <1>11, <2>2, <3>1, Ongoing DEF Authenticated
    <3>2. CASE ~PortBusy
      BY <1>12, <2>2, <3>2, Ongoing DEF Authenticated
    <3> QED
      BY <3>1, <3>2
  <2>3. CASE TimedOut(c)
    BY <1>11, <2>3, Ongoing DEF TimedOut
  <2>4. CASE Started(c)
    <3>1. blocked' \in BOOLEAN /\ systemProxy' \in BOOLEAN
      BY <2>4 DEF Started
    <3> QED
      BY <1>12, <2>4, <3>1, Ongoing DEF Started
  <2>5. CASE TaskStopped(c)
    <3>1. PICK k \in Client : k = [clients[c] EXCEPT !.task = "done"]
      BY Ongoing
    <3>2. /\ clients' \in [Requests -> Client] /\ blocked' \in BOOLEAN
          /\ UNCHANGED <<systemProxy, stranded>>
      BY <2>5, <3>1, NowSettled DEF TaskStopped
    <3> QED
      BY <2>5, <3>2 DEF TaskStopped, Elsewhere
  <2>6. CASE Lose(c)
    <3>1. losses' \in 0..MaxLosses
      BY <2>6 DEF Lose
    <3> QED
      BY <1>12, <2>6, <3>1, Ongoing DEF Lose
  <2>7. CASE Wake(c)
    BY <1>12, <2>7, Ongoing DEF Wake
  <2> QED
    BY <1>13, <2>1, <2>2, <2>3, <2>4, <2>5, <2>6, <2>7 DEF ClientStep
<1> QED
  BY <1>1, <1>2, <1>3, <1>4, <1>5, <1>7, <1>8, <1>9, <1>10, <1>13, Parts DEF Tunnel, TunnelStep

------------------------------------------------------------------------------------
(* The types of the profiles *)

\* A profile that is put into finitely many.
LEMMA PutIn ==
  ASSUME NEW S \in SUBSET Devices!Profile, IsFiniteSet(S), NEW q \in Devices!Profile
  PROVE  Devices!Put(S, q) \in SUBSET Devices!Profile /\ IsFiniteSet(Devices!Put(S, q))
<1>1. IsFiniteSet({r \in S : r.id # q.id})
  BY FS_Subset
<1>2. IsFiniteSet({r \in S : r.id # q.id} \cup {q})
  BY <1>1, FS_AddElement
<1> QED
  BY <1>2 DEF Devices!Put

\* The instance counts as this module does.
LEMMA SameCount == ASSUME NEW S PROVE Devices!Cardinality(S) = Cardinality(S)
BY DEF Devices!Cardinality, Cardinality

\* The profile that is made next.
LEMMA NewOne ==
  ASSUME DeviceTypes, NEW p \in Procs, NEW s \in Nat, made < MaxProfiles
  PROVE  Devices!NewProfile(p, s) \in Devices!Profile
<1>1. Cardinality(memory[p]) \in Nat
  BY FS_CardinalityType DEF DeviceTypes
<1>2. made + 1 \in Devices!Keys
  BY DEF DeviceTypes, Devices!Keys
<1>3. <<s, Cardinality(memory[p]) + 1>> \in Nat \X Nat /\ Cardinality(memory[p]) + 2 \in Nat
  BY <1>1
<1>4. \A i \in Nat \X Nat, v \in Nat, k \in Devices!Keys :
        [id |-> i, vip |-> v, key |-> k] \in Devices!Profile
  BY DEF Devices!Profile
<1> QED
  BY <1>2, <1>3, <1>4, SameCount DEF Devices!NewProfile

\* Every step keeps the types of the profiles.
LEMMA DeviceTypesStep ==
  ASSUME GuiTypes, DeviceTypes, Next
  PROVE  DeviceTypes'
<1> USE DEF Devices!files, Devices!history
<1> DEFINE File(S) == [is : {"json", "absent", "torn"}, has : SUBSET S]
<1>0. Devices!Idle \in Jobs /\ Gui \in Procs /\ Cli \in Procs
  BY DEF Devices!Idle, Jobs, Devices!Stages, Procs
<1>1. ASSUME UNCHANGED deviceVars, served' \in 0..MaxServed,
             serverFile' \in File(Nat), enrolled' \subseteq Nat
      PROVE  DeviceTypes'
  BY <1>1 DEF deviceVars, DeviceTypes
<1>2. served' \in 0..MaxServed
  <2>1. served' = served \/ Request
    <3>1. ASSUME NEW r, Tunnel(r) \/ TunnelStep(r) \/ AskForProfile(r) \/ SaveProfile(r)
          PROVE  served' = served \/ Request
      BY <3>1 DEF Tunnel, TunnelStep, AskForProfile, SaveProfile
    <3> QED
      BY <3>1 DEF Next, LaunchGui, LaunchCli, QuitGui, QuitCli, Split, Tick
  <2> QED
    BY <2>1 DEF Request, DeviceTypes
<1>3. ASSUME NEW p \in Procs, Devices!Launch(p)
      PROVE  DeviceTypes'
  <2>1. IsFiniteSet(memory'[p]) /\ \A q \in Procs : q # p => memory'[q] = memory[q]
    BY <1>3 DEF Devices!Launch, DeviceTypes
  <2>2. memory' \in [Procs -> SUBSET Devices!Profile]
    BY <1>3 DEF Devices!Launch, DeviceTypes
  <2> QED
    BY <1>2, <1>3, <2>1, <2>2 DEF Devices!Launch, DeviceTypes
<1>4. ASSUME NEW p \in Procs, NEW saving \in BOOLEAN, Devices!Quit(p, saving)
      PROVE  DeviceTypes'
  <2>1. /\ Devices!Torn \in File(Nat) /\ Devices!Torn \in File(Devices!Profile)
        /\ IsFiniteSet(Devices!Torn.has) /\ IsFiniteSet({})
    BY FS_EmptySet DEF Devices!Torn
  <2>2. profilesFile' \in {profilesFile, Devices!Torn} /\ serverFile' \in {serverFile, Devices!Torn}
    BY <1>4 DEF Devices!Quit, Devices!Tear
  <2>3. /\ profilesFile' \in File(Devices!Profile) /\ serverFile' \in File(Nat)
        /\ IsFiniteSet(profilesFile'.has)
    <3>1. CASE profilesFile' = profilesFile
      BY <2>1, <2>2, <3>1 DEF DeviceTypes
    <3>2. CASE profilesFile' = Devices!Torn
      BY <2>1, <2>2, <3>2 DEF DeviceTypes
    <3> QED
      BY <2>2, <3>1, <3>2
  <2>4. sound' \in BOOLEAN /\ faults' \in 0..MaxFaults
    <3>1. \/ sound' = sound /\ faults' = faults
          \/ sound' = FALSE /\ faults < MaxFaults /\ faults' = faults + 1
      BY <1>4 DEF Devices!Quit, Devices!Tear
    <3>2. sound' \in BOOLEAN
      BY <3>1 DEF DeviceTypes
    <3>3. faults' \in 0..MaxFaults
      BY <3>1 DEF DeviceTypes
    <3> QED
      BY <3>2, <3>3
  <2>5. /\ up' = up \ {p} /\ memory' = [memory EXCEPT ![p] = {}]
        /\ job' = [job EXCEPT ![p] = Devices!Idle]
        /\ UNCHANGED <<made, second, launches, promised, enrolled, deleted>>
    BY <1>4 DEF Devices!Quit
  <2>6. /\ job' \in [Procs -> Jobs] /\ job'[p] = Devices!Idle /\ memory'[p] = {}
        /\ \A q \in Procs : q # p => job'[q] = job[q] /\ memory'[q] = memory[q]
        /\ Devices!Idle.stage = "idle"
    BY <1>0, <2>5 DEF DeviceTypes, Devices!Idle
  <2>7. \A q \in Procs : IsFiniteSet(memory'[q])
    BY <2>1, <2>5 DEF DeviceTypes
  <2>8. memory' \in [Procs -> SUBSET Devices!Profile]
    BY <2>5 DEF DeviceTypes
  <2> QED
    BY <1>2, <2>3, <2>4, <2>5, <2>6, <2>7, <2>8 DEF DeviceTypes
<1>5. ASSUME NEW p \in Procs, Devices!CreateProfile(p)
      PROVE  DeviceTypes'
  <2>1. second' \in Nat /\ made < MaxProfiles
    BY <1>5 DEF Devices!CreateProfile, DeviceTypes
  <2>2. PICK q \in Devices!Profile : q = Devices!NewProfile(p, second')
    BY <2>1, NewOne
  <2>3. /\ memory' = [memory EXCEPT ![p] = Devices!Put(memory[p], q)]
        /\ job' = [job EXCEPT ![p] = [stage |-> "write", profile |-> q, peers |-> {}]]
        /\ UNCHANGED <<up, profilesFile, serverFile, launches, faults, promised, enrolled, sound,
                       deleted>>
        /\ made' = made + 1 /\ p \in up
    BY <1>5, <2>2 DEF Devices!CreateProfile
  <2>4. memory[p] \in SUBSET Devices!Profile /\ IsFiniteSet(memory[p])
    BY DEF DeviceTypes
  <2>5. Devices!Put(memory[p], q) \in SUBSET Devices!Profile /\ IsFiniteSet(Devices!Put(memory[p], q))
    BY <2>4, PutIn
  <2>6. /\ memory' \in [Procs -> SUBSET Devices!Profile]
        /\ \A r \in Procs : IsFiniteSet(memory'[r])
        /\ \A r \in Procs : r # p => memory'[r] = memory[r]
    BY <2>3, <2>5 DEF DeviceTypes
  <2>7. [stage |-> "write", profile |-> q, peers |-> {}] \in Jobs
    BY DEF Jobs, Devices!Stages
  <2>8. job' \in [Procs -> Jobs] /\ \A r \in Procs : r # p => job'[r] = job[r]
    BY <2>3, <2>7 DEF DeviceTypes
  <2>9. job'[p].stage = "write" /\ made' \in 0..MaxProfiles
    BY <2>1, <2>3 DEF DeviceTypes
  <2> QED
    BY <1>2, <2>1, <2>3, <2>6, <2>8, <2>9 DEF DeviceTypes
<1>6. ASSUME NEW p \in Procs, NEW q \in memory[p], Devices!DeleteProfile(p, q)
      PROVE  DeviceTypes'
  <2>1. IsFiniteSet(memory[p] \ {q})
    BY FS_Subset DEF DeviceTypes
  <2>2. [job[p] EXCEPT !.stage = "write"] \in Jobs
    BY DEF DeviceTypes, Jobs, Devices!Stages
  <2>3. /\ memory' = [memory EXCEPT ![p] = @ \ {q}] /\ p \in up
        /\ job' = [job EXCEPT ![p] = [job[p] EXCEPT !.stage = "write"]]
    BY <1>6 DEF Devices!DeleteProfile
  <2>4. /\ memory' \in [Procs -> SUBSET Devices!Profile]
        /\ \A r \in Procs : IsFiniteSet(memory'[r])
        /\ \A r \in Procs : r # p => memory'[r] = memory[r]
    BY <2>1, <2>3 DEF DeviceTypes
  <2>5. /\ job' \in [Procs -> Jobs] /\ \A r \in Procs : r # p => job'[r] = job[r]
        /\ job'[p].stage = "write"
    BY <2>2, <2>3 DEF DeviceTypes, Jobs
  <2>6. /\ UNCHANGED <<up, profilesFile, serverFile, made, second, launches, faults, enrolled, sound>>
        /\ promised' \subseteq promised /\ deleted' = TRUE
    BY <1>6 DEF Devices!DeleteProfile
  <2> QED
    BY <1>2, <2>3, <2>4, <2>5, <2>6 DEF DeviceTypes
<1>7. ASSUME NEW p \in Procs, NEW j \in Jobs, p \in up, job' = [job EXCEPT ![p] = j],
             j.stage \in {"read", "save"} => j.profile \in Devices!Profile,
             UNCHANGED <<up, memory, made, second, launches, deleted>>,
             profilesFile' \in {profilesFile, Devices!Torn, Devices!Json(memory[p])},
             serverFile' \in File(Nat), enrolled' \subseteq Nat,
             promised' \subseteq Devices!Profile, faults' \in 0..MaxFaults, sound' \in BOOLEAN
      PROVE  DeviceTypes'
  <2>1. profilesFile' \in File(Devices!Profile) /\ IsFiniteSet(profilesFile'.has)
    <3>1. /\ Devices!Torn \in File(Devices!Profile) /\ Devices!Torn.has = {}
          /\ Devices!Json(memory[p]) \in File(Devices!Profile)
          /\ Devices!Json(memory[p]).has = memory[p]
      BY DEF Devices!Torn, Devices!Json, DeviceTypes
    <3>2. profilesFile \in File(Devices!Profile) /\ IsFiniteSet(profilesFile.has)
      BY DEF DeviceTypes
    <3>3. IsFiniteSet(Devices!Torn.has) /\ IsFiniteSet(Devices!Json(memory[p]).has)
      BY <3>1, FS_EmptySet DEF DeviceTypes
    <3> HIDE DEF File
    <3> QED
      BY <1>7, <3>1, <3>2, <3>3
  <2>2. /\ job' \in [Procs -> Jobs] /\ job'[p] = j
        /\ \A r \in Procs : r # p => job'[r] = job[r]
    BY <1>7 DEF DeviceTypes
  <2> QED
    BY <1>2, <1>7, <2>1, <2>2 DEF DeviceTypes
<1>8. ASSUME NEW p \in Procs, p \in up, Devices!UpdateUsage(p)
      PROVE  DeviceTypes'
  <2>1. [job[p] EXCEPT !.stage = "write"] \in Jobs
    BY DEF DeviceTypes, Jobs, Devices!Stages
  <2>2. [job[p] EXCEPT !.stage = "write"].stage = "write"
    BY DEF DeviceTypes, Jobs
  <2>3. /\ UNCHANGED <<up, memory, profilesFile, serverFile, made, second, launches, faults>>
        /\ UNCHANGED <<promised, enrolled, sound, deleted>>
        /\ job' = [job EXCEPT ![p] = [job[p] EXCEPT !.stage = "write"]]
    BY <1>8 DEF Devices!UpdateUsage
  <2>4. /\ profilesFile' \in {profilesFile, Devices!Torn, Devices!Json(memory[p])}
        /\ serverFile' \in File(Nat) /\ enrolled' \subseteq Nat /\ promised' \subseteq Devices!Profile
        /\ faults' \in 0..MaxFaults
    BY <2>3 DEF DeviceTypes
  <2>5. sound' \in BOOLEAN
    BY <2>3 DEF DeviceTypes
  <2> QED
    BY <1>7, <1>8, <2>1, <2>2, <2>3, <2>4, <2>5
<1>9. ASSUME NEW p \in Procs, Devices!Work(p)
      PROVE  DeviceTypes'
  <2>1. p \in up
    BY <1>9 DEF DeviceTypes, Devices!Work, Devices!SaveProfiles, Devices!SaveFails,
                Devices!ReadPeers, Devices!SavePeers, Devices!Idle
  <2>2. PICK j \in Jobs : j = job[p]
    BY DEF DeviceTypes
  <2>3. PICK peers \in SUBSET Nat : peers = serverFile.has
    BY DEF DeviceTypes
  <2>4. /\ [j EXCEPT !.stage = "read"] \in Jobs
        /\ [j EXCEPT !.stage = "save", !.peers = peers] \in Jobs
    BY DEF Jobs, Devices!Stages
  <2>5. j.profile.key \in Nat /\ j.peers \subseteq Nat
    BY DEF Jobs, Devices!Profile, Devices!NoProfile, Devices!Keys
  <2>6. /\ j.profile \in Devices!Profile \cup {Devices!NoProfile}
        /\ j.stage \in {"read", "save"} => j.profile \in Devices!Profile
    BY <2>2 DEF Jobs, DeviceTypes
  <2>7. CASE Devices!SaveProfiles(p) \/ Devices!SaveFails(p)
    <3>1. job' = [job EXCEPT ![p] = IF j.profile = Devices!NoProfile THEN Devices!Idle
                                    ELSE [j EXCEPT !.stage = "read"]]
      BY <2>2, <2>7 DEF Devices!SaveProfiles, Devices!SaveFails
    <3>2. PICK i \in Jobs : i = IF j.profile = Devices!NoProfile THEN Devices!Idle
                                ELSE [j EXCEPT !.stage = "read"]
      BY <1>0, <2>4
    <3>3. i.stage \in {"read", "save"} => i.profile \in Devices!Profile
      BY <2>6, <3>2 DEF Jobs, Devices!Idle
    <3>4. /\ UNCHANGED <<up, memory, serverFile, enrolled, made, second, launches, promised, deleted>>
          /\ profilesFile' \in {Devices!Json(memory[p]), Devices!Torn}
          /\ sound' = sound \/ sound' = FALSE
          /\ faults' = faults \/ (faults < MaxFaults /\ faults' = faults + 1)
      BY <2>7 DEF Devices!SaveProfiles, Devices!SaveFails
    <3>5. /\ serverFile' \in File(Nat) /\ enrolled' \subseteq Nat /\ promised' \subseteq Devices!Profile
          /\ faults' \in 0..MaxFaults
      BY <3>4 DEF DeviceTypes
    <3>6. sound' \in BOOLEAN
      BY <3>4 DEF DeviceTypes
    <3> QED
      BY <1>7, <2>1, <3>1, <3>2, <3>3, <3>4, <3>5, <3>6
  <2>8. CASE Devices!ReadPeers(p) \/ Devices!SavePeers(p)
    <3>1. \/ job' = [job EXCEPT ![p] = Devices!Idle]
          \/ job' = [job EXCEPT ![p] = [j EXCEPT !.stage = "save", !.peers = peers]]
      BY <2>2, <2>3, <2>8 DEF Devices!ReadPeers, Devices!SavePeers
    <3>2. /\ UNCHANGED <<up, memory, profilesFile, made, second, launches, faults, sound, deleted>>
          /\ promised' = promised \/ promised' = promised \cup {j.profile}
          /\ j.stage \in {"read", "save"}
          /\ enrolled' = enrolled \/ enrolled' = enrolled \cup {j.profile.key}
          /\ serverFile' = serverFile \/ serverFile' = Devices!Json(j.peers \cup {j.profile.key})
      BY <2>2, <2>8 DEF Devices!ReadPeers, Devices!SavePeers, Devices!Return
    <3>3. Devices!Json(j.peers \cup {j.profile.key}) \in File(Nat)
      BY <2>5 DEF Devices!Json
    <3>4. /\ serverFile' \in File(Nat) /\ enrolled' \subseteq Nat /\ promised' \subseteq Devices!Profile
          /\ sound' \in BOOLEAN /\ faults' \in 0..MaxFaults
      BY <2>5, <2>6, <3>2, <3>3 DEF DeviceTypes
    <3>5. PICK i \in Jobs : /\ job' = [job EXCEPT ![p] = i]
                            /\ i.stage \in {"read", "save"} => i.profile \in Devices!Profile
      <4>1. CASE job' = [job EXCEPT ![p] = Devices!Idle]
        BY <1>0, <4>1 DEF Devices!Idle
      <4>2. CASE job' = [job EXCEPT ![p] = [j EXCEPT !.stage = "save", !.peers = peers]]
        <5>1. [j EXCEPT !.stage = "save", !.peers = peers].profile = j.profile
          BY DEF Jobs
        <5> QED
          BY <2>4, <2>6, <3>2, <4>2, <5>1
      <4> QED
        BY <3>1, <4>1, <4>2
    <3> QED
      BY <1>7, <2>1, <3>2, <3>4, <3>5
  <2> QED
    BY <1>9, <2>7, <2>8 DEF Devices!Work
<1>10. ASSUME NEW r \in Requests, Tunnel(r) \/ TunnelStep(r)
       PROVE  DeviceTypes'
  <2>1. /\ Json({}) \in File(Nat)
        /\ \A s \in Requests : Json(loaded[s] \cup {GuiKey}) \in File(Nat)
        /\ serverFile \in File(Nat) /\ enrolled \subseteq Nat /\ GuiKey \in Nat
    BY DEF Json, GuiTypes, GuiKey, DeviceTypes
  <2>2. UNCHANGED deviceVars
    BY <1>10 DEF Tunnel, TunnelStep
  <2>3. /\ serverFile' = serverFile \/ serverFile' = Json({})
                                    \/ serverFile' = Json(loaded[r] \cup {GuiKey})
        /\ enrolled' = enrolled \/ enrolled' = enrolled \cup {GuiKey}
    BY <1>10 DEF Tunnel, TunnelStep, PostConnect, PostDisconnect, Authorize, ServerStarted, Replace,
                 Create, Stopped, ClientStep, Enter, Authenticated, TimedOut, Started, TaskStopped,
                 Lose, Wake, Fail, Elsewhere, disk
  <2> HIDE DEF File
  <2> QED
    BY <1>1, <1>2, <2>1, <2>2, <2>3
<1>11. CASE Split \/ Tick
  <2>1. /\ UNCHANGED <<up, memory, profilesFile, serverFile, enrolled, job, made, second, launches,
                       promised, sound, deleted>>
        /\ faults' = faults \/ (faults < MaxFaults /\ faults' = faults + 1)
    BY <1>11 DEF Split, Tick, disk, guiVars, deviceVars
  <2> QED
    BY <1>2, <2>1 DEF DeviceTypes
<1>12. ASSUME NEW p \in Procs, AskForProfile(p) \/ SaveProfile(p)
       PROVE  DeviceTypes'
  <2>1. UNCHANGED <<guiOnly, routerVars>>
    BY <1>12 DEF AskForProfile, SaveProfile
  <2>2. Devices!UpdateUsage(p) => p \in up
    BY DEF Devices!UpdateUsage
  <2> QED
    BY <1>5, <1>6, <1>8, <1>9, <1>12, <2>2 DEF AskForProfile, SaveProfile, Devices!Ask
<1>13. CASE LaunchGui \/ LaunchCli
  BY <1>0, <1>3, <1>13 DEF LaunchGui, LaunchCli
<1>14. CASE QuitGui \/ QuitCli
  <2>1. Saving \in BOOLEAN
    BY DEF Saving
  <2> QED
    BY <1>0, <1>4, <1>14, <2>1 DEF QuitGui, QuitCli
<1> QED
  BY <1>10, <1>11, <1>12, <1>13, <1>14 DEF Next, Procs

------------------------------------------------------------------------------------
(* One handler at a time, one process at a time *)

\* The task of a client leaves the handlers and the servers alone.
LEMMA ClientAlone ==
  ASSUME NEW c \in Requests, ClientStep(c)
  PROVE  UNCHANGED <<requests, at, asks, loaded, victim, config, active, embedded, daemon,
                     serverFile, enrolled>>
BY DEF ClientStep, Enter, Authenticated, TimedOut, Started, TaskStopped, Lose, Wake, Fail,
       Elsewhere, handlers, disk

\* Every step keeps one handler at work, and one embedded server.
LEMMA HandlersStep ==
  ASSUME GuiTypes, Handlers, Next
  PROVE  Handlers'
<1> USE DEF handlers, machine, history, disk, Nobody, Handlers
<1>1. CASE UNCHANGED guiOnly
  BY <1>1 DEF guiOnly
<1>2. CASE QuitGui
  <2>1. ProcessEnds
    BY <1>2 DEF QuitGui
  <2>2. \A r \in Requests : at'[r] \notin Running \cup {"stopping", "starting"}
    BY <2>1 DEF ProcessEnds, Running
  <2> QED
    BY <2>1, <2>2 DEF ProcessEnds, NoServer
<1>3. ASSUME NEW r \in Requests, NEW stage, at' = [at EXCEPT ![r] = stage], LoopFree \/ at[r] \in Running,
             stage = "stopping" => victim'[r] # Nobody,
             stage = "starting" => embedded'.running /\ asks'[r] \in LocalAddrs,
             \A s \in Requests : s # r => asks'[s] = asks[s] /\ victim'[s] = victim[s],
             embedded.running => embedded'.running,
             embedded'.starts = IF embedded'.running THEN 1 ELSE 0,
             embedded'.addr # Nowhere => embedded'.running,
             (requests' = requests /\ at[r] # "unused") \/ Arrive(r)
      PROVE  Handlers'
  <2>1. at'[r] = stage /\ \A s \in Requests : s # r => at'[s] = at[s] /\ at'[s] \notin Running
    BY <1>3 DEF GuiTypes, LoopFree
  <2>2. ASSUME NEW s \in Requests, s > requests'
        PROVE  at'[s] = "unused"
    <3>1. CASE requests' = requests /\ at[r] # "unused"
      BY <2>1, <2>2, <3>1
    <3>2. CASE Arrive(r)
      <4>1. requests' = requests + 1 /\ r = requests' /\ requests \in Nat /\ s \in Nat
        BY <3>2 DEF Arrive, GuiTypes, Requests
      <4>2. s > requests /\ s # r
        BY <2>2, <4>1
      <4> QED
        BY <2>1, <4>2
    <3> QED
      BY <1>3, <3>1, <3>2
  <2> QED
    BY <1>3, <2>1, <2>2
<1>4. ASSUME NEW r \in Requests, NEW next \in {"creating", "done"}, Drop(r, next), active # Nobody,
             LoopFree \/ at[r] \in Running, UNCHANGED <<asks, embedded>>,
             (requests' = requests /\ at[r] # "unused") \/ Arrive(r)
      PROVE  Handlers'
  <2>1. PICK waiting \in BOOLEAN :
           /\ active \in Requests
           /\ at' = [at EXCEPT ![r] = IF waiting THEN "stopping" ELSE next]
           /\ victim' = [victim EXCEPT ![r] = IF waiting THEN active ELSE Nobody]
    BY <1>4, Dropped
  <2>2. /\ \A s \in Requests : s # r => victim'[s] = victim[s]
        /\ waiting => victim'[r] # Nobody
    <3>1. /\ victim'[r] = IF waiting THEN active ELSE Nobody
          /\ \A s \in Requests : s # r => victim'[s] = victim[s]
      BY <2>1 DEF GuiTypes
    <3> QED
      BY <1>4, <3>1
  <2>3. PICK stage \in {"stopping", "creating", "done"} :
          stage = (IF waiting THEN "stopping" ELSE next) /\ (stage = "stopping" => waiting)
    OBVIOUS
  <2> QED
    BY <1>3, <1>4, <2>1, <2>2, <2>3
<1>5. ASSUME NEW r \in Requests, NEW a \in Addrs, NEW proxy \in BOOLEAN, PostConnect(r, a, proxy)
      PROVE  Handlers'
  <2>1. PICK stage \in {"done", "loaded"} :
          /\ at' = [at EXCEPT ![r] = stage] /\ LoopFree /\ UNCHANGED <<victim, embedded>>
          /\ Arrive(r)
          /\ asks' = asks \/ asks' = [asks EXCEPT ![r] = a]
    BY <1>5 DEF PostConnect, Arrive
  <2>2. \A s \in Requests : s # r => asks'[s] = asks[s]
    BY <2>1 DEF GuiTypes
  <2> QED
    BY <1>3, <2>1, <2>2
<1>6. ASSUME NEW r \in Requests, Authorize(r)
      PROVE  Handlers'
  <2>1. UNCHANGED <<requests, asks, victim>> /\ at[r] \in Running /\ at[r] # "unused"
    BY <1>6 DEF Authorize, Running
  <2>2. CASE asks[r] \in LocalAddrs /\ ~embedded.running
    <3>1. /\ embedded' = [embedded EXCEPT !.running = TRUE, !.starts = @ + 1]
          /\ at' = [at EXCEPT ![r] = "starting"]
      BY <1>6, <2>2 DEF Authorize
    <3>2. embedded'.running = TRUE /\ embedded'.starts = 1
      BY <2>2, <3>1 DEF GuiTypes
    <3> QED
      BY <1>3, <2>1, <2>2, <3>1, <3>2
  <2>3. CASE ~(asks[r] \in LocalAddrs /\ ~embedded.running)
    <3>1. at' = [at EXCEPT ![r] = "replacing"] /\ UNCHANGED embedded
      BY <1>6, <2>3 DEF Authorize
    <3> QED
      BY <1>3, <2>1, <3>1
  <2> QED
    BY <2>2, <2>3
<1>7. ASSUME NEW r \in Requests, ServerStarted(r)
      PROVE  Handlers'
  <2>1. /\ embedded.running /\ LoopFree /\ UNCHANGED <<requests, asks, victim>>
        /\ at' = [at EXCEPT ![r] = "replacing"] /\ at[r] # "unused"
    BY <1>7 DEF ServerStarted
  <2>2. embedded'.running = embedded.running /\ embedded'.starts = embedded.starts
    BY <1>7 DEF ServerStarted, GuiTypes
  <2> QED
    BY <1>3, <2>1, <2>2
<1>8. ASSUME NEW r \in Requests, Replace(r)
      PROVE  Handlers'
  <2>1. at[r] \in Running /\ UNCHANGED <<requests, asks, embedded>> /\ at[r] # "unused"
    BY <1>8 DEF Replace, Running
  <2>2. CASE active # Nobody
    BY <1>4, <1>8, <2>1, <2>2 DEF Replace
  <2>3. CASE active = Nobody
    <3>1. at' = [at EXCEPT ![r] = "creating"] /\ victim' = victim
      BY <1>8, <2>3 DEF Replace
    <3> QED
      BY <1>3, <2>1, <3>1
  <2> QED
    BY <2>2, <2>3
<1>9. ASSUME NEW r \in Requests, Create(r)
      PROVE  Handlers'
  <2>1. /\ at[r] \in Running /\ UNCHANGED <<requests, asks, victim, embedded>>
        /\ at' = [at EXCEPT ![r] = "done"] /\ at[r] # "unused"
    BY <1>9 DEF Create, Running
  <2> QED
    BY <1>3, <2>1
<1>10. ASSUME NEW r \in Requests, PostDisconnect(r)
       PROVE  Handlers'
  <2>1. LoopFree /\ UNCHANGED <<asks, embedded>> /\ Arrive(r)
    BY <1>10 DEF PostDisconnect, Arrive
  <2>2. CASE active # Nobody
    BY <1>4, <1>10, <2>1, <2>2 DEF PostDisconnect
  <2>3. CASE active = Nobody
    <3>1. at' = [at EXCEPT ![r] = "done"] /\ victim' = victim
      BY <1>10, <2>3 DEF PostDisconnect
    <3> QED
      BY <1>3, <2>1, <3>1
  <2> QED
    BY <2>2, <2>3
<1>11. ASSUME NEW r \in Requests, Stopped(r)
       PROVE  Handlers'
  <2>1. PICK stage \in {"done", "creating"} :
          /\ at' = [at EXCEPT ![r] = stage] /\ LoopFree /\ UNCHANGED <<requests, asks, embedded>>
          /\ victim' = [victim EXCEPT ![r] = Nobody] /\ at[r] # "unused"
    BY <1>11 DEF Stopped
  <2>2. \A s \in Requests : s # r => victim'[s] = victim[s]
    BY <2>1 DEF GuiTypes
  <2> QED
    BY <1>3, <2>1, <2>2
<1>12. ASSUME NEW c \in Requests, ClientStep(c)
       PROVE  Handlers'
  BY <1>12, ClientAlone
<1> QED
  BY <1>1, <1>2, <1>5, <1>6, <1>7, <1>8, <1>9, <1>10, <1>11, <1>12, Parts
     DEF Tunnel, TunnelStep

\* Every step keeps the processes and the handlers apart.
LEMMA PresenceStep ==
  ASSUME GuiTypes, DeviceTypes, Presence, Next
  PROVE  Presence'
<1> USE DEF handlers, machine, history, Presence
<1>0. Gui \in Procs /\ Cli \in Procs /\ Gui # Cli
  BY DEF Procs, Gui, Cli
<1>1. CASE QuitGui
  <2>1. ProcessEnds /\ Devices!Quit(Gui, Saving)
    BY <1>1 DEF QuitGui
  <2>2. \A r \in Requests : at'[r] \in {"unused", "done"} /\ clients'[r].task = "none"
    BY <2>1 DEF ProcessEnds, NoClient
  <2>3. active' = Nobody /\ embedded' = NoServer /\ Quiet' /\ LoopFree'
    BY <2>1, <2>2 DEF ProcessEnds, Quiet, LoopFree, Running
  <2>4. sound' => sound /\ up' \subseteq up
    BY <2>1 DEF Devices!Quit, Devices!Tear
  <2> QED
    BY <2>3, <2>4
<1>2. ASSUME NEW r \in Requests, Tunnel(r) \/ TunnelStep(r)
      PROVE  Presence'
  <2>1. Turn /\ UNCHANGED <<up, sound, job>>
    BY <1>2 DEF Tunnel, TunnelStep, deviceVars
  <2> QED
    BY <2>1 DEF Turn
<1>3. ASSUME UNCHANGED guiOnly,
             Gui \in up' \/ Gui \notin up,
             sound' => (sound /\ up' \subseteq up) \/ up' = {Gui} \/ up' = {Cli},
             LoopFree \/ job'[Gui] = job[Gui]
      PROVE  Presence'
  <2>1. LoopFree' <=> LoopFree
    BY <1>3 DEF guiOnly, LoopFree
  <2>2. Quiet' <=> Quiet
    BY <1>3 DEF guiOnly, Quiet
  <2>3. sound' => \A p, q \in up' : p = q
    BY <1>3
  <2>4. active' = active /\ embedded' = embedded
    BY <1>3 DEF guiOnly
  <2> QED
    BY <1>3, <2>1, <2>2, <2>3, <2>4
<1>4. ASSUME NEW p \in Procs, Devices!Launch(p), UNCHANGED guiOnly
      PROVE  Presence'
  <2>1. up' = up \cup {p} /\ job' = job /\ (sound' => up = {})
    BY <1>4 DEF Devices!Launch
  <2> QED
    BY <1>3, <1>4, <2>1 DEF Procs
<1>5. CASE LaunchGui \/ LaunchCli
  BY <1>0, <1>4, <1>5 DEF LaunchGui, LaunchCli
<1>6. CASE QuitCli
  <2>1. /\ up' = up \ {Cli} /\ job' = [job EXCEPT ![Cli] = Devices!Idle] /\ (sound' => sound)
        /\ UNCHANGED guiOnly
    BY <1>6 DEF QuitCli, Devices!Quit, Devices!Tear
  <2>2. job'[Gui] = job[Gui]
    BY <1>0, <2>1 DEF DeviceTypes
  <2> QED
    BY <1>0, <1>3, <2>1, <2>2
<1>7. ASSUME NEW p \in Procs, AskForProfile(p) \/ SaveProfile(p)
      PROVE  Presence'
  <2>1. up' = up /\ (sound' => sound) /\ UNCHANGED guiOnly
    BY <1>7 DEF AskForProfile, SaveProfile, Devices!Ask, Devices!Work, Devices!CreateProfile,
                Devices!DeleteProfile, Devices!UpdateUsage, Devices!SaveProfiles,
                Devices!SaveFails, Devices!ReadPeers, Devices!SavePeers, Devices!history
  <2>2. \E j : job' = [job EXCEPT ![p] = j]
    BY <1>7 DEF AskForProfile, SaveProfile, Devices!Ask, Devices!Work, Devices!CreateProfile,
                Devices!DeleteProfile, Devices!UpdateUsage, Devices!SaveProfiles,
                Devices!SaveFails, Devices!ReadPeers, Devices!SavePeers
  <2>3. p # Gui => job'[Gui] = job[Gui]
    BY <1>0, <2>2 DEF DeviceTypes
  <2>4. p = Gui /\ AskForProfile(p) => LoopFree
    BY DEF AskForProfile
  <2>5. p = Gui /\ SaveProfile(p) => LoopFree
    <3>1. SaveProfile(p) => job[p] # Devices!Idle
      BY DEF SaveProfile, Devices!Work, Devices!SaveProfiles, Devices!SaveFails,
             Devices!ReadPeers, Devices!SavePeers, Devices!Idle
    <3> QED
      BY <3>1
  <2> QED
    BY <1>3, <1>7, <2>1, <2>3, <2>4, <2>5
<1>8. CASE Split \/ Tick
  <2>1. up' = up /\ sound' = sound /\ job' = job /\ UNCHANGED guiOnly
    BY <1>8 DEF Split, Tick, guiVars, guiOnly, deviceVars
  <2> QED
    BY <1>3, <2>1
<1> QED
  BY <1>1, <1>2, <1>5, <1>6, <1>7, <1>8 DEF Next, Procs

------------------------------------------------------------------------------------
(* The handlers keep track of what the clients do *)

\* The task of client c moves on: it starts nothing that was not started before.
LEMMA ClientMoves ==
  ASSUME GuiTypes, LoopFree, Tracked, OnMachine,
         NEW c \in Requests, clients' \in [Requests -> Client],
         \A d \in Requests \ {c} : clients'[d] = clients[d],
         UNCHANGED <<at, active, victim>>,
         NEW k \in Client, k = clients'[c], ClientShape(k),
         Starting(k) => Starting(clients[c]),
         k.shield => clients[c].shield \/ Starting(clients[c]),
         k.shield => k.gateway = "open" \/ k.task = "stopping"
                       \/ \E r \in Requests : at[r] = "stopping",
         blocked' => (blocked /\ active # c) \/ (c = active /\ k.shield),
         systemProxy' => (systemProxy /\ active # c) \/ (c = active /\ k.gateway = "open")
  PROVE  Tracked' /\ OnMachine'
<1>1. active \in {Nobody} \cup Requests /\ c # Nobody
  BY DEF GuiTypes, Nobody, Requests
<1>2. \A r \in Requests : at[r] # "creating"
  BY DEF LoopFree, Running
<1>3. \A d \in Requests : d # c => /\ Starting(clients'[d]) <=> Starting(clients[d])
                                   /\ clients'[d] = clients[d]
  OBVIOUS
<1>4. Tracked'
  <2>1. \A d \in Requests : Starting(clients'[d]) => Starting(clients[d])
    BY <1>3
  <2>2. \A d \in Requests : clients'[d].shield => clients[d].shield \/ Starting(clients[d])
    BY <1>3
  <2>3. \A d \in Requests : Starting(clients'[d]) \/ clients'[d].shield => d = active
    BY <2>1, <2>2 DEF Tracked
  <2>4. \A d \in Requests : Starting(clients'[d]) => \A r \in Requests : at[r] # "stopping"
    BY <2>1 DEF Tracked
  <2> QED
    BY <1>2, <2>3, <2>4 DEF Tracked, Starting
<1>5. OnMachine'
  <2>1. \A d \in Requests : ClientShape(clients'[d])
    BY <1>3 DEF OnMachine
  <2>2. \A d \in Requests : clients'[d].shield =>
          clients'[d].gateway = "open" \/ clients'[d].task = "stopping"
            \/ \E r \in Requests : at[r] = "stopping"
    BY <1>3 DEF OnMachine
  <2>3. blocked' => active # Nobody /\ clients'[active].shield
    BY <1>1, <1>3 DEF OnMachine
  <2>4. systemProxy' => active # Nobody /\ clients'[active].gateway = "open"
    BY <1>1, <1>3 DEF OnMachine
  <2> QED
    BY <2>1, <2>2, <2>3, <2>4 DEF OnMachine, ClientShape
<1> QED
  BY <1>4, <1>5

\* A task that fails takes back what its client did.
LEMMA FailMoves ==
  ASSUME GuiTypes, LoopFree, Tracked, OnMachine, NEW c \in Requests, NEW k \in Client,
         clients[c].task = "waiting", k.running = clients[c].running,
         k.shield = clients[c].shield, k.gateway = "starting" => clients[c].gateway = "starting",
         Fail(c, k), ~stranded'
  PROVE  Tracked' /\ OnMachine'
<1>1. PICK j \in Client, waiting \in BOOLEAN :
        /\ Disconnect(c, j, waiting)
        /\ j = [k EXCEPT !.state = "ERROR", !.task = IF waiting THEN "stopping" ELSE "done"]
        /\ UNCHANGED <<losses, overlapped, requests, at, asks, loaded, victim, config, active,
                       embedded, daemon, serverFile, enrolled>>
  BY Failed
<1>2. /\ j.shield = clients[c].shield /\ j.gateway = k.gateway
      /\ j.task = IF waiting THEN "stopping" ELSE "done"
  BY <1>1 DEF Client
<1>3. k.gateway # "starting"
  BY DEF OnMachine, ClientShape
<1>4. PICK m \in Client : m = clients'[c]
  BY <1>1, Disconnected
<1>5. /\ clients' \in [Requests -> Client]
      /\ \A d \in Requests \ {c} : clients'[d] = clients[d]
      /\ ~m.running /\ m.gateway \notin {"open", "starting"} /\ m.task = j.task
      /\ waiting => m.shield = j.shield
      /\ ~waiting => ~m.shield
      /\ blocked' => blocked /\ (waiting \/ ~j.shield)
      /\ ~systemProxy'
  <2>1. Disconnect(c, j, waiting)
    BY <1>1
  <2>2. /\ clients' \in [Requests -> Client]
        /\ \A d \in Requests \ {c} : clients'[d] = clients[d]
        /\ ~m.running /\ m.gateway # "open" /\ m.task = j.task
        /\ m.gateway = "starting" <=> j.gateway = "starting"
        /\ waiting => m.shield = j.shield
        /\ ~waiting => ~m.shield
    BY <1>4, <2>1, Disconnected
  <2>3. (blocked' => blocked /\ (waiting \/ ~j.shield)) /\ ~systemProxy'
    BY <2>1, Disconnected
  <2> QED
    BY <1>2, <1>3, <2>2, <2>3
<1>6. ClientShape(m) /\ ~Starting(m)
  BY <1>2, <1>5 DEF ClientShape, Starting
<1>7. m.shield => clients[c].shield /\ m.task = "stopping"
  BY <1>2, <1>5
<1>8. blocked' => (blocked /\ active # c) \/ (c = active /\ m.shield)
  BY <1>2, <1>5 DEF OnMachine
<1>9. UNCHANGED <<at, active, victim>>
  BY <1>1
<1> QED
  BY <1>4, <1>5, <1>6, <1>7, <1>8, <1>9, ClientMoves

\* The task of client c, by its steps.
LEMMA TaskMoves ==
  ASSUME GuiTypes, Tracked, OnMachine, NEW c \in Requests, ClientStep(c), ~stranded'
  PROVE  Tracked' /\ OnMachine'
<1>0. clients[c] \in Client /\ LoopFree
  BY DEF GuiTypes, ClientStep, Enter, Authenticated, TimedOut, Started, TaskStopped, Lose, Wake,
         TaskStep
<1>1. PICK o \in Client : o = clients[c]
  BY <1>0
<1>2. /\ ClientShape(o)
      /\ Starting(o) => c = active /\ \A r \in Requests : at[r] # "stopping"
      /\ o.shield => o.gateway = "open" \/ o.task = "stopping"
                       \/ \E r \in Requests : at[r] = "stopping"
      /\ blocked /\ active = c => o.shield
      /\ systemProxy /\ active = c => o.gateway = "open"
  BY <1>1 DEF Tracked, OnMachine
<1>3. UNCHANGED <<at, active, victim>>
  BY ClientAlone
<1>4. ASSUME NEW k \in Client, clients' = [clients EXCEPT ![c] = k], ClientShape(k),
             Starting(k) => Starting(o), k.shield => o.shield \/ Starting(o),
             k.shield => k.gateway = "open" \/ k.task = "stopping"
                           \/ \E r \in Requests : at[r] = "stopping",
             blocked' => (blocked /\ active # c) \/ (c = active /\ k.shield),
             systemProxy' => (systemProxy /\ active # c) \/ (c = active /\ k.gateway = "open")
      PROVE  Tracked' /\ OnMachine'
  <2>1. /\ clients' \in [Requests -> Client] /\ k = clients'[c]
        /\ \A d \in Requests \ {c} : clients'[d] = clients[d]
    BY <1>4 DEF GuiTypes
  <2> QED
    BY <1>0, <1>1, <1>3, <1>4, <2>1, ClientMoves
<1>5. CASE Enter(c)
  <2>1. PICK k \in Client : k = Entered(o)
    BY <1>1, Ongoing
  <2>2. /\ k.running /\ k.task = "waiting" /\ k.gateway = o.gateway /\ k.shield = o.shield
    BY <2>1 DEF Entered, Client
  <2>3. clients' = [clients EXCEPT ![c] = k] /\ UNCHANGED <<blocked, systemProxy>>
        /\ o.task = "created"
    BY <1>1, <1>5, <2>1 DEF Enter, Becomes, TaskStep
  <2>4. ClientShape(k) /\ Starting(o)
    BY <1>2, <2>2, <2>3 DEF ClientShape, Starting
  <2> QED
    BY <1>2, <1>4, <2>2, <2>3, <2>4
<1>6. CASE Authenticated(c) /\ ~PortBusy
  <2>1. PICK k \in Client : k = [o EXCEPT !.gateway = "starting", !.task = "starting",
                                          !.peer = Nowhere]
    BY <1>1, Ongoing
  <2>2. /\ k.running = o.running /\ k.task = "starting" /\ k.gateway = "starting"
        /\ k.shield = o.shield
    BY <2>1 DEF Client
  <2>3. clients' = [clients EXCEPT ![c] = k] /\ UNCHANGED <<blocked, systemProxy>>
    BY <1>1, <1>6, <2>1 DEF Authenticated, Becomes
  <2>4. o.task = "waiting" /\ o.running /\ o.gateway # "open"
    BY <1>1, <1>6 DEF Authenticated, TaskStep, PortBusy
  <2>5. ClientShape(k) /\ Starting(o)
    BY <2>2, <2>4 DEF ClientShape, Starting
  <2> QED
    BY <1>2, <1>4, <2>2, <2>3, <2>4, <2>5
<1>7. CASE (Authenticated(c) /\ PortBusy) \/ TimedOut(c)
  <2>1. \E k \in {o, [o EXCEPT !.gateway = IF @ = "open" THEN "leaked" ELSE @]} : Fail(c, k)
    BY <1>1, <1>7 DEF Authenticated, TimedOut
  <2>2. PICK k \in Client : /\ k \in {o, [o EXCEPT !.gateway = IF @ = "open" THEN "leaked" ELSE @]}
                            /\ Fail(c, k)
    BY <1>1, <2>1, Ongoing
  <2>3. /\ k.running = o.running /\ k.shield = o.shield
        /\ k.gateway = "starting" => o.gateway = "starting"
    BY <2>2 DEF Client
  <2>4. clients[c].task = "waiting"
    BY <1>7 DEF Authenticated, TimedOut, TaskStep
  <2> QED
    BY <1>0, <1>1, <2>2, <2>3, <2>4, FailMoves
<1>8. CASE Started(c)
  <2>1. PICK k \in Client : k = [o EXCEPT !.gateway = "open", !.shield = TRUE,
                                          !.state = "CONNECTED", !.task = "done"]
    BY <1>1, Ongoing
  <2>2. /\ k.running = o.running /\ k.task = "done" /\ k.gateway = "open" /\ k.shield
        /\ k.state = "CONNECTED"
    BY <2>1 DEF Client
  <2>3. clients' = [clients EXCEPT ![c] = k] /\ o.task = "starting"
    BY <1>1, <1>8, <2>1 DEF Started, Becomes, TaskStep
  <2>4. ClientShape(k) /\ Starting(o)
    BY <1>2, <2>2, <2>3 DEF ClientShape, Starting
  <2> QED
    BY <1>2, <1>4, <2>2, <2>3, <2>4
<1>9. CASE TaskStopped(c)
  <2>1. PICK j \in Client : j = [o EXCEPT !.task = "done"]
    BY <1>1, Ongoing
  <2>2. /\ j.running = o.running /\ j.task = "done" /\ j.gateway = o.gateway
        /\ j.shield = o.shield
    BY <2>1 DEF Client
  <2>3. Settle(c, j) /\ o.task = "stopping"
    BY <1>1, <1>9, <2>1 DEF TaskStopped, TaskStep
  <2>4. PICK k \in Client : k = clients'[c]
    BY <2>3, NowSettled
  <2>5. /\ clients' \in [Requests -> Client]
        /\ \A d \in Requests \ {c} : clients'[d] = clients[d]
        /\ ~k.shield /\ k.running = j.running /\ k.gateway = j.gateway /\ k.task = j.task
        /\ blocked' => blocked /\ ~j.shield
        /\ systemProxy' = systemProxy
    BY <2>3, <2>4, NowSettled
  <2>6. ClientShape(k) /\ (Starting(k) => Starting(o)) /\ o.gateway # "open"
    BY <1>2, <2>2, <2>3, <2>5 DEF ClientShape, Starting
  <2>7. blocked' => blocked /\ active # c
    BY <1>2, <2>2, <2>5
  <2>8. systemProxy' => systemProxy /\ active # c
    BY <1>2, <2>5, <2>6
  <2> QED
    BY <1>0, <1>1, <1>3, <2>4, <2>5, <2>6, <2>7, <2>8, ClientMoves
<1>10. CASE Lose(c)
  <2>1. PICK k \in Client : k = [o EXCEPT !.state = "RECONNECTING", !.task = "sleeping"]
    BY <1>1, Ongoing
  <2>2. /\ k.running = o.running /\ k.task = "sleeping" /\ k.gateway = o.gateway
        /\ k.shield = o.shield
    BY <2>1 DEF Client
  <2>3. clients' = [clients EXCEPT ![c] = k] /\ UNCHANGED <<blocked, systemProxy>>
        /\ o.task = "done" /\ o.running
    BY <1>1, <1>10, <2>1 DEF Lose, Becomes, TaskStep
  <2>4. ClientShape(k) /\ Starting(o)
    BY <1>2, <2>2, <2>3 DEF ClientShape, Starting
  <2> QED
    BY <1>2, <1>4, <2>2, <2>3, <2>4
<1>11. CASE Wake(c)
  <2>1. UNCHANGED <<blocked, systemProxy>> /\ o.task = "sleeping"
    BY <1>1, <1>11 DEF Wake, TaskStep
  <2>2. PICK k \in Client : k = IF o.running THEN Entered(o) ELSE [o EXCEPT !.task = "done"]
    BY <1>1, Ongoing
  <2>3. clients' = [clients EXCEPT ![c] = k]
    BY <1>1, <1>11, <2>2 DEF Wake, Becomes
  <2>4. /\ k.running = o.running /\ k.gateway = o.gateway /\ k.shield = o.shield
        /\ k.task = IF o.running THEN "waiting" ELSE "done"
    BY <2>2 DEF Entered, Client
  <2>5. ClientShape(k) /\ (Starting(k) => Starting(o))
    BY <1>2, <2>1, <2>4 DEF ClientShape, Starting
  <2> QED
    BY <1>2, <1>4, <2>1, <2>3, <2>4, <2>5
<1> QED
  BY <1>5, <1>6, <1>7, <1>8, <1>9, <1>10, <1>11 DEF ClientStep

\* The active client is dropped: nothing it did stays, but its rules while the handler waits.
LEMMA DropMoves ==
  ASSUME GuiTypes, Handlers, Tracked, OnMachine, NEW r \in Requests,
         NEW next \in {"creating", "done"}, Drop(r, next), active # Nobody,
         LoopFree \/ at[r] \in Running, ~overlapped', ~stranded',
         active' \in {active, Nobody}, at'[r] = "stopping" => active' = active
  PROVE  Tracked' /\ OnMachine'
<1>1. PICK waiting \in BOOLEAN :
        /\ Disconnect(active, clients[active], waiting) /\ clients[active] \in Client
        /\ active \in Requests
        /\ at' = [at EXCEPT ![r] = IF waiting THEN "stopping" ELSE next]
        /\ victim' = [victim EXCEPT ![r] = IF waiting THEN active ELSE Nobody]
        /\ \A s \in Requests : at[s] # "stopping"
        /\ clients[active].task \notin {"created", "starting"}
  BY Dropped
<1>2. PICK c \in Requests, o \in Client : c = active /\ o = clients[c] /\ o \in Client
  BY <1>1
<1>3. Disconnect(c, o, waiting)
  BY <1>1, <1>2
<1>4. PICK k \in Client : k = clients'[c]
  BY <1>3, Disconnected
<1>5. /\ \A d \in Requests \ {c} : clients'[d] = clients[d]
      /\ ~k.running /\ k.gateway # "open" /\ k.task = o.task
      /\ k.gateway = "starting" <=> o.gateway = "starting"
      /\ waiting => k.shield = o.shield
      /\ ~waiting => ~k.shield
  BY <1>3, <1>4, Disconnected
<1>6. (blocked' => blocked /\ (waiting \/ ~o.shield)) /\ ~systemProxy'
  BY <1>3, Disconnected
<1>7. k.gateway # "starting" /\ k.task \notin {"created", "starting"}
  <2>1. ClientShape(o)
    BY <1>2 DEF OnMachine
  <2> QED
    BY <1>1, <1>2, <1>5, <2>1 DEF ClientShape
<1>8. ClientShape(k) /\ ~Starting(k)
  BY <1>5, <1>7 DEF ClientShape, Starting
<1>9. \A d \in Requests : /\ ~Starting(clients'[d])
                          /\ clients'[d].shield => d = c /\ waiting
  BY <1>2, <1>4, <1>5, <1>8 DEF Tracked, Starting
<1>10. \A d \in Requests : ClientShape(clients'[d])
  BY <1>4, <1>5, <1>8 DEF OnMachine
<1>11. /\ at'[r] = IF waiting THEN "stopping" ELSE next
       /\ \A s \in Requests : s # r => at'[s] = at[s] /\ at'[s] \notin {"stopping", "creating"}
  <2>1. at'[r] = (IF waiting THEN "stopping" ELSE next) /\ \A s \in Requests : s # r => at'[s] = at[s]
    BY <1>1 DEF GuiTypes
  <2>2. \A s \in Requests : s # r => at[s] # "creating"
    BY DEF LoopFree, Handlers, Running
  <2> QED
    BY <1>1, <2>1, <2>2
<1>12. waiting => at'[r] = "stopping" /\ victim'[r] = c /\ active' = c
  BY <1>1, <1>2, <1>11 DEF GuiTypes
<1>13. Tracked'
  <2>1. \A s \in Requests : at'[s] = "stopping" => s = r /\ waiting
    BY <1>11
  <2>2. \A s \in Requests : at'[s] = "creating" => s = r /\ ~waiting
    BY <1>11
  <2>3. c # Nobody
    BY DEF Requests, Nobody
  <2>4. \A s \in Requests : at'[s] = "stopping" => victim'[s] = active' /\ active' # Nobody
    BY <1>12, <2>1, <2>3
  <2>5. \A d \in Requests : Starting(clients'[d]) \/ clients'[d].shield => d = active'
    BY <1>9, <1>12
  <2>6. \A s \in Requests : at'[s] = "creating" =>
          /\ \A t \in Requests : at'[t] # "stopping"
          /\ \A d \in Requests : ~Starting(clients'[d]) /\ ~clients'[d].shield
    BY <1>9, <2>1, <2>2
  <2> QED
    BY <1>9, <2>1, <2>4, <2>5, <2>6 DEF Tracked, Starting
<1>14. OnMachine'
  <2>1. \A d \in Requests : clients'[d].shield => \E s \in Requests : at'[s] = "stopping"
    BY <1>9, <1>12
  <2>2. blocked' => waiting /\ o.shield
    BY <1>2, <1>6 DEF OnMachine
  <2>3. blocked' => active' # Nobody /\ clients'[active'].shield
    <3>1. waiting => active' = c /\ c # Nobody
      BY <1>12 DEF Requests, Nobody
    <3> QED
      BY <1>4, <1>5, <2>2, <3>1
  <2> QED
    BY <1>6, <1>10, <2>1, <2>3 DEF OnMachine, ClientShape
<1> QED
  BY <1>13, <1>14

\* A handler goes on to another stage; it makes a client only when there is none.
LEMMA StageMoves ==
  ASSUME GuiTypes, Tracked, OnMachine, NEW r \in Requests, NEW stage,
         at' = [at EXCEPT ![r] = stage], at[r] # "stopping", stage # "stopping",
         stage = "creating" => active = Nobody,
         UNCHANGED <<clients, blocked, systemProxy, active, victim>>
  PROVE  Tracked' /\ OnMachine'
<1>1. at'[r] = stage /\ \A s \in Requests : s # r => at'[s] = at[s]
  BY DEF GuiTypes
<1>2. \A s \in Requests : at'[s] = "stopping" <=> at[s] = "stopping"
  BY <1>1
<1>3. \A s \in Requests : at'[s] = "creating" => at[s] = "creating" \/ active = Nobody
  BY <1>1
<1>4. active = Nobody => /\ \A s \in Requests : at[s] # "stopping"
                         /\ \A c \in Requests : ~Starting(clients[c]) /\ ~clients[c].shield
  BY DEF Tracked, Nobody, Requests
<1>5. \A s \in Requests : at'[s] = "creating" =>
        /\ \A t \in Requests : at[t] # "stopping"
        /\ \A c \in Requests : ~Starting(clients[c]) /\ ~clients[c].shield
  BY <1>3, <1>4 DEF Tracked
<1>6. Tracked'
  BY <1>2, <1>5 DEF Tracked, Starting
<1>7. OnMachine'
  BY <1>2 DEF OnMachine, ClientShape
<1> QED
  BY <1>6, <1>7

\* The gateway of a dropped client is closed: there is no active client any more.
LEMMA StoppedMoves ==
  ASSUME GuiTypes, Tracked, OnMachine, NEW r \in Requests, Stopped(r)
  PROVE  Tracked' /\ OnMachine'
<1>1. /\ at[r] = "stopping" /\ LoopFree /\ active' = Nobody
      /\ victim[r] = active /\ active \in Requests
  BY DEF Stopped, Tracked, GuiTypes
<1>2. PICK c \in Requests : c = active
  BY <1>1
<1>3. PICK o \in Client : o = clients[c]
  BY DEF GuiTypes
<1>4. Settle(c, o)
  BY <1>1, <1>2, <1>3 DEF Stopped
<1>5. PICK k \in Client : k = clients'[c]
  BY <1>4, NowSettled
<1>6. /\ \A d \in Requests \ {c} : clients'[d] = clients[d]
      /\ ~k.shield /\ k.running = o.running /\ k.gateway = o.gateway /\ k.task = o.task
      /\ blocked' => blocked /\ ~o.shield
      /\ systemProxy' = systemProxy
  BY <1>4, <1>5, NowSettled
<1>7. \A d \in Requests : ~Starting(clients[d]) /\ (d # c => ~clients[d].shield)
  BY <1>1, <1>2 DEF Tracked
<1>8. ~Starting(k) /\ ClientShape(k)
  BY <1>3, <1>6, <1>7 DEF Starting, ClientShape
<1>9. \A d \in Requests : ~Starting(clients'[d]) /\ ~clients'[d].shield /\ ClientShape(clients'[d])
  BY <1>5, <1>6, <1>7, <1>8 DEF OnMachine
<1>10. \A s \in Requests : at'[s] # "stopping"
  <2>1. at' = [at EXCEPT ![r] = IF asks[r] = Nowhere THEN "done" ELSE "creating"]
    BY DEF Stopped
  <2>2. \A s \in Requests : s # r => at[s] # "stopping"
    BY <1>1 DEF Tracked
  <2> QED
    BY <2>1, <2>2 DEF GuiTypes
<1>11. ~blocked'
  BY <1>2, <1>3, <1>6 DEF OnMachine
<1>12. ~systemProxy'
  BY <1>2, <1>6, <1>7 DEF OnMachine, Starting
<1>13. Tracked'
  BY <1>9, <1>10 DEF Tracked, Starting
<1>14. OnMachine'
  BY <1>9, <1>11, <1>12 DEF OnMachine, ClientShape
<1> QED
  BY <1>13, <1>14

\* A client is made: it is the only one, and the active one.
LEMMA CreateMoves ==
  ASSUME GuiTypes, Handlers, Tracked, OnMachine, NEW r \in Requests, Create(r)
  PROVE  Tracked' /\ OnMachine'
<1>1. /\ at[r] = "creating" /\ active' = r /\ at' = [at EXCEPT ![r] = "done"]
      /\ clients' = [clients EXCEPT ![r].task = "created"]
      /\ UNCHANGED <<victim, blocked, systemProxy>>
  BY DEF Create
<1>2. PICK o \in Client : o = clients[r]
  BY DEF GuiTypes
<1>3. PICK k \in Client : k = [o EXCEPT !.task = "created"]
  BY <1>2, Ongoing
<1>4. clients' = [clients EXCEPT ![r] = k]
  BY <1>1, <1>2, <1>3
<1>5. clients'[r] = k /\ \A d \in Requests : d # r => clients'[d] = clients[d]
  BY <1>4 DEF GuiTypes
<1>6. k.running = o.running /\ k.gateway = o.gateway /\ k.shield = o.shield /\ k.task = "created"
  BY <1>3 DEF Client
<1>7. /\ \A s \in Requests : at[s] # "stopping"
      /\ \A d \in Requests : ~Starting(clients[d]) /\ ~clients[d].shield
  BY <1>1 DEF Tracked
<1>8. ClientShape(k) /\ ~k.shield
  BY <1>2, <1>6, <1>7 DEF ClientShape, Starting
<1>9. \A d \in Requests : /\ ~clients'[d].shield /\ ClientShape(clients'[d])
                          /\ Starting(clients'[d]) => d = r
  BY <1>5, <1>7, <1>8 DEF OnMachine
<1>10. \A s \in Requests : at'[s] \notin {"stopping", "creating"}
  <2>1. \A s \in Requests : s # r => at[s] # "creating"
    BY <1>1 DEF Handlers, Running
  <2> QED
    BY <1>1, <1>7, <2>1 DEF GuiTypes
<1>11. ~blocked' /\ ~systemProxy'
  BY <1>1, <1>7 DEF OnMachine, GuiTypes, Nobody, Starting
<1>12. Tracked'
  BY <1>1, <1>9, <1>10 DEF Tracked, Starting
<1>13. OnMachine'
  BY <1>9, <1>11 DEF OnMachine, ClientShape
<1> QED
  BY <1>12, <1>13

\* Every step keeps track, unless it is one of those that the history notes.
LEMMA OnTrackStep ==
  ASSUME GuiTypes, Handlers, OnTrack, Next
  PROVE  OnTrack'
<1> USE DEF handlers, machine, history
<1>1. CASE UNCHANGED guiOnly
  BY <1>1 DEF guiOnly, OnTrack, Tracked, OnMachine, Starting, ClientShape
<1>2. SUFFICES ASSUME ~UNCHANGED guiOnly, ~overlapped', ~stranded'
               PROVE  Tracked' /\ OnMachine'
  BY <1>1 DEF OnTrack
<1>3. ASSUME ~overlapped, ~stranded
      PROVE  Tracked /\ OnMachine
  BY <1>3 DEF OnTrack
<1>4. CASE QuitGui
  <2>1. ProcessEnds
    BY <1>4 DEF QuitGui
  <2>2. /\ \A r \in Requests : at'[r] \in {"unused", "done"} /\ clients'[r] = NoClient
        /\ ~blocked' /\ ~systemProxy'
    BY <1>2, <2>1 DEF ProcessEnds
  <2> QED
    BY <2>2 DEF Tracked, OnMachine, Starting, ClientShape, NoClient
<1>5. ASSUME NEW r \in Requests, Tunnel(r) \/ TunnelStep(r)
      PROVE  Tracked' /\ OnMachine'
  <2>1. ASSUME NEW a \in Addrs, NEW proxy \in BOOLEAN, PostConnect(r, a, proxy)
        PROVE  Tracked' /\ OnMachine'
    <3>1. PICK stage \in {"done", "loaded"} : at' = [at EXCEPT ![r] = stage]
      BY <2>1 DEF PostConnect
    <3>2. UNCHANGED <<clients, blocked, systemProxy, active, victim, overlapped, stranded>>
      BY <2>1 DEF PostConnect
    <3>3. at[r] # "stopping"
      <4>1. requests \in Nat /\ r = requests + 1
        BY <2>1 DEF PostConnect, Arrive, GuiTypes
      <4> QED
        BY <4>1 DEF Handlers
    <3> QED
      BY <1>2, <1>3, <3>1, <3>2, <3>3, StageMoves
  <2>2. CASE Authorize(r) \/ ServerStarted(r)
    <3>1. at' = [at EXCEPT ![r] = "starting"] \/ at' = [at EXCEPT ![r] = "replacing"]
      BY <2>2 DEF Authorize, ServerStarted
    <3>2. /\ UNCHANGED <<clients, blocked, systemProxy, active, victim, overlapped, stranded>>
          /\ at[r] # "stopping"
      BY <2>2 DEF Authorize, ServerStarted
    <3> QED
      BY <1>2, <1>3, <3>1, <3>2, StageMoves
  <2>3. CASE Replace(r)
    <3>1. at[r] = "replacing" /\ active' = active
      BY <2>3 DEF Replace
    <3>2. CASE active # Nobody
      <4>1. Drop(r, "creating")
        BY <2>3, <3>2 DEF Replace
      <4>2. ~overlapped /\ ~stranded
        BY <1>2, <3>2, <4>1, Dropped, Disconnected
      <4> QED
        BY <1>2, <1>3, <3>1, <3>2, <4>1, <4>2, DropMoves DEF Running
    <3>3. CASE active = Nobody
      BY <1>2, <1>3, <2>3, <3>1, <3>3, StageMoves DEF Replace
    <3> QED
      BY <3>2, <3>3
  <2>4. CASE PostDisconnect(r)
    <3>1. CASE active # Nobody
      <4>1. Drop(r, "done") /\ LoopFree /\ active' = IF at'[r] = "done" THEN Nobody ELSE active
        BY <2>4, <3>1 DEF PostDisconnect, Arrive
      <4>2. ~overlapped /\ ~stranded
        BY <1>2, <3>1, <4>1, Dropped, Disconnected
      <4>3. active' \in {active, Nobody} /\ (at'[r] = "stopping" => active' = active)
        BY <4>1
      <4> QED
        BY <1>2, <1>3, <3>1, <4>1, <4>2, <4>3, DropMoves
    <3>2. CASE active = Nobody
      <4>1. at' = [at EXCEPT ![r] = "done"] /\ UNCHANGED <<active, machine, victim, history>>
        BY <2>4, <3>2 DEF PostDisconnect
      <4>2. at[r] # "stopping"
        <5>1. requests \in Nat /\ r = requests + 1
          BY <2>4 DEF PostDisconnect, Arrive, GuiTypes
        <5> QED
          BY <5>1 DEF Handlers
      <4> QED
        BY <1>2, <1>3, <4>1, <4>2, StageMoves
    <3> QED
      BY <3>1, <3>2
  <2>5. CASE Stopped(r)
    <3>1. UNCHANGED <<overlapped, stranded>>
      BY <2>5 DEF Stopped, Settle
    <3> QED
      BY <1>2, <1>3, <2>5, <3>1, StoppedMoves
  <2>6. CASE Create(r)
    <3>1. UNCHANGED <<overlapped, stranded>>
      BY <2>6 DEF Create
    <3> QED
      BY <1>2, <1>3, <2>6, <3>1, CreateMoves
  <2>7. CASE ClientStep(r)
    <3>1. overlapped' = overlapped
      BY <2>7 DEF ClientStep, Enter, Authenticated, TimedOut, Started, TaskStopped, Lose, Wake, Fail
    <3>2. stranded' = stranded \/ \E c, k, waiting : Disconnect(c, k, waiting)
      BY <2>7 DEF ClientStep, Enter, Authenticated, TimedOut, Started, TaskStopped, Lose, Wake, Fail,
                  Settle
    <3>3. ~stranded
      BY <1>2, <3>2 DEF Disconnect
    <3> QED
      BY <1>2, <1>3, <2>7, <3>1, <3>3, TaskMoves
  <2> QED
    BY <1>5, <2>1, <2>2, <2>3, <2>4, <2>5, <2>6, <2>7 DEF Tunnel, TunnelStep
<1> QED
  BY <1>2, <1>4, <1>5, Parts

------------------------------------------------------------------------------------
(* Whoever writes a file knows what is in it *)

\* Every step keeps the keys of server.json, and what its writers know of them.
LEMMA PeersStep ==
  ASSUME GuiTypes, DeviceTypes, Handlers, Presence, Peers, Next
  PROVE  Peers'
<1> USE DEF handlers
<1>0. Gui \in Procs /\ Cli \in Procs /\ Gui # Cli
  BY DEF Procs, Gui, Cli
<1>1. ASSUME serverFile' = serverFile \/ (serverFile' = Devices!Torn /\ ~sound'), enrolled' = enrolled,
             sound' => sound,
             \A r \in Requests : at'[r] = "loaded" => at[r] = "loaded" /\ loaded'[r] = loaded[r],
             \A p \in Procs : job'[p].stage = "save" => job'[p] = job[p]
      PROVE  Peers'
  BY <1>1 DEF Peers, Devices!Torn
<1>2. ASSUME NEW r \in Requests, NEW a \in Addrs, NEW proxy \in BOOLEAN, PostConnect(r, a, proxy),
             UNCHANGED deviceVars
      PROVE  Peers'
  <2>1. enrolled' = enrolled /\ job' = job /\ sound' = sound
    BY <1>2 DEF PostConnect, deviceVars
  <2>2. serverFile' = serverFile \/ (serverFile.is = "absent" /\ serverFile' = Json({}))
    BY <1>2 DEF PostConnect
  <2>3. serverFile'.has = serverFile.has /\ (serverFile'.is # "json" => serverFile'.has = {})
    BY <2>2 DEF Peers, Json
  <2>4. \A s \in Requests : at'[s] = "loaded" =>
          (at[s] = "loaded" /\ loaded'[s] = loaded[s]) \/ loaded'[s] = serverFile.has
    <3>1. \/ at' = [at EXCEPT ![r] = "done"] /\ loaded' = loaded
          \/ at' = [at EXCEPT ![r] = "loaded"] /\ loaded' = [loaded EXCEPT ![r] = serverFile.has]
      BY <1>2 DEF PostConnect
    <3> QED
      BY <3>1 DEF GuiTypes
  <2> QED
    BY <2>1, <2>3, <2>4 DEF Peers
<1>3. ASSUME NEW r \in Requests, Authorize(r), Turn, UNCHANGED deviceVars
      PROVE  Peers'
  <2>1. /\ at[r] = "loaded" /\ UNCHANGED <<job, sound, loaded>>
        /\ at' = [at EXCEPT ![r] = "starting"] \/ at' = [at EXCEPT ![r] = "replacing"]
        /\ \/ UNCHANGED <<serverFile, enrolled>>
           \/ serverFile' = Json(loaded[r] \cup {GuiKey}) /\ enrolled' = enrolled \cup {GuiKey}
    BY <1>3 DEF Authorize, deviceVars, disk
  <2>2. \A s \in Requests : at'[s] # "loaded"
    <3>1. \A s \in Requests : s # r => at[s] # "loaded"
      BY <2>1 DEF Handlers, Running
    <3> QED
      BY <2>1, <3>1 DEF GuiTypes
  <2>3. ASSUME sound, NEW p \in Procs
        PROVE  job[p].stage # "save"
    <3>1. job[Gui] = Devices!Idle /\ Gui \in up
      BY <1>3 DEF Turn
    <3>2. job[Cli] = Devices!Idle
      BY <1>0, <2>3, <3>1 DEF Presence, DeviceTypes
    <3> QED
      BY <3>1, <3>2 DEF Procs, Devices!Idle
  <2>4. sound => enrolled \subseteq loaded[r]
    BY <2>1 DEF Peers
  <2> QED
    BY <2>1, <2>2, <2>3, <2>4 DEF Peers, Json
<1>4. ASSUME NEW r \in Requests, UNCHANGED <<serverFile, enrolled, job, sound>>,
             NEW stage, stage # "loaded", at' = [at EXCEPT ![r] = stage],
             loaded' = loaded \/ loaded' = [loaded EXCEPT ![r] = {}]
      PROVE  Peers'
  <2>1. \A s \in Requests : at'[s] = "loaded" => at[s] = "loaded" /\ loaded'[s] = loaded[s]
    BY <1>4 DEF GuiTypes
  <2> QED
    BY <1>1, <1>4, <2>1
<1>5. ASSUME NEW r \in Requests, Tunnel(r) \/ TunnelStep(r)
      PROVE  Peers'
  <2>1. UNCHANGED deviceVars /\ Turn
    BY <1>5 DEF Tunnel, TunnelStep
  <2>2. UNCHANGED <<job, sound>>
    BY <2>1 DEF deviceVars
  <2>3. CASE \/ PostDisconnect(r) \/ ServerStarted(r) \/ Replace(r) \/ Create(r) \/ Stopped(r)
    <3>1. UNCHANGED <<serverFile, enrolled>>
      BY <2>3 DEF PostDisconnect, ServerStarted, Replace, Create, Stopped, disk
    <3>2. loaded' = loaded \/ loaded' = [loaded EXCEPT ![r] = {}]
      BY <2>3 DEF PostDisconnect, ServerStarted, Replace, Create, Stopped
    <3>3. \E stage : stage # "loaded" /\ at' = [at EXCEPT ![r] = stage]
      BY <2>3 DEF PostDisconnect, ServerStarted, Replace, Create, Stopped, Drop
    <3> QED
      BY <1>4, <2>2, <3>1, <3>2, <3>3
  <2>4. CASE ClientStep(r)
    BY <1>1, <2>2, <2>4, ClientAlone
  <2> QED
    BY <1>2, <1>3, <1>5, <2>1, <2>3, <2>4 DEF Tunnel, TunnelStep
<1>6. ASSUME NEW p \in Procs, Devices!SavePeers(p), UNCHANGED guiOnly
      PROVE  Peers'
  <2>1. PICK j \in Jobs : j = job[p]
    BY DEF DeviceTypes
  <2>2. /\ j.stage = "save" /\ job' = [job EXCEPT ![p] = Devices!Idle]
        /\ serverFile' = Devices!Json(j.peers \cup {j.profile.key})
        /\ enrolled' = enrolled \cup {j.profile.key} /\ sound' = sound
        /\ UNCHANGED <<at, loaded>>
    BY <1>6, <2>1 DEF Devices!SavePeers, guiOnly
  <2>3. p \in up /\ job[p] # Devices!Idle
    BY <2>1, <2>2 DEF DeviceTypes, Devices!Idle
  <2>4. sound => \A r \in Requests : at[r] # "loaded"
    <3>1. CASE p = Gui
      BY <2>3, <3>1 DEF Presence, LoopFree, Running
    <3>2. CASE p = Cli
      BY <1>0, <2>3, <3>2 DEF Presence, Quiet
    <3> QED
      BY <3>1, <3>2 DEF Procs
  <2>5. sound => \A q \in Procs : job'[q].stage # "save"
    <3>1. sound => \A q \in Procs : q # p => job[q] = Devices!Idle
      BY <2>3 DEF Presence, DeviceTypes
    <3> QED
      BY <2>2, <3>1 DEF DeviceTypes, Devices!Idle
  <2>6. sound => enrolled \subseteq j.peers
    BY <2>1, <2>2 DEF Peers
  <2> QED
    BY <2>2, <2>4, <2>5, <2>6 DEF Peers, Devices!Json
<1>7. ASSUME NEW p \in Procs, NEW j, job' = [job EXCEPT ![p] = j],
             j.stage = "save" => serverFile.is = "json" /\ j.peers = serverFile.has,
             UNCHANGED guiOnly, UNCHANGED <<serverFile, enrolled>>, sound' => sound
      PROVE  Peers'
  <2>1. job'[p] = j /\ \A q \in Procs : q # p => job'[q] = job[q]
    BY <1>7 DEF DeviceTypes
  <2> QED
    BY <1>7, <2>1 DEF Peers, guiOnly
<1>8. ASSUME NEW p \in Procs, AskForProfile(p) \/ SaveProfile(p)
      PROVE  Peers'
  <2>1. UNCHANGED guiOnly
    BY <1>8 DEF AskForProfile, SaveProfile
  <2>2. PICK o \in Jobs : o = job[p]
    BY DEF DeviceTypes
  <2>3. CASE Devices!Ask(p)
    <3>1. \/ \E q : job' = [job EXCEPT ![p] = [stage |-> "write", profile |-> q, peers |-> {}]]
          \/ job' = [job EXCEPT ![p] = [o EXCEPT !.stage = "write"]]
      BY <2>2, <2>3 DEF Devices!Ask, Devices!CreateProfile, Devices!DeleteProfile, Devices!UpdateUsage
    <3>2. PICK j : job' = [job EXCEPT ![p] = j] /\ j.stage = "write"
      <4>1. CASE \E q : job' = [job EXCEPT ![p] = [stage |-> "write", profile |-> q, peers |-> {}]]
        <5>1. PICK q : job' = [job EXCEPT ![p] = [stage |-> "write", profile |-> q, peers |-> {}]]
          BY <4>1
        <5>2. PICK i : i = [stage |-> "write", profile |-> q, peers |-> {}]
          OBVIOUS
        <5>3. i.stage = "write"
          BY <5>2
        <5>4. job' = [job EXCEPT ![p] = i]
          BY <5>1, <5>2
        <5> QED
          BY <5>3, <5>4
      <4>2. CASE job' = [job EXCEPT ![p] = [o EXCEPT !.stage = "write"]]
        <5>1. PICK i : i = [o EXCEPT !.stage = "write"]
          OBVIOUS
        <5>2. i.stage = "write"
          BY <5>1 DEF Jobs
        <5> QED
          BY <4>2, <5>1, <5>2
      <4> QED
        BY <3>1, <4>1, <4>2
    <3>3. UNCHANGED <<serverFile, enrolled, sound>>
      BY <2>3 DEF Devices!Ask, Devices!CreateProfile, Devices!DeleteProfile, Devices!UpdateUsage,
                  Devices!files, Devices!history
    <3> QED
      BY <1>7, <2>1, <3>2, <3>3
  <2>4. CASE Devices!SaveProfiles(p) \/ Devices!SaveFails(p)
    <3>1. job' = [job EXCEPT ![p] = IF o.profile = Devices!NoProfile THEN Devices!Idle
                                    ELSE [o EXCEPT !.stage = "read"]]
      BY <2>2, <2>4 DEF Devices!SaveProfiles, Devices!SaveFails
    <3>2. PICK j : job' = [job EXCEPT ![p] = j] /\ j.stage # "save"
      <4>1. PICK i : i = IF o.profile = Devices!NoProfile THEN Devices!Idle
                         ELSE [o EXCEPT !.stage = "read"]
        OBVIOUS
      <4>2. i.stage # "save"
        BY <4>1 DEF Jobs, Devices!Idle
      <4> QED
        BY <3>1, <4>1, <4>2
    <3>3. UNCHANGED <<serverFile, enrolled>> /\ (sound' => sound)
      BY <2>4 DEF Devices!SaveProfiles, Devices!SaveFails, Devices!history
    <3> QED
      BY <1>7, <2>1, <3>2, <3>3
  <2>5. CASE Devices!ReadPeers(p)
    <3>1. UNCHANGED <<serverFile, enrolled, sound>>
      BY <2>5 DEF Devices!ReadPeers, Devices!files
    <3>2. CASE serverFile.is # "json"
      <4>1. job' = [job EXCEPT ![p] = Devices!Idle] /\ Devices!Idle.stage # "save"
        BY <2>5, <3>2 DEF Devices!ReadPeers, Devices!Idle
      <4> QED
        BY <1>7, <2>1, <3>1, <4>1
    <3>3. CASE serverFile.is = "json"
      <4>1. job' = [job EXCEPT ![p].stage = "save", ![p].peers = serverFile.has]
        BY <2>5, <3>3 DEF Devices!ReadPeers
      <4>2. PICK peers \in SUBSET Nat : peers = serverFile.has
        BY DEF DeviceTypes
      <4>3. PICK j : j = [o EXCEPT !.stage = "save", !.peers = peers]
        OBVIOUS
      <4>4. j.peers = serverFile.has
        BY <4>2, <4>3 DEF Jobs
      <4>5. job' = [job EXCEPT ![p] = j]
        BY <2>2, <4>1, <4>2, <4>3 DEF DeviceTypes
      <4> QED
        BY <1>7, <2>1, <3>1, <3>3, <4>4, <4>5
    <3> QED
      BY <3>2, <3>3
  <2>6. CASE Devices!SavePeers(p)
    BY <1>6, <2>1, <2>6
  <2> QED
    BY <1>8, <2>3, <2>4, <2>5, <2>6 DEF AskForProfile, SaveProfile, Devices!Work
<1>9. CASE LaunchGui \/ LaunchCli
  <2>1. UNCHANGED <<serverFile, enrolled, job, at, loaded>> /\ (sound' => sound)
    BY <1>9 DEF LaunchGui, LaunchCli, Devices!Launch, Devices!files, guiOnly
  <2> QED
    BY <1>1, <2>1
<1>10. CASE QuitGui \/ QuitCli
  <2>1. PICK p \in Procs : Devices!Quit(p, Saving) \/ Devices!Quit(p, FALSE)
    BY <1>0, <1>10 DEF QuitGui, QuitCli
  <2>2. /\ enrolled' = enrolled /\ job' = [job EXCEPT ![p] = Devices!Idle]
        /\ serverFile' = serverFile \/ (serverFile' = Devices!Torn /\ ~sound')
        /\ sound' => sound
    BY <2>1 DEF Devices!Quit, Devices!Tear, Devices!files
  <2>3. \A q \in Procs : job'[q].stage = "save" => job'[q] = job[q]
    BY <2>2 DEF DeviceTypes, Devices!Idle
  <2>4. \A r \in Requests : at'[r] = "loaded" => at[r] = "loaded" /\ loaded'[r] = loaded[r]
    BY <1>10 DEF QuitGui, QuitCli, ProcessEnds, guiOnly
  <2> QED
    BY <1>1, <2>2, <2>3, <2>4
<1>11. CASE Split \/ Tick
  <2>1. UNCHANGED <<serverFile, enrolled, job, at, loaded, sound>>
    BY <1>11 DEF Split, Tick, disk, guiVars, guiOnly, deviceVars
  <2> QED
    BY <1>1, <2>1
<1> QED
  BY <1>5, <1>8, <1>9, <1>10, <1>11 DEF Next, Procs

\* The profile that is made next has an id of its own, and the next number.
LEMMA PutNumbered ==
  ASSUME NEW S \in SUBSET Devices!Profile, IsFiniteSet(S), Numbered(S), NEW q \in Devices!Profile,
         q.id[2] = Cardinality(S) + 1, q.vip = Cardinality(S) + 2
  PROVE  Devices!Put(S, q) = S \cup {q} /\ Numbered(S \cup {q})
<1>1. Cardinality(S) \in Nat
  BY FS_CardinalityType
<1>2. \A r \in S : r.id[2] \in 1..Cardinality(S) /\ r.vip = r.id[2] + 1
  BY DEF Numbered
<1>3. \A r \in S : r.id[2] # q.id[2]
  BY <1>1, <1>2
<1>4. q \notin S /\ \A r \in S : r.id # q.id
  BY <1>3
<1>5. Devices!Put(S, q) = S \cup {q}
  BY <1>4 DEF Devices!Put
<1>6. Cardinality(S \cup {q}) = Cardinality(S) + 1
  BY <1>4, FS_AddElement
<1>7. \A r \in S \cup {q} : r.id[2] \in 1..Cardinality(S \cup {q}) /\ r.vip = r.id[2] + 1
  BY <1>1, <1>2, <1>6
<1>8. \A r, s \in S \cup {q} : r.id[2] = s.id[2] => r = s
  BY <1>3 DEF Numbered
<1> QED
  BY <1>5, <1>7, <1>8 DEF Numbered

\* Every step keeps the profiles that were promised.
LEMMA PromisesStep ==
  ASSUME DeviceTypes, Presence, Promises, Next
  PROVE  Promises'
<1> USE DEF Devices!files, Devices!history
<1> DEFINE Knows(f, m, j) ==
      /\ f \subseteq m
      /\ j.stage = "write" /\ j.profile # Devices!NoProfile => j.profile \in m
      /\ j.stage \in {"read", "save"} => j.profile \in f
<1>0. Gui \in Procs /\ Cli \in Procs
  BY DEF Procs
<1>1. sound' /\ ~deleted' => sound /\ ~deleted
  <2>1. ASSUME NEW p, AskForProfile(p) \/ SaveProfile(p)
        PROVE  sound' /\ ~deleted' => sound /\ ~deleted
    BY <2>1 DEF AskForProfile, SaveProfile, Devices!Ask, Devices!Work, Devices!CreateProfile,
                Devices!DeleteProfile, Devices!UpdateUsage, Devices!SaveProfiles,
                Devices!SaveFails, Devices!ReadPeers, Devices!SavePeers
  <2>2. CASE LaunchGui \/ LaunchCli
    BY <2>2 DEF LaunchGui, LaunchCli, Devices!Launch
  <2>3. CASE QuitGui \/ QuitCli
    BY <2>3 DEF QuitGui, QuitCli, Devices!Quit, Devices!Tear
  <2>4. ASSUME NEW r, Tunnel(r) \/ TunnelStep(r) \/ Split \/ Tick
        PROVE  UNCHANGED <<sound, deleted>>
    BY <2>4 DEF Tunnel, TunnelStep, Split, Tick, deviceVars
  <2> QED
    BY <2>1, <2>2, <2>3, <2>4 DEF Next
<1>2. SUFFICES ASSUME sound', ~deleted'
      PROVE  /\ Numbered(profilesFile'.has) /\ promised' \subseteq profilesFile'.has
             /\ \A p \in up' : Numbered(memory'[p]) /\ Knows(profilesFile'.has, memory'[p], job'[p])
  BY DEF Promises, Numbered
<1>3. /\ Numbered(profilesFile.has) /\ promised \subseteq profilesFile.has
      /\ \A p \in up : Numbered(memory[p]) /\ Knows(profilesFile.has, memory[p], job[p])
      /\ sound /\ ~deleted /\ \A p, q \in up : p = q
  BY <1>1, <1>2 DEF Promises, Presence
<1> HIDE DEF Knows
<1>4. ASSUME UNCHANGED <<profilesFile, promised>>, up' \subseteq up,
             \A p \in up' : memory'[p] = memory[p] /\ job'[p] = job[p]
      PROVE  /\ Numbered(profilesFile'.has) /\ promised' \subseteq profilesFile'.has
             /\ \A p \in up' : Numbered(memory'[p]) /\ Knows(profilesFile'.has, memory'[p], job'[p])
  BY <1>3, <1>4
<1>5. ASSUME NEW p \in Procs, Devices!Launch(p)
      PROVE  /\ Numbered(profilesFile'.has) /\ promised' \subseteq profilesFile'.has
             /\ \A q \in up' : Numbered(memory'[q]) /\ Knows(profilesFile'.has, memory'[q], job'[q])
  <2>1. up' = {p} /\ memory'[p] = profilesFile.has /\ UNCHANGED <<profilesFile, promised, job>>
    BY <1>2, <1>5 DEF Devices!Launch, DeviceTypes
  <2>2. job'[p] = Devices!Idle
    BY <1>5, <2>1 DEF Devices!Launch, DeviceTypes
  <2>3. Knows(profilesFile.has, profilesFile.has, Devices!Idle)
    BY DEF Knows, Devices!Idle
  <2> QED
    BY <1>3, <2>1, <2>2, <2>3
<1>6. ASSUME NEW p \in Procs, NEW saving, Devices!Quit(p, saving)
      PROVE  /\ Numbered(profilesFile'.has) /\ promised' \subseteq profilesFile'.has
             /\ \A q \in up' : Numbered(memory'[q]) /\ Knows(profilesFile'.has, memory'[q], job'[q])
  <2>1. UNCHANGED <<profilesFile, promised>> /\ up' = up \ {p}
    BY <1>2, <1>6 DEF Devices!Quit, Devices!Tear
  <2>2. \A q \in up' : memory'[q] = memory[q] /\ job'[q] = job[q]
    BY <1>6, <2>1 DEF Devices!Quit, DeviceTypes
  <2> QED
    BY <1>4, <2>1, <2>2
<1>7. ASSUME NEW p \in Procs, AskForProfile(p) \/ SaveProfile(p)
      PROVE  /\ Numbered(profilesFile'.has) /\ promised' \subseteq profilesFile'.has
             /\ \A q \in up' : Numbered(memory'[q]) /\ Knows(profilesFile'.has, memory'[q], job'[q])
  <2>1. PICK j \in Jobs, m \in SUBSET Devices!Profile :
          /\ j = job[p] /\ m = memory[p] /\ IsFiniteSet(m)
          /\ j.stage \in {"read", "save"} => j.profile \in Devices!Profile
    BY DEF DeviceTypes
  <2>2. p \in up /\ up' = up
    <3>1. up' = up
      BY <1>7 DEF AskForProfile, SaveProfile, Devices!Ask, Devices!Work, Devices!CreateProfile,
                  Devices!DeleteProfile, Devices!UpdateUsage, Devices!SaveProfiles,
                  Devices!SaveFails, Devices!ReadPeers, Devices!SavePeers
    <3>2. AskForProfile(p) => p \in up
      BY DEF AskForProfile, Devices!Ask, Devices!CreateProfile, Devices!DeleteProfile,
             Devices!UpdateUsage
    <3>3. SaveProfile(p) => job[p] # Devices!Idle
      BY DEF SaveProfile, Devices!Work, Devices!SaveProfiles, Devices!SaveFails,
             Devices!ReadPeers, Devices!SavePeers, Devices!Idle
    <3> QED
      BY <1>7, <3>1, <3>2, <3>3 DEF DeviceTypes
  <2>3. \A q \in up' : q = p
    BY <1>3, <2>2
  <2>4. Numbered(m) /\ Knows(profilesFile.has, m, j)
    BY <1>3, <2>1, <2>2
  <2>5. SUFFICES /\ Numbered(profilesFile'.has) /\ promised' \subseteq profilesFile'.has
                 /\ Numbered(memory'[p]) /\ Knows(profilesFile'.has, memory'[p], job'[p])
    BY <2>3
  <2>6. CASE Devices!CreateProfile(p)
    <3>1. second' \in Nat /\ made < MaxProfiles
      BY <2>6 DEF Devices!CreateProfile, DeviceTypes
    <3>2. PICK q \in Devices!Profile : q = Devices!NewProfile(p, second')
      BY <3>1, NewOne
    <3>3. q.id[2] = Cardinality(m) + 1 /\ q.vip = Cardinality(m) + 2
      BY <2>1, <3>2, SameCount DEF Devices!NewProfile
    <3>4. PICK n : n = Devices!Put(m, q)
      OBVIOUS
    <3>5. n = m \cup {q} /\ Numbered(n)
      <4>1. m \in SUBSET Devices!Profile /\ IsFiniteSet(m) /\ Numbered(m)
        BY <2>1, <2>4
      <4>2. Devices!Put(m, q) = m \cup {q} /\ Numbered(m \cup {q})
        BY <3>3, <4>1, PutNumbered
      <4> QED
        BY <3>4, <4>2
    <3>6. PICK i : i = [stage |-> "write", profile |-> q, peers |-> {}]
      OBVIOUS
    <3>7. i.stage = "write" /\ i.profile = q
      BY <3>6
    <3>8. memory' = [memory EXCEPT ![p] = n] /\ job' = [job EXCEPT ![p] = i]
      BY <2>1, <2>6, <3>2, <3>4, <3>6 DEF Devices!CreateProfile, DeviceTypes
    <3>9. memory'[p] = n /\ job'[p] = i
      BY <3>8 DEF DeviceTypes
    <3>10. UNCHANGED <<profilesFile, promised>>
      BY <2>6 DEF Devices!CreateProfile
    <3>11. Knows(profilesFile.has, n, i)
      BY <2>4, <3>5, <3>7 DEF Knows
    <3> QED
      BY <1>3, <3>5, <3>9, <3>10, <3>11
  <2>7. CASE Devices!UpdateUsage(p)
    <3>1. j = Devices!Idle /\ UNCHANGED <<memory, profilesFile, promised>>
      BY <2>1, <2>7 DEF Devices!UpdateUsage
    <3>2. job' = [job EXCEPT ![p] = [j EXCEPT !.stage = "write"]]
      BY <2>1, <2>7 DEF Devices!UpdateUsage
    <3>3. PICK i : i = [j EXCEPT !.stage = "write"]
      OBVIOUS
    <3>4. i.stage = "write" /\ i.profile = Devices!NoProfile
      BY <3>1, <3>3 DEF Devices!Idle
    <3>5. job'[p] = i
      BY <3>2, <3>3 DEF DeviceTypes
    <3>6. Knows(profilesFile.has, m, i)
      BY <2>4, <3>4 DEF Knows
    <3> QED
      BY <1>3, <2>1, <2>4, <3>1, <3>5, <3>6
  <2>8. CASE Devices!SaveProfiles(p)
    <3>1. /\ j.stage = "write" /\ UNCHANGED <<memory, promised>> /\ profilesFile' = Devices!Json(m)
          /\ job' = [job EXCEPT ![p] = IF j.profile = Devices!NoProfile THEN Devices!Idle
                                       ELSE [j EXCEPT !.stage = "read"]]
      BY <2>1, <2>8 DEF Devices!SaveProfiles
    <3>2. PICK i : i = IF j.profile = Devices!NoProfile THEN Devices!Idle
                       ELSE [j EXCEPT !.stage = "read"]
      OBVIOUS
    <3>3. job'[p] = i
      BY <3>1, <3>2 DEF DeviceTypes
    <3>4. i.stage = "idle" \/ (i.stage = "read" /\ i.profile = j.profile
                                 /\ j.profile # Devices!NoProfile)
      BY <3>2 DEF Devices!Idle, Jobs
    <3>5. profilesFile'.has = m
      BY <3>1 DEF Devices!Json
    <3>6. Knows(m, m, i)
      BY <2>4, <3>1, <3>4 DEF Knows
    <3>7. promised' \subseteq m
      BY <1>3, <2>4, <3>1 DEF Knows
    <3> QED
      BY <2>1, <2>4, <3>1, <3>3, <3>5, <3>6, <3>7
  <2>9. CASE Devices!ReadPeers(p) \/ Devices!SavePeers(p)
    <3>1. /\ j.stage \in {"read", "save"} /\ UNCHANGED <<memory, profilesFile>>
          /\ promised' = promised \/ promised' = promised \cup {j.profile}
      BY <2>1, <2>9 DEF Devices!ReadPeers, Devices!SavePeers, Devices!Return
    <3>2. \/ job' = [job EXCEPT ![p] = Devices!Idle]
          \/ job' = [job EXCEPT ![p].stage = "save", ![p].peers = serverFile.has]
      BY <2>9 DEF Devices!ReadPeers, Devices!SavePeers
    <3>3. j.profile \in profilesFile.has
      BY <2>4, <3>1 DEF Knows
    <3>4. Knows(profilesFile.has, m, job'[p])
      <4>1. CASE job' = [job EXCEPT ![p] = Devices!Idle]
        <5>1. job'[p] = Devices!Idle
          BY <4>1 DEF DeviceTypes
        <5> QED
          BY <2>4, <5>1 DEF Knows, Devices!Idle
      <4>2. CASE job' = [job EXCEPT ![p].stage = "save", ![p].peers = serverFile.has]
        <5>1. PICK peers \in SUBSET Nat : peers = serverFile.has
          BY DEF DeviceTypes
        <5>2. PICK i : i = [j EXCEPT !.stage = "save", !.peers = peers]
          OBVIOUS
        <5>3. i.stage = "save" /\ i.profile = j.profile
          BY <5>2 DEF Jobs
        <5>4. job'[p] = i
          BY <2>1, <4>2, <5>1, <5>2 DEF DeviceTypes
        <5> QED
          BY <2>4, <3>3, <5>3, <5>4 DEF Knows
      <4> QED
        BY <3>2, <4>1, <4>2
    <3> QED
      BY <1>3, <2>1, <2>4, <3>1, <3>3, <3>4
  <2>10. ~Devices!SaveFails(p)
    BY <1>2 DEF Devices!SaveFails
  <2>11. \A q \in memory[p] : ~Devices!DeleteProfile(p, q)
    BY <1>2 DEF Devices!DeleteProfile
  <2> QED
    BY <1>7, <2>6, <2>7, <2>8, <2>9, <2>10, <2>11
       DEF AskForProfile, SaveProfile, Devices!Ask, Devices!Work
<1>8. ASSUME UNCHANGED <<up, memory, profilesFile, job, promised>>
      PROVE  /\ Numbered(profilesFile'.has) /\ promised' \subseteq profilesFile'.has
             /\ \A p \in up' : Numbered(memory'[p]) /\ Knows(profilesFile'.has, memory'[p], job'[p])
  BY <1>4, <1>8
<1>9. ASSUME NEW r, Tunnel(r) \/ TunnelStep(r) \/ Split \/ Tick
      PROVE  UNCHANGED <<up, memory, profilesFile, job, promised>>
  BY <1>9 DEF Tunnel, TunnelStep, Split, Tick, deviceVars
<1>10. CASE LaunchGui \/ LaunchCli
  BY <1>0, <1>5, <1>10 DEF LaunchGui, LaunchCli
<1>11. CASE QuitGui \/ QuitCli
  BY <1>0, <1>6, <1>11 DEF QuitGui, QuitCli
<1> QED
  BY <1>7, <1>8, <1>9, <1>10, <1>11 DEF Next, Procs

------------------------------------------------------------------------------------
(* The theorems *)

\* Nothing is kept and nothing runs before the first process starts.
LEMMA Initially == Init => Inv
<1> SUFFICES ASSUME Init PROVE Inv
  OBVIOUS
<1> USE DEF Init, GuiInit, Nobody
<1>1. GuiTypes
  <2>1. NoClient \in Client /\ NoServer \in [running : BOOLEAN, starts : Nat, addr : LocalAddrs \cup {Nowhere}]
    BY DEF NoClient, NoServer, Client
  <2>2. /\ requests \in 0..MaxRequests /\ losses \in 0..MaxLosses
        /\ at \in [Requests -> {"unused", "loaded", "starting", "replacing", "stopping", "creating",
                                "done"}]
        /\ asks \in [Requests -> Addrs \cup {Nowhere}]
        /\ config \in [addr : Addrs \cup {Nowhere}, proxy : BOOLEAN]
        /\ loaded \in [Requests -> SUBSET Nat]
        /\ victim \in [Requests -> {Nobody} \cup Requests]
    OBVIOUS
  <2> QED
    BY <2>1, <2>2 DEF GuiTypes
<1>2. DeviceTypes
  <2>1. IsFiniteSet({}) /\ Devices!Idle \in Jobs /\ Devices!Idle.stage = "idle"
    BY FS_EmptySet DEF Devices!Idle, Jobs, Devices!Stages
  <2>2. /\ serverFile \in [is : {"json", "absent", "torn"}, has : SUBSET Nat]
        /\ profilesFile \in [is : {"json", "absent", "torn"}, has : SUBSET Devices!Profile]
        /\ profilesFile.has = {}
    BY DEF Devices!Init, Devices!Absent, Devices!Json
  <2>3. job \in [Procs -> Jobs] /\ \A p \in Procs : job[p] = Devices!Idle /\ memory[p] = {}
    BY <2>1 DEF Devices!Init, Procs
  <2>4. memory \in [Procs -> SUBSET Devices!Profile]
    BY DEF Devices!Init, Procs
  <2>5. /\ made \in 0..MaxProfiles /\ second \in Nat /\ launches \in 0..MaxLaunches
        /\ faults \in 0..MaxFaults /\ served \in 0..MaxServed
    BY DEF Devices!Init
  <2>6. /\ up = {} /\ promised = {} /\ enrolled = {} /\ sound \in BOOLEAN /\ deleted \in BOOLEAN
    BY DEF Devices!Init
  <2> QED
    BY <2>1, <2>2, <2>3, <2>4, <2>5, <2>6 DEF DeviceTypes
<1>3. RouterInv
  BY DEF RouterInv, Router!Init, Router!TypeOK, Router!Rules, Router!Defaults, Router!Absent
<1>4. Handlers
  BY DEF Handlers, NoServer, Running
<1>5. Presence
  BY DEF Presence, Devices!Init, LoopFree, Running, Quiet, NoClient
<1>6. OnTrack
  BY DEF OnTrack, Tracked, OnMachine, NoClient, Starting, ClientShape
<1>7. Peers
  BY DEF Peers, Devices!Init, Devices!Absent, Devices!Json, Devices!Idle, Procs
<1>8. Promises
  BY DEF Promises, Devices!Init, Devices!Absent, Numbered
<1> QED
  BY <1>1, <1>2, <1>3, <1>4, <1>5, <1>6, <1>7, <1>8 DEF Inv

\* The invariant of the program holds of all its states.
LEMMA Invariance == Spec => []Inv
<1>1. Inv /\ [Next]_vars => Inv'
  <2> SUFFICES ASSUME Inv, [Next]_vars PROVE Inv'
    OBVIOUS
  <2>1. CASE Next
    BY <2>1, GuiTypesStep, DeviceTypesStep, RouterStep, HandlersStep, PresenceStep, OnTrackStep,
       PeersStep, PromisesStep DEF Inv
  <2>2. CASE UNCHANGED vars
    <3> USE <2>2 DEF vars, guiVars, deviceVars, routerVars
    <3>1. GuiTypes' /\ DeviceTypes'
      BY DEF Inv, GuiTypes, DeviceTypes, Client
    <3>2. RouterInv'
      BY DEF Inv, RouterInv, Router!TypeOK, Router!Scanned, Router!ShouldRoute
    <3>3. Handlers' /\ Presence'
      BY DEF Inv, Handlers, Presence, Quiet, LoopFree
    <3>4. OnTrack'
      BY DEF Inv, OnTrack, Tracked, OnMachine, Starting, ClientShape
    <3>5. Peers' /\ Promises'
      BY DEF Inv, Peers, Promises, Numbered
    <3> QED
      BY <3>1, <3>2, <3>3, <3>4, <3>5 DEF Inv
  <2> QED
    BY <2>1, <2>2
<1> QED
  BY Initially, <1>1, PTL DEF Spec

\* The variables of the GUI, of the profiles and of the split tunnel have their types, and
\* nothing of the GUI is left when its process has ended.
THEOREM TypeCorrect == Spec => []TypeOK
<1>1. Inv => TypeOK
  <2> SUFFICES ASSUME Inv PROVE TypeOK
    OBVIOUS
  <2>1. GuiTypeOK
    BY DEF Inv, GuiTypes, Handlers, GuiTypeOK, Client
  <2>2. Devices!TypeOK
    BY DEF Inv, DeviceTypes, Devices!TypeOK, Jobs, Procs
  <2> QED
    BY <2>1, <2>2 DEF Inv, DeviceTypes, RouterInv, Presence, TypeOK
<1> QED
  BY <1>1, Invariance, PTL

\* When all is quiet, an open gateway, the rules of the kill switch and the system proxy are
\* those of the active client, which is connected, unless the handlers lost track of one.
THEOREM NothingStays == Spec => []NothingOrphaned
<1>1. Inv => NothingOrphaned
  <2> SUFFICES ASSUME Inv, Quiet, ~overlapped, ~stranded
               PROVE  /\ \A c \in Requests : clients[c].gateway = "open" \/ clients[c].shield =>
                            c = active /\ clients[c].state = "CONNECTED"
                      /\ blocked => active # Nobody /\ clients[active].shield
                      /\ systemProxy => active # Nobody /\ clients[active].gateway = "open"
    BY DEF NothingOrphaned
  <2>1. Tracked /\ OnMachine
    BY DEF Inv, OnTrack
  <2>2. \A r \in Requests : at[r] # "stopping"
    BY DEF Quiet
  <2>3. ASSUME NEW c \in Requests, clients[c].gateway = "open" \/ clients[c].shield
        PROVE  c = active /\ clients[c].state = "CONNECTED"
    <3>1. clients[c].task \in {"none", "done"}
      BY DEF Quiet
    <3>2. clients[c].gateway = "open"
      BY <2>1, <2>2, <2>3, <3>1 DEF OnMachine
    <3>3. c = active
      BY <2>1, <3>2 DEF Tracked, Starting
    <3>4. clients[c].state = "CONNECTED"
      BY <2>1, <3>1, <3>2 DEF OnMachine, ClientShape
    <3> QED
      BY <3>3, <3>4
  <2> QED
    BY <2>1, <2>3 DEF OnMachine
<1> QED
  BY <1>1, Invariance, PTL

\* Handlers that overlap at the awaits of start() never start two embedded servers.
THEOREM OneServer == Spec => []OneEmbeddedServer
<1>1. Inv => OneEmbeddedServer
  BY DEF Inv, Handlers, OneEmbeddedServer
<1> QED
  BY <1>1, Invariance, PTL

\* As long as one process at a time writes server.json and no write is cut off, no key that
\* was saved in it is dropped, whether a request to connect or a new profile writes it.
THEOREM PeersStay == Spec => []PeersKept
<1>1. Inv => PeersKept
  BY DEF Inv, Peers, PeersKept, Devices!PeersKept
<1> QED
  BY <1>1, Invariance, PTL

\* Under the same condition, and as long as none is deleted, the profiles the user was given
\* stay in the file through any restarts, under ids and addresses of their own.
THEOREM DevicesStay == Spec => []DevicesKept
<1>1. Inv => DevicesKept
  <2> SUFFICES ASSUME Inv, sound, ~deleted
               PROVE  /\ promised \subseteq profilesFile.has
                      /\ \A q, r \in promised : q # r => q.id # r.id /\ q.vip # r.vip
    BY DEF DevicesKept, Devices!DevicesKept
  <2>1. promised \subseteq profilesFile.has /\ Numbered(profilesFile.has)
    BY DEF Inv, Promises
  <2>2. ASSUME NEW q \in promised, NEW r \in promised, q # r
        PROVE  q.id # r.id /\ q.vip # r.vip
    <3>1. q.id[2] # r.id[2] /\ q.vip = q.id[2] + 1 /\ r.vip = r.id[2] + 1
      BY <2>1, <2>2 DEF Numbered
    <3>2. q.id[2] \in Nat /\ r.id[2] \in Nat
      BY DEF Inv, DeviceTypes, Devices!Profile
    <3> QED
      BY <3>1, <3>2
  <2> QED
    BY <2>1, <2>2
<1> QED
  BY <1>1, Invariance, PTL

\* Once the rules have stood for _scan_ttl, what is listed as tunnelled is what they say.
THEOREM ListingHolds == Spec => []ListingSettles
<1>1. Inv => ListingSettles
  BY DEF Inv, RouterInv, Router!TypeOK, ListingSettles, Router!ListingSettles
<1> QED
  BY <1>1, Invariance, PTL
====================================================================================
