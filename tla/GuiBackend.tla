------------------------------- MODULE GuiBackend --------------------------------
(***************************************************************************)
(* The handlers of POST /api/connect and /api/disconnect of                *)
(* src/shinvpn/gui/gui_app.py, which share _active_client, _active_server  *)
(* and _client_config and let each other run at their awaits; the client   *)
(* objects they make and drop, each with its task of connect; the embedded *)
(* server; and what the clients change on a Windows machine.  Client       *)
(* details one client object; here it is cut down to what another object   *)
(* can meet: its gateway has the port, its kill switch the rules, its      *)
(* transport is UDP.                                                       *)
(*                                                                         *)
(* The client that request r makes is client r.  The kill switch is on.    *)
(* An address is a host with its port; only local ones are served by the   *)
(* embedded server.                                                        *)
(***************************************************************************)
EXTENDS Naturals, FiniteSets, JsonFiles

CONSTANTS
    LocalAddrs, RemoteAddrs, \* where a request may connect to
    Nowhere,                 \* no address
    MaxRequests,             \* bound: requests to connect or disconnect
    MaxLosses                \* bound: transports that break

ASSUME GuiBackendAssumption ==
    /\ MaxRequests \in Nat \ {0} /\ MaxLosses \in Nat
    /\ LocalAddrs \cap RemoteAddrs = {} /\ Nowhere \notin LocalAddrs \cup RemoteAddrs

VARIABLES
    requests,    \* requests so far (MaxRequests)
    at,          \* where the handler of each request is
    asks,        \* the address each request was accepted for, or Nowhere
    loaded,      \* the peers each handler read from server.json
    victim,      \* the client each handler disconnects, or Nobody
    config,      \* _client_config: server_host with the port, enable_system_proxy
    active,      \* _active_client, or Nobody
    clients,     \* the client objects
    blocked,     \* the rules of a kill switch are in the firewall
    systemProxy, \* the system proxy points at the port of the gateway
    embedded,    \* _active_server: is_running, starts so far, the address it has bound
    daemon,      \* where a server of another process listens, or Nowhere
    serverFile,  \* server.json: the keys it allows
    enrolled,    \* history: the keys that were saved in server.json
    losses,      \* transports broken so far (MaxLosses)
    overlapped,  \* history: a client was dropped while it started, or by two handlers
    stranded     \* history: the system proxy was left by a disconnect, or by the process

handlers == <<requests, at, asks, loaded, victim, config, active>>
machine == <<clients, blocked, systemProxy>>
disk == <<serverFile, enrolled>>
history == <<overlapped, stranded>>
guiVars == <<requests, at, asks, loaded, victim, config, active, clients, blocked, systemProxy,
             embedded, daemon, serverFile, enrolled, losses, overlapped, stranded>>

Requests == 1..MaxRequests
Nobody == 0
Addrs == LocalAddrs \cup RemoteAddrs

\* The key of client.json.  The keys of profiles are 1, 2, ...
GuiKey == 0

\* Between these stages and the next one a handler runs without an await.
Running == {"loaded", "replacing", "creating"}
LoopFree == \A r \in Requests : at[r] \notin Running

NoClient == [state |-> "DISCONNECTED", running |-> FALSE, task |-> "none", peer |-> Nowhere,
             gateway |-> "none", shield |-> FALSE]
NoServer == [running |-> FALSE, starts |-> 0, addr |-> Nowhere]

PortBusy == \E c \in Requests : clients[c].gateway \in {"starting", "open", "leaked"}
Listening(a) == a \in RemoteAddrs \/ a = daemon \/ a = embedded.addr

----------------------------------------------------------------------------------
(* ShinVPNClient.disconnect *)

\* Up to the await of the gateway's wait_closed, and after it.
Shut(k) == [k EXCEPT !.running = FALSE, !.peer = Nowhere,
                     !.gateway = IF @ = "open" THEN "closed" ELSE @]
Settled(k) == [k EXCEPT !.shield = FALSE, !.state = "DISCONNECTED"]

\* A gateway that was never bound is not waited for.
Waits(k) == IF k.gateway \in {"open", "closed"} THEN BOOLEAN ELSE {FALSE}

\* Client c, which is k by now, is disconnected, waiting for its gateway or not.  netsh
\* deletes the rules of every kill switch.  The switch of the system proxy is that of
\* _client_config now.
Disconnect(c, k, waiting) ==
    /\ clients' = [clients EXCEPT ![c] = IF waiting THEN Shut(k) ELSE Settled(Shut(k))]
    /\ blocked' = (blocked /\ (waiting \/ ~k.shield))
    /\ systemProxy' = (systemProxy /\ ~config.proxy)
    /\ stranded' = (stranded \/ systemProxy')

Settle(c, k) ==
    /\ clients' = [clients EXCEPT ![c] = Settled(k)]
    /\ blocked' = (blocked /\ ~k.shield)
    /\ UNCHANGED <<systemProxy, stranded>>

----------------------------------------------------------------------------------
(* post_connect *)

Arrive(r) == r = requests + 1 /\ r \in Requests /\ requests' = r /\ LoopFree

\* A connected client is kept.  Otherwise the shared configuration is changed, and
\* server.json is made or read; when it cannot be parsed the answer is the error.
PostConnect(r, a, proxy) ==
    /\ Arrive(r)
    /\ IF active # Nobody /\ clients[active].state = "CONNECTED"
       THEN /\ at' = [at EXCEPT ![r] = "done"]
            /\ UNCHANGED <<config, asks, loaded, serverFile>>
       ELSE /\ config' = [addr |-> a, proxy |-> proxy]
            /\ serverFile' = IF serverFile.is = "absent" THEN Json({}) ELSE serverFile
            /\ IF serverFile.is = "torn"
               THEN at' = [at EXCEPT ![r] = "done"] /\ UNCHANGED <<asks, loaded>>
               ELSE /\ at' = [at EXCEPT ![r] = "loaded"]
                    /\ asks' = [asks EXCEPT ![r] = a]
                    /\ loaded' = [loaded EXCEPT ![r] = serverFile.has]
    /\ UNCHANGED <<victim, active, machine, embedded, daemon, enrolled, losses, history>>

\* Variant: the server counts as running when it is bound.
AuthorizeLate(r) ==
    /\ at[r] = "loaded"
    /\ IF GuiKey \in loaded[r]
       THEN UNCHANGED disk
       ELSE serverFile' = Json(loaded[r] \cup {GuiKey}) /\ enrolled' = enrolled \cup {GuiKey}
    /\ IF asks[r] \in LocalAddrs /\ ~embedded.running
       THEN /\ embedded' = [embedded EXCEPT !.running = embedded.addr # Nowhere, !.starts = @ + 1]
            /\ at' = [at EXCEPT ![r] = "starting"]
       ELSE at' = [at EXCEPT ![r] = "replacing"] /\ UNCHANGED embedded
    /\ UNCHANGED <<requests, asks, loaded, victim, config, active, machine, daemon, losses,
                   history>>

\* The own key is added to server.json, and the embedded server is started for a local
\* address unless there is one: start() sets is_running before its first await.
\* authorize_peer only adds the own key to the server that runs, which has it.
Authorize(r) ==
    /\ at[r] = "loaded"
    /\ IF GuiKey \in loaded[r]
       THEN UNCHANGED disk
       ELSE serverFile' = Json(loaded[r] \cup {GuiKey}) /\ enrolled' = enrolled \cup {GuiKey}
    /\ IF asks[r] \in LocalAddrs /\ ~embedded.running
       THEN /\ embedded' = [embedded EXCEPT !.running = TRUE, !.starts = @ + 1]
            /\ at' = [at EXCEPT ![r] = "starting"]
       ELSE at' = [at EXCEPT ![r] = "replacing"] /\ UNCHANGED embedded
    /\ UNCHANGED <<requests, asks, loaded, victim, config, active, machine, daemon, losses,
                   history>>

\* Variant: server.json is saved again, with the port of the request.
ServerStartedSaves(r) ==
    /\ at[r] = "starting" /\ LoopFree
    /\ embedded' = [embedded EXCEPT !.addr = IF asks[r] = daemon THEN @ ELSE asks[r]]
    /\ at' = [at EXCEPT ![r] = "replacing"]
    /\ serverFile' = Json(loaded[r] \cup {GuiKey})
    /\ UNCHANGED <<requests, asks, loaded, victim, config, active, machine, daemon, enrolled, losses,
                   history>>

\* start() returns, or raises OSError when a daemon has the port: taken for a daemon that
\* can be used, and is_running stays set.
ServerStarted(r) ==
    /\ at[r] = "starting" /\ LoopFree
    /\ embedded' = [embedded EXCEPT !.addr = IF asks[r] = daemon THEN @ ELSE asks[r]]
    /\ at' = [at EXCEPT ![r] = "replacing"]
    /\ UNCHANGED <<requests, asks, loaded, victim, config, active, machine, daemon, disk, losses,
                   history>>

\* Another handler waits for the same client, or the client is about to start.
Overlap ==
    overlapped' = (overlapped \/ (\E r \in Requests : at[r] = "stopping")
                              \/ clients[active].task \in {"created", "starting"})

\* Handler r disconnects the active client, and goes on to stage next.
Drop(r, next) ==
    /\ Overlap
    /\ \E waiting \in Waits(clients[active]) :
        /\ Disconnect(active, clients[active], waiting)
        /\ at' = [at EXCEPT ![r] = IF waiting THEN "stopping" ELSE next]
        /\ victim' = [victim EXCEPT ![r] = IF waiting THEN active ELSE Nobody]

\* Variant: the old client is left to itself.
ReplaceForgets(r) ==
    /\ at[r] = "replacing"
    /\ at' = [at EXCEPT ![r] = "creating"]
    /\ loaded' = [loaded EXCEPT ![r] = {}]
    /\ UNCHANGED <<requests, asks, victim, config, active, machine, embedded, daemon, disk, losses,
                   history>>

Replace(r) ==
    /\ at[r] = "replacing"
    /\ IF active # Nobody
       THEN Drop(r, "creating")
       ELSE at' = [at EXCEPT ![r] = "creating"] /\ UNCHANGED <<machine, victim, history>>
    /\ loaded' = [loaded EXCEPT ![r] = {}]
    /\ UNCHANGED <<requests, asks, config, active, embedded, daemon, disk, losses>>

Create(r) ==
    /\ at[r] = "creating"
    /\ active' = r
    /\ clients' = [clients EXCEPT ![r].task = "created"]
    /\ at' = [at EXCEPT ![r] = "done"]
    /\ UNCHANGED <<requests, asks, loaded, victim, config, blocked, systemProxy, embedded, daemon,
                   disk, losses, history>>

----------------------------------------------------------------------------------
(* post_disconnect *)

PostDisconnect(r) ==
    /\ Arrive(r)
    /\ IF active # Nobody
       THEN /\ Drop(r, "done")
            /\ active' = IF at'[r] = "done" THEN Nobody ELSE active
       ELSE at' = [at EXCEPT ![r] = "done"] /\ UNCHANGED <<active, machine, victim, history>>
    /\ UNCHANGED <<asks, loaded, config, embedded, daemon, disk, losses>>

\* The gateway of the victim is closed: both handlers set _active_client to None, whatever
\* it is by now.
Stopped(r) ==
    /\ at[r] = "stopping" /\ LoopFree
    /\ Settle(victim[r], clients[victim[r]])
    /\ victim' = [victim EXCEPT ![r] = Nobody]
    /\ active' = Nobody
    /\ at' = [at EXCEPT ![r] = IF asks[r] = Nowhere THEN "done" ELSE "creating"]
    /\ UNCHANGED <<requests, asks, loaded, config, embedded, daemon, disk, losses, overlapped>>

----------------------------------------------------------------------------------
(* The task of a client: connect, and the reconnect after a loss *)

TaskStep(c, task) == LoopFree /\ clients[c].task = task
Becomes(c, k) == clients' = [clients EXCEPT ![c] = k]
Elsewhere == UNCHANGED <<handlers, embedded, daemon, disk>>

\* The beginning of connect, which reads the shared configuration.
Entered(k) == [k EXCEPT !.state = "CONNECTING", !.running = TRUE, !.task = "waiting",
                        !.peer = config.addr]

Enter(c) ==
    /\ TaskStep(c, "created")
    /\ Becomes(c, Entered(clients[c]))
    /\ UNCHANGED <<blocked, systemProxy, losses, history>> /\ Elsewhere

\* The exception handler of connect, for client c, which is k by now.
Fail(c, k) ==
    /\ \E waiting \in Waits(k) :
        Disconnect(c, [k EXCEPT !.state = "ERROR", !.task = IF waiting THEN "stopping" ELSE "done"],
                   waiting)
    /\ UNCHANGED <<losses, overlapped>> /\ Elsewhere

\* The handshake succeeds, as long as nobody closed the socket, and the gateway is bound.
\* The port may be that of the gateway this client had before it lost its transport, which
\* nobody refers to any more.
Authenticated(c) ==
    /\ TaskStep(c, "waiting")
    /\ clients[c].running /\ Listening(clients[c].peer)
    /\ IF PortBusy
       THEN Fail(c, [clients[c] EXCEPT !.gateway = IF @ = "open" THEN "leaked" ELSE @])
       ELSE /\ Becomes(c, [clients[c] EXCEPT !.gateway = "starting", !.task = "starting",
                                              !.peer = Nowhere])
            /\ UNCHANGED <<blocked, systemProxy, losses, history>> /\ Elsewhere

TimedOut(c) == TaskStep(c, "waiting") /\ Fail(c, clients[c])

\* start() of the gateway returns, whatever happened to the client during its await.
Started(c) ==
    /\ TaskStep(c, "starting")
    /\ Becomes(c, [clients[c] EXCEPT !.gateway = "open", !.shield = TRUE, !.state = "CONNECTED",
                                     !.task = "done"])
    /\ systemProxy' = (systemProxy \/ config.proxy)
    /\ blocked' = TRUE
    /\ UNCHANGED <<losses, history>> /\ Elsewhere

TaskStopped(c) ==
    /\ TaskStep(c, "stopping")
    /\ Settle(c, [clients[c] EXCEPT !.task = "done"])
    /\ UNCHANGED <<losses, overlapped>> /\ Elsewhere

\* The transport breaks once the client is connected; before that, see Client.
Lose(c) ==
    /\ TaskStep(c, "done")
    /\ clients[c].running /\ clients[c].state = "CONNECTED"
    /\ losses < MaxLosses
    /\ losses' = losses + 1
    /\ Becomes(c, [clients[c] EXCEPT !.state = "RECONNECTING", !.task = "sleeping"])
    /\ UNCHANGED <<blocked, systemProxy, history>> /\ Elsewhere

Wake(c) ==
    /\ TaskStep(c, "sleeping")
    /\ Becomes(c, IF clients[c].running THEN Entered(clients[c])
                  ELSE [clients[c] EXCEPT !.task = "done"])
    /\ UNCHANGED <<blocked, systemProxy, losses, history>> /\ Elsewhere

----------------------------------------------------------------------------------
(* The process *)

\* The window is closed: the thread of the handlers ends with the process, nothing is
\* called, and what the clients changed on the machine stays.
ProcessEnds ==
    /\ at' = [r \in Requests |-> IF at[r] = "unused" THEN "unused" ELSE "done"]
    /\ asks' = [r \in Requests |-> Nowhere]
    /\ loaded' = [r \in Requests |-> {}]
    /\ victim' = [r \in Requests |-> Nobody]
    /\ active' = Nobody
    /\ clients' = [c \in Requests |-> NoClient]
    /\ embedded' = NoServer
    /\ stranded' = (stranded \/ blocked \/ systemProxy)
    /\ UNCHANGED <<requests, config, blocked, systemProxy, daemon, losses, overlapped>>

\* A handler is about to write server.json.
Saving == \E r \in Requests : at[r] = "loaded"

GuiInit ==
    /\ requests = 0
    /\ at = [r \in Requests |-> "unused"]
    /\ asks = [r \in Requests |-> Nowhere]
    /\ loaded = [r \in Requests |-> {}]
    /\ victim = [r \in Requests |-> Nobody]
    /\ config = [addr |-> Nowhere, proxy |-> TRUE]
    /\ active = Nobody
    /\ clients = [c \in Requests |-> NoClient]
    /\ blocked = FALSE /\ systemProxy = FALSE
    /\ embedded = NoServer
    /\ daemon \in LocalAddrs \cup {Nowhere}
    /\ losses = 0
    /\ overlapped = FALSE /\ stranded = FALSE

Handle(r) ==
    \/ \E a \in Addrs, proxy \in BOOLEAN : PostConnect(r, a, proxy)
    \/ PostDisconnect(r)
    \/ Authorize(r) \/ ServerStarted(r) \/ Replace(r) \/ Create(r) \/ Stopped(r)

ClientStep(c) ==
    \/ Enter(c) \/ Authenticated(c) \/ TimedOut(c) \/ Started(c) \/ TaskStopped(c)
    \/ Lose(c) \/ Wake(c)

----------------------------------------------------------------------------------
(* Properties *)

GuiTypeOK ==
    /\ requests \in 0..MaxRequests
    /\ at \in [Requests -> {"unused", "loaded", "starting", "replacing", "stopping", "creating",
                            "done"}]
    /\ asks \in [Requests -> Addrs \cup {Nowhere}]
    /\ \A r \in Requests : loaded[r] \subseteq Nat
    /\ victim \in [Requests -> {Nobody} \cup Requests]
    /\ config \in [addr : Addrs \cup {Nowhere}, proxy : BOOLEAN]
    /\ active \in {Nobody} \cup Requests
    /\ clients \in [Requests ->
          [state : {"DISCONNECTED", "CONNECTING", "CONNECTED", "RECONNECTING", "ERROR"},
           running : BOOLEAN,
           task : {"none", "created", "waiting", "starting", "stopping", "sleeping", "done"},
           peer : Addrs \cup {Nowhere},
           gateway : {"none", "starting", "open", "closed", "leaked"}, shield : BOOLEAN]]
    /\ blocked \in BOOLEAN /\ systemProxy \in BOOLEAN
    /\ embedded \in [running : BOOLEAN, starts : Nat, addr : LocalAddrs \cup {Nowhere}]
    /\ daemon \in LocalAddrs \cup {Nowhere}
    /\ losses \in 0..MaxLosses
    /\ overlapped \in BOOLEAN /\ stranded \in BOOLEAN
    /\ \A r \in Requests : at[r] = "stopping" => victim[r] # Nobody

\* Nothing of the GUI process is about to run.
Quiet ==
    /\ \A r \in Requests : at[r] \in {"unused", "done"}
    /\ \A c \in Requests : clients[c].task \in {"none", "done"}

\* Whatever requests to connect, to replace and to disconnect were served, and however the
\* clients failed, lost their transport or reconnected: when all is quiet, an open gateway,
\* the rules of a kill switch and the system proxy are those of the active client, which is
\* connected.  Exempt are a client that was dropped while it started (overlapped), a request
\* that changed enable_system_proxy under a connected client and the end of the process,
\* which undoes nothing (stranded), and the gateway a reconnect leaks.  That the active
\* client keeps what it set up is not claimed: a client it replaced, which times out later,
\* switches the system proxy off.
NothingOrphaned ==
    Quiet /\ ~overlapped /\ ~stranded =>
        /\ \A c \in Requests : clients[c].gateway = "open" \/ clients[c].shield =>
               c = active /\ clients[c].state = "CONNECTED"
        /\ blocked => active # Nobody /\ clients[active].shield
        /\ systemProxy => active # Nobody /\ clients[active].gateway = "open"

\* Handlers that overlap at the awaits of start() never start two embedded servers.
OneEmbeddedServer ==
    /\ embedded.starts <= 1
    /\ embedded.addr # Nowhere => embedded.running

\* "If targeting localhost or 127.0.0.1, ensure embedded server daemon is running"
\* (gui_app.py): when a request for a local address is through, and all is quiet, a server
\* listens there.
ServedWhenAnswered ==
    Quiet => \A r \in Requests : at[r] = "done" /\ asks[r] \in LocalAddrs => Listening(asks[r])
==================================================================================
