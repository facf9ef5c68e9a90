---------------------------------- MODULE Server ----------------------------------
(***************************************************************************)
(* The session tables of ShinVPNServer, src/shinvpn/server/server.py: how  *)
(* handshakes, frames, WebSocket disconnects, the janitor and stop() move  *)
(* sessions in and out of sessions_by_id, sessions_by_addr,                *)
(* sessions_by_vip and the pool of virtual addresses.                      *)
(*                                                                         *)
(* A client makes one connection attempt per session id (create_initiation *)
(* draws a new one; equal draws of two attempts are left out).  What makes *)
(* a packet belong to an attempt is the session id it carries; the address *)
(* it comes from is the datagram's or the WebSocket's, and nothing ties    *)
(* the two: a HandshakeInit may be repeated from any address.  Packets are *)
(* handled by tasks that the event loop runs in the order they were        *)
(* created; a WebSocket disconnect is handled at once, so it overtakes     *)
(* packets of its own connection that still wait as tasks.                 *)
(***************************************************************************)
EXTENDS Integers, Sequences

CONSTANTS
    Attempts,     \* connection attempts, each with its own session id
    Addrs,        \* source addresses (ip, port)
    EnableStealth,\* config.enable_stealth
    Peers,        \* the clients in config.allowed_peers
    NewPeers,     \* the clients authorize_peer may be called for
    FirstHost, LastHost, ServerHost, NoLease, NoPreference,  \* the pool, see IPPool
    NoSession,    \* a table has no entry
    MaxHandshakes,\* bound: HandshakeInits that reach the server
    MaxTasks      \* bound: packets waiting as tasks

ASSUME StealthAssumption == EnableStealth \in BOOLEAN
ASSUME PeersAssumption == Peers \subseteq Attempts /\ NewPeers \subseteq Attempts
ASSUME SubnetAssumption ==
    /\ FirstHost \in Nat /\ LastHost \in Nat
    /\ 0 < FirstHost /\ FirstHost <= LastHost
    /\ ServerHost \in FirstHost..LastHost
    /\ NoLease \notin Int /\ NoLease \notin Attempts
    /\ NoPreference \notin Int
ASSUME NoSessionAssumption ==
    /\ NoSession \notin Attempts
    /\ NoSession \notin [sid : Attempts, addr : Addrs, vip : Int, serial : Nat]
ASSUME BoundsAssumption == MaxHandshakes \in Nat /\ MaxTasks \in Nat

VARIABLES
    serverState,  \* "running", "stopping" (stop() awaits the WebSocket server), "stopped"
    allowed,      \* the clients in allowed_pub_keys
    handshakes,   \* how many HandshakeInits reached the server (MaxHandshakes)
    sockets,      \* the addresses of the open WebSockets
    tasks,        \* packets waiting in _process_inbound_packet tasks
    byId,         \* sessions_by_id
    byAddr,       \* sessions_by_addr
    byVip,        \* sessions_by_vip
    allocated,    \* ip_pool._allocated
    stale,        \* the sessions whose last_seen is more than 60 seconds ago
    serials,      \* how many ClientSession objects were made for each session id
    moved         \* history: the attempts whose live session was replaced from elsewhere

clientVars == <<handshakes, sockets>>
tableVars == <<byId, byAddr, byVip, allocated>>
vars == <<serverState, allowed, handshakes, sockets, tasks,
          byId, byAddr, byVip, allocated, stale, serials, moved>>

Pool == INSTANCE IPPool WITH Sessions <- Attempts

Vips == Pool!Hosts \ Pool!Reserved

\* A ClientSession; serial tells apart the objects made for one session id.
Session == [sid : Attempts, addr : Addrs, vip : Vips, serial : Nat]

Kinds == {"INIT", "DISCONNECT", "OTHER"}

\* A packet and where it came from; only a HandshakeInit's address is ever used.
Packet == [kind : Kinds, from : Attempts, addr : Addrs]

----------------------------------------------------------------------------------
(* Closing sessions *)

\* Variants that the properties must reject: the address table or the pool is forgotten;
\* a replaced session leaves its successor in the tables but returns its address.
CloseKeepsAddr(closed) ==
    /\ byId' = [a \in Attempts |-> IF \E s \in closed : s.sid = a THEN NoSession ELSE byId[a]]
    /\ byVip' = [v \in Vips |-> IF \E s \in closed : s.vip = v THEN NoSession ELSE byVip[v]]
    /\ Pool!Release({s.sid : s \in closed})
    /\ stale' = stale \ {s.sid : s \in closed}
    /\ UNCHANGED byAddr
CloseOnlyItself(closed) ==
    /\ byId' = [a \in Attempts |-> IF byId[a] \in closed THEN NoSession ELSE byId[a]]
    /\ byAddr' = [x \in Addrs |-> IF byAddr[x] \in closed THEN NoSession ELSE byAddr[x]]
    /\ byVip' = [v \in Vips |-> IF byVip[v] \in closed THEN NoSession ELSE byVip[v]]
    /\ Pool!Release({s.sid : s \in closed})
    /\ stale' = {a \in stale : byId[a] \notin closed}
CloseKeepsLease(closed) ==
    /\ byId' = [a \in Attempts |-> IF \E s \in closed : s.sid = a THEN NoSession ELSE byId[a]]
    /\ byAddr' = [x \in Addrs |-> IF \E s \in closed : s.addr = x THEN NoSession ELSE byAddr[x]]
    /\ byVip' = [v \in Vips |-> IF \E s \in closed : s.vip = v THEN NoSession ELSE byVip[v]]
    /\ stale' = stale \ {s.sid : s \in closed}
    /\ UNCHANGED allocated

\* _close_session for every session of a set.  It removes what it finds under the
\* session's keys, whether or not that is this session.
CloseSessions(closed) ==
    /\ byId' = [a \in Attempts |-> IF \E s \in closed : s.sid = a THEN NoSession ELSE byId[a]]
    /\ byAddr' = [x \in Addrs |-> IF \E s \in closed : s.addr = x THEN NoSession ELSE byAddr[x]]
    /\ byVip' = [v \in Vips |-> IF \E s \in closed : s.vip = v THEN NoSession ELSE byVip[v]]
    /\ Pool!Release({s.sid : s \in closed})
    /\ stale' = stale \ {s.sid : s \in closed}

LiveSessions == {byId[a] : a \in Attempts} \ {NoSession}

----------------------------------------------------------------------------------
(* The clients and the network *)

\* A WebSocket opens; its address is that of its TCP connection.
SocketOpened(x) ==
    /\ EnableStealth
    /\ serverState = "running"
    /\ x \notin sockets
    /\ sockets' = sockets \cup {x}
    /\ UNCHANGED <<serverState, allowed, handshakes, tasks, tableVars, stale, serials, moved>>

\* A packet with the session id of attempt a reaches the server from address x and becomes
\* a task: a datagram, which UDP may lose, repeat and deliver late, or a message of an open
\* WebSocket.  A client sends other frames once the server answered its HandshakeInit.
Arrive(a, kind, x) ==
    /\ serverState = "running" \/ (serverState = "stopping" /\ x \in sockets)
    /\ IF kind = "INIT"
       THEN handshakes < MaxHandshakes /\ handshakes' = handshakes + 1
       ELSE serials[a] > 0 /\ UNCHANGED handshakes
    /\ Len(tasks) < MaxTasks
    /\ tasks' = Append(tasks, [kind |-> kind, from |-> a, addr |-> x])
    /\ UNCHANGED <<serverState, allowed, sockets, tableVars, stale, serials, moved>>

\* _handle_stealth_disconnect closes the session found under the address, if any.
StealthDisconnect(x) ==
    IF byAddr[x] = NoSession THEN UNCHANGED <<tableVars, stale>>
    ELSE CloseSessions({byAddr[x]})

\* A WebSocket closes, and the handler of its connection reports that.
SocketClosed(x) ==
    /\ x \in sockets
    /\ sockets' = sockets \ {x}
    /\ StealthDisconnect(x)
    /\ UNCHANGED <<serverState, allowed, handshakes, tasks, serials, moved>>

----------------------------------------------------------------------------------
(* The server's tasks: _process_inbound_packet, for the packet of the oldest task *)

Received(kind) ==
    /\ tasks # <<>>
    /\ Head(tasks).kind = kind
    /\ tasks' = Tail(tasks)

\* process_initiation accepts the client's key.
Permitted(a) == allowed = {} \/ a \in allowed

\* The new ClientSession replaces what the three tables hold under its keys.  The session
\* it replaces stays where it is under an address that is not among them.
Register(a, x) ==
    LET vip == Pool!Lease(a, NoPreference)
        session == [sid |-> a, addr |-> x, vip |-> vip, serial |-> serials[a] + 1]
    IN  /\ serials' = [serials EXCEPT ![a] = @ + 1]
        /\ byId' = [byId EXCEPT ![a] = session]
        /\ byAddr' = [byAddr EXCEPT ![x] = session]
        /\ byVip' = [byVip EXCEPT ![vip] = session]
        /\ moved' = IF byId[a] # NoSession /\ byId[a].addr # x THEN moved \cup {a} ELSE moved

\* Variant: allocate answers with no address where it should raise.
HandshakeInitExhausted ==
    LET a == Head(tasks).from IN
    /\ Received("INIT")
    /\ Permitted(a)
    /\ Pool!Allocate(a, NoPreference)
    /\ Register(a, Head(tasks).addr)
    /\ stale' = stale \ {a}
    /\ UNCHANGED <<serverState, allowed, clientVars>>

\* _handle_handshake_init of an accepted HandshakeInit, from wherever it comes; a repeated
\* one included, since nothing recognises it.
HandshakeInit ==
    LET a == Head(tasks).from IN
    /\ Received("INIT")
    /\ Permitted(a)
    /\ Pool!Lease(a, NoPreference) # NoLease
    /\ Pool!Allocate(a, NoPreference)
    /\ Register(a, Head(tasks).addr)
    /\ stale' = stale \ {a}
    /\ UNCHANGED <<serverState, allowed, clientVars>>

\* process_initiation or allocate raised: the exception is logged and nothing changes.
HandshakeFailed ==
    LET a == Head(tasks).from IN
    /\ Received("INIT")
    /\ ~Permitted(a) \/ Pool!Lease(a, NoPreference) = NoLease
    /\ UNCHANGED <<serverState, allowed, clientVars, tableVars, stale, serials, moved>>

\* Any other frame marks its session as seen, before it is authenticated; Disconnect
\* closes it.  A frame of an unknown session is dropped.
Frame ==
    /\ Received("OTHER")
    /\ stale' = stale \ {Head(tasks).from}
    /\ UNCHANGED <<serverState, allowed, clientVars, tableVars, serials, moved>>

Disconnect ==
    LET session == byId[Head(tasks).from] IN
    /\ Received("DISCONNECT")
    /\ IF session = NoSession THEN UNCHANGED <<tableVars, stale>>
       ELSE CloseSessions({session})
    /\ UNCHANGED <<serverState, allowed, clientVars, serials, moved>>

RunTask == HandshakeInit \/ HandshakeFailed \/ Frame \/ Disconnect

----------------------------------------------------------------------------------
(* Time, administration and the end *)

\* More than 60 seconds pass without a packet of session a.
GoStale(a) ==
    /\ byId[a] # NoSession
    /\ a \notin stale
    /\ stale' = stale \cup {a}
    /\ UNCHANGED <<serverState, allowed, clientVars, tasks, tableVars, serials, moved>>

\* Variant: the janitor looks for silent sessions in sessions_by_addr.
JanitorByAddr ==
    LET silent == {s \in {byAddr[x] : x \in Addrs} \ {NoSession} : s.sid \in stale} IN
    /\ serverState = "running"
    /\ silent # {}
    /\ CloseSessions(silent)
    /\ UNCHANGED <<serverState, allowed, clientVars, tasks, serials, moved>>

\* One round of _session_janitor that finds something to do.
Janitor ==
    /\ serverState = "running"
    /\ stale # {}
    /\ CloseSessions({byId[a] : a \in stale})
    /\ UNCHANGED <<serverState, allowed, clientVars, tasks, serials, moved>>

\* authorize_peer
Authorize(a) ==
    /\ serverState = "running"
    /\ a \in NewPeers \ allowed
    /\ allowed' = allowed \cup {a}
    /\ UNCHANGED <<serverState, clientVars, tasks, tableVars, stale, serials, moved>>

\* stop() up to its first await: with stealth enabled it waits for the WebSocket server,
\* without it closes every session in the same step.
StopBegin ==
    /\ serverState = "running"
    /\ IF EnableStealth
       THEN serverState' = "stopping" /\ UNCHANGED <<tableVars, stale>>
       ELSE serverState' = "stopped" /\ CloseSessions(LiveSessions)
    /\ UNCHANGED <<allowed, clientVars, tasks, serials, moved>>

\* Variant: stop() does not wait for the WebSocket server.
StopFinishEarly ==
    /\ serverState = "stopping"
    /\ serverState' = "stopped"
    /\ CloseSessions(LiveSessions)
    /\ UNCHANGED <<allowed, clientVars, tasks, serials, moved>>

\* The WebSocket server is closed: its connections are gone, and the tasks made before
\* ran before stop() goes on.
StopFinish ==
    /\ serverState = "stopping"
    /\ sockets = {}
    /\ tasks = <<>>
    /\ serverState' = "stopped"
    /\ CloseSessions(LiveSessions)
    /\ UNCHANGED <<allowed, clientVars, tasks, serials, moved>>

----------------------------------------------------------------------------------
(* The specification *)

Init ==
    /\ serverState = "running"
    /\ allowed = Peers
    /\ handshakes = 0
    /\ sockets = {}
    /\ tasks = <<>>
    /\ byId = [a \in Attempts |-> NoSession]
    /\ byAddr = [x \in Addrs |-> NoSession]
    /\ byVip = [v \in Vips |-> NoSession]
    /\ Pool!Init
    /\ stale = {}
    /\ serials = [a \in Attempts |-> 0]
    /\ moved = {}

Next ==
    \/ \E a \in Attempts :
        \/ GoStale(a) \/ Authorize(a)
        \/ \E kind \in Kinds, x \in Addrs : Arrive(a, kind, x)
    \/ \E x \in Addrs : SocketOpened(x) \/ SocketClosed(x)
    \/ RunTask
    \/ Janitor
    \/ StopBegin
    \/ StopFinish

Spec == Init /\ [][Next]_vars

\* The packets of an attempt come to an end: its client is gone, or cannot be heard.
FallsSilent(a) == ~[]<><<\E kind \in Kinds, x \in Addrs : Arrive(a, kind, x)>>_vars

\* The event loop runs its tasks and the janitor, and the clock goes on for a client that
\* fell silent; while stop() waits, the WebSocket server closes its connections.  Nothing
\* is assumed of the clients.
Fairness ==
    /\ WF_vars(RunTask)
    /\ WF_vars(Janitor)
    /\ WF_vars(StopFinish)
    /\ \A a \in Attempts : FallsSilent(a) => WF_vars(GoStale(a))
    /\ \A x \in Addrs : WF_vars(serverState = "stopping" /\ SocketClosed(x))

FairSpec == Spec /\ Fairness

----------------------------------------------------------------------------------
(* Properties *)

TypeOK ==
    /\ serverState \in {"running", "stopping", "stopped"}
    /\ allowed \subseteq Attempts
    /\ handshakes \in 0..MaxHandshakes
    /\ sockets \subseteq Addrs
    /\ tasks \in Seq(Packet)
    /\ byId \in [Attempts -> Session \cup {NoSession}]
    /\ byAddr \in [Addrs -> Session \cup {NoSession}]
    /\ byVip \in [Vips -> Session \cup {NoSession}]
    /\ allocated \in [Attempts -> Vips \cup {NoLease}]
    /\ stale \subseteq {a \in Attempts : byId[a] # NoSession}
    /\ serials \in [Attempts -> Nat]
    /\ moved \subseteq Attempts

\* The sessions and the pool describe the same leases, and no leased address leads to a
\* session that is not its holder's (server.py updates sessions_by_id, sessions_by_vip and
\* the pool in five places: handshake, disconnect frame, WebSocket disconnect, janitor,
\* stop).  It holds whatever addresses handshakes are repeated from: a disconnect at the
\* old address closes the successor, and may take another client's entry out of
\* sessions_by_vip, but it never leaves a session without its lease or a lease that
\* another session is found under.
TablesAgree ==
    /\ \A a \in Attempts :
        IF byId[a] = NoSession THEN allocated[a] = NoLease
        ELSE /\ byId[a].sid = a
             /\ byId[a].vip = allocated[a]
             /\ byVip[allocated[a]] \in {NoSession, byId[a]}
    /\ \A x \in Addrs : byAddr[x] # NoSession => byAddr[x].addr = x
    /\ \A v \in Vips : byVip[v] # NoSession => byVip[v].vip = v

\* No closed or replaced session can be reached through an address, and every session can
\* be reached through its virtual address, as long as no live session is replaced by a
\* handshake from another address.  After such a handshake the old entry stays in
\* sessions_by_addr (server.py:269-271 only adds), so that the session ids it happened to
\* are exempt, and they only: what it leaves behind never passes to another id.
AddrsAreLive ==
    /\ \A x \in Addrs : byAddr[x] # NoSession /\ byAddr[x].sid \notin moved =>
        byAddr[x] = byId[byAddr[x].sid]
    /\ \A v \in Vips : byVip[v] # NoSession /\ byVip[v].sid \notin moved =>
        byVip[v] = byId[byVip[v].sid]
    /\ moved = {} => \A a \in Attempts : byId[a] # NoSession => byVip[byId[a].vip] = byId[a]

\* A session keeps its virtual address as long as it lives, through repeated handshakes
\* (the client was told the address once and never asks again).
VipIsStable ==
    [][\A a \in Attempts : byId[a] # NoSession /\ byId'[a] # NoSession =>
        byId'[a].vip = byId[a].vip]_vars

\* "Gracefully stops server daemon" (server.py, stop): when stop() is done no session is
\* left and every address is back in the pool, although handshakes went on while it
\* waited for the WebSocket server.
StopClosesEverything ==
    EnableStealth /\ serverState = "stopped" =>
        /\ LiveSessions = {}
        /\ \A a \in Attempts : allocated[a] = NoLease
        /\ tasks = <<>>

\* The attempt whose live session was told a virtual address.
HolderOf(v) ==
    LET told == {a \in Attempts : byId[a] # NoSession /\ byId[a].vip = v}
    IN  IF told = {} THEN NoSession ELSE CHOOSE a \in told : TRUE

\* Read through sessions_by_id, virtual addresses are leased as LeasePool promises: no
\* client is told an address that a live session was told, whichever session a disconnect
\* closes in place of another.
Leases == INSTANCE LeasePool WITH
    Holders <- Attempts, Addresses <- Vips, Free <- NoSession,
    holder <- [v \in Vips |-> HolderOf(v)]
TablesImplementLeases == Leases!Spec

\* A client that falls silent holds no session and no address for ever, although UDP never
\* says that it left, a disconnect may overtake the handshake it should undo, and another
\* client may use its address.
GoneIsForgotten ==
    \A a \in Attempts :
        FallsSilent(a) => <>[](byId[a] = NoSession /\ allocated[a] = NoLease)
==================================================================================
