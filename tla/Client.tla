---------------------------------- MODULE Client ----------------------------------
(***************************************************************************)
(* ShinVPNClient, src/shinvpn/client/client.py: the coroutines             *)
(* connect, disconnect and _reconnect, which share the fields of one       *)
(* object and stop at their awaits, the packets and the loss of the        *)
(* transport that run between them, and what they change on the machine:   *)
(* the system proxy, the firewall rules of the kill switch and the port of *)
(* the local proxy gateway.  enable_system_proxy and enable_killswitch are *)
(* on; the DNS shield is switched where the kill switch is.  The system    *)
(* proxy exists on Windows only, and what a KillSwitch removes depends on  *)
(* the platform: netsh deletes every rule of a name, iptables one of each. *)
(*                                                                         *)
(* Every call of connect has a number, and the objects it makes (socket,   *)
(* HandshakeState with its future, gateway, KillSwitch) carry that number. *)
(* A socket is that of UDP or a WebSocket; the client keeps the latter     *)
(* from the moment it begins to connect, waits for it when it closes it,   *)
(* and is not told when it ends.                                           *)
(* A field that refers to one holds the number, 0 for None.                *)
(***************************************************************************)
EXTENDS Integers

CONSTANTS
    MaxCalls,       \* bound: calls of connect, those of _reconnect included
    MaxDisconnects, \* bound: calls of disconnect by the user
    MaxLosses       \* bound: sockets that break

ASSUME BoundsAssumption ==
    MaxCalls \in Nat \ {0} /\ MaxDisconnects \in Nat /\ MaxLosses \in Nat

VARIABLES
    state,       \* telemetry.state
    running,     \* _running
    pc,          \* where each call of connect is; 0 is the user's call of disconnect
    link,        \* udp_transport, or stealth_client
    handshake,   \* handshake and _handshake_future, which change together
    cipher,      \* tx_cipher and rx_cipher
    proxy,       \* proxy_tunnel
    killswitch,  \* killswitch
    conn,        \* the socket of each call: "none", "open", "closed"
    via,         \* the socket through which the HandshakeInit of each call went, or Nobody
    future,      \* the future of each call: "none", "pending", "ok", "failed"
    completed,   \* the handshakes that have keys
    gateway,     \* the gateway of each call: "none", "starting", "open", "closed"
    engaged,     \* the KillSwitch objects with is_active
    blocked,     \* rules of a kill switch are in the firewall
    systemProxy, \* the system proxy points at the gateway
    os,          \* platform.system(): "Windows" or "Linux"
    transport,   \* config.transport_type: "udp" or "stealth"
    calls,       \* calls of connect so far (MaxCalls)
    disconnects, \* calls of disconnect so far (MaxDisconnects)
    losses,      \* sockets broken so far (MaxLosses)
    wanted,      \* history: what the user called last, "connect" or "disconnect"
    overlapped   \* history: a call began, or the socket broke, during another call

fields == <<link, handshake, cipher, proxy, killswitch>>
firewall == <<engaged, blocked>>
counters == <<calls, disconnects, losses>>
setting == <<os, transport>>
vars == <<state, running, pc, link, handshake, cipher, proxy, killswitch, conn, via, future,
          completed, gateway, engaged, blocked, systemProxy, os, transport, calls, disconnects,
          losses, wanted, overlapped>>

Calls == 1..MaxCalls
Nobody == 0
User == 0

\* The states in which connect returns at once.
Busy == {"CONNECTING", "AUTHENTICATING", "CONNECTED"}

InFlight(c) == pc[c] \in {"transport", "auth", "proxy", "closing", "stopping"}
Overlap == overlapped' = (overlapped \/ \E c \in Calls \cup {User} : InFlight(c))

\* Coroutines the event loop runs before it waits for a timer.
Ready(n) == pc[n] = "proxy" \/ (pc[n] = "auth" /\ future[n] # "pending")
TimersMayFire == \A n \in Calls : ~Ready(n)

PortBusy == \E n \in Calls : gateway[n] \in {"starting", "open"}

----------------------------------------------------------------------------------
(* disconnect, called as c, while proxy_tunnel is p and the state is st *)

\* KillSwitch.disable of the current object, when it is active.
Disengage ==
    /\ engaged' = engaged \ {killswitch}
    /\ blocked' = IF killswitch \in engaged THEN os = "Linux" /\ engaged # {killswitch}
                  ELSE blocked

\* The last lines: kill switch off and state DISCONNECTED.
Finish(c) ==
    /\ Disengage
    /\ state' = "DISCONNECTED"
    /\ pc' = [pc EXCEPT ![c] = "done"]

\* Variant: the kill switch goes before the gateway.
CloseGatewayShieldFirst(c, p, st) ==
    /\ systemProxy' = FALSE
    /\ gateway' = [n \in Calls |-> IF n = p /\ gateway[n] = "open" THEN "closed" ELSE gateway[n]]
    /\ Disengage
    /\ \/ /\ p # Nobody /\ gateway[p] \in {"open", "closed"}
          /\ pc' = [pc EXCEPT ![c] = "stopping"]
          /\ state' = st
       \/ pc' = [pc EXCEPT ![c] = "done"] /\ state' = "DISCONNECTED"

\* Up to the await of the gateway's wait_closed, which returns at once (Python 3.11) or
\* when the connections of the local applications are closed (3.12).  A gateway whose
\* start() has not returned has no server yet: stop() neither closes it nor waits.
CloseGateway(c, p, st) ==
    /\ systemProxy' = FALSE
    /\ gateway' = [n \in Calls |-> IF n = p /\ gateway[n] = "open" THEN "closed" ELSE gateway[n]]
    /\ \/ /\ p # Nobody /\ gateway[p] \in {"open", "closed"}
          /\ pc' = [pc EXCEPT ![c] = "stopping"]
          /\ state' = st
          /\ UNCHANGED firewall
       \/ Finish(c)

\* From the beginning: the socket is closed first, and the end of a WebSocket that was open
\* is waited for.
Teardown(c, p, st) ==
    /\ running' = FALSE
    /\ conn' = [n \in Calls |-> IF n = link /\ conn[n] = "open" THEN "closed" ELSE conn[n]]
    /\ proxy' = p
    /\ \/ /\ transport = "stealth" /\ link # Nobody /\ conn[link] # "none"
          /\ pc' = [pc EXCEPT ![c] = "closing"]
          /\ state' = st
          /\ UNCHANGED <<systemProxy, gateway, firewall>>
       \/ CloseGateway(c, p, st)
    /\ UNCHANGED <<link, handshake, killswitch, via, completed, setting>>

\* The WebSocket is closed; what proxy_tunnel is by now is stopped.
Closed(c) ==
    /\ pc[c] = "closing"
    /\ CloseGateway(c, proxy, state)
    /\ UNCHANGED <<running, fields, conn, via, future, completed, setting, counters, wanted,
                   overlapped>>

----------------------------------------------------------------------------------
(* connect *)

\* Enter connect as call n, and run to the first await.  The StealthWSClient is kept before
\* it connects, the transport of UDP afterwards.
Enter(n) ==
    /\ running' = TRUE
    /\ link' = IF transport = "stealth" THEN n ELSE link
    /\ state' = "CONNECTING"
    /\ pc' = [pc EXCEPT ![n] = "transport"]

\* The user calls connect; in a busy state it returns and nothing changes.
Connect ==
    /\ state \notin Busy
    /\ calls < MaxCalls
    /\ calls' = calls + 1
    /\ Enter(calls + 1)
    /\ wanted' = "connect"
    /\ Overlap
    /\ UNCHANGED <<handshake, cipher, proxy, killswitch, conn, via, future, completed, gateway,
                   firewall, systemProxy, setting, disconnects, losses>>

\* An exception in connect: state ERROR, then disconnect.  p is proxy_tunnel by now.
Fail(n, p) == Teardown(n, p, "ERROR")

\* The socket a packet goes through: the one the client keeps, which drops it, and any
\* exception, when it is not open.
Through == IF conn'[link'] = "open" THEN link' ELSE Nobody

\* The socket is there: make a HandshakeState and a future, send the HandshakeInit.
Opened(n) ==
    /\ pc[n] = "transport"
    /\ link' = IF transport = "udp" THEN n ELSE link
    /\ conn' = [conn EXCEPT ![n] = "open"]
    /\ via' = [via EXCEPT ![n] = Through]
    /\ state' = "AUTHENTICATING"
    /\ handshake' = n
    /\ future' = [future EXCEPT ![n] = "pending"]
    /\ pc' = [pc EXCEPT ![n] = "auth"]
    /\ UNCHANGED <<running, cipher, proxy, killswitch, completed, gateway, firewall,
                   systemProxy, setting, counters, wanted, overlapped>>

\* create_datagram_endpoint raises, as for a name that does not resolve, or the WebSocket
\* is refused.
NotOpened(n) ==
    /\ pc[n] = "transport"
    /\ Fail(n, proxy)
    /\ UNCHANGED <<cipher, future, counters, wanted, overlapped>>

\* The future failed.
Refused(n) ==
    /\ pc[n] = "auth" /\ future[n] = "failed"
    /\ Fail(n, proxy)
    /\ UNCHANGED <<cipher, future, counters, wanted, overlapped>>

\* Variant: the exception ends connect without a word.
TimeoutSilent(n) ==
    /\ pc[n] = "auth" /\ future[n] = "pending"
    /\ TimersMayFire
    /\ future' = [future EXCEPT ![n] = "failed"]
    /\ pc' = [pc EXCEPT ![n] = "done"]
    /\ UNCHANGED <<state, running, fields, conn, via, completed, gateway, firewall, systemProxy,
                   setting, counters, wanted, overlapped>>

\* No answer within 6 seconds; wait_for cancels the future.
Timeout(n) ==
    /\ pc[n] = "auth" /\ future[n] = "pending"
    /\ TimersMayFire
    /\ future' = [future EXCEPT ![n] = "failed"]
    /\ Fail(n, proxy)
    /\ UNCHANGED <<cipher, counters, wanted, overlapped>>

\* The ciphers of the current handshake.  Variant: those of an earlier one are kept.
NewCipherKept ==
    IF cipher # Nobody THEN cipher
    ELSE IF handshake \in completed THEN handshake ELSE Nobody
NewCipher == IF handshake \in completed THEN handshake ELSE Nobody

\* The answer is there: take the keys of the current handshake and start a new gateway;
\* start() raises when the port is still taken.
Authenticated(n) ==
    /\ pc[n] = "auth" /\ future[n] = "ok"
    /\ cipher' = NewCipher
    /\ IF PortBusy THEN Fail(n, n)
       ELSE /\ proxy' = n
            /\ gateway' = [gateway EXCEPT ![n] = "starting"]
            /\ pc' = [pc EXCEPT ![n] = "proxy"]
            /\ UNCHANGED <<state, running, link, handshake, killswitch, conn, via, completed,
                           firewall, systemProxy, setting>>
    /\ UNCHANGED <<future, counters, wanted, overlapped>>

\* The gateway runs, and start() keeps its server.  Variant: it does not.
ServingUnrecorded(n) == UNCHANGED gateway
Serving(n) == gateway' = [gateway EXCEPT ![n] = "open"]

\* connect() keeps the KillSwitch it engages.  Variant: it does not.
EngageForgotten(n) == engaged' = engaged \cup {n} /\ blocked' = TRUE /\ UNCHANGED killswitch
Engage(n) == engaged' = engaged \cup {n} /\ blocked' = TRUE /\ killswitch' = n

\* Then system proxy, kill switch, CONNECTED.
Started(n) ==
    /\ pc[n] = "proxy"
    /\ Serving(n)
    /\ systemProxy' = (os = "Windows")
    /\ Engage(n)
    /\ state' = "CONNECTED"
    /\ pc' = [pc EXCEPT ![n] = "done"]
    /\ UNCHANGED <<running, link, handshake, cipher, proxy, conn, via, future, completed, setting,
                   counters, wanted, overlapped>>

----------------------------------------------------------------------------------
(* disconnect, called by the user *)

Disconnect ==
    /\ pc[User] \notin {"closing", "stopping"}
    /\ disconnects < MaxDisconnects
    /\ disconnects' = disconnects + 1
    /\ wanted' = "disconnect"
    /\ Overlap
    /\ Teardown(User, proxy, state)
    /\ UNCHANGED <<cipher, future, calls, losses>>

\* A disconnect goes on after it waited for the gateway.
Stopped(c) ==
    /\ pc[c] = "stopping"
    /\ Finish(c)
    /\ UNCHANGED <<running, fields, conn, via, future, completed, gateway, systemProxy, setting,
                   counters, wanted, overlapped>>

----------------------------------------------------------------------------------
(* The transport *)

\* A HandshakeResp for the HandshakeInit of call n arrives while the client waits for one.
\* It is held against the current handshake: another id, or a bad tag, is an error.
Answer(n, intact) ==
    /\ via[n] # Nobody /\ conn[via[n]] = "open"
    /\ state = "AUTHENTICATING"
    /\ LET good == intact /\ n = handshake IN
       /\ completed' = IF good THEN completed \cup {n} ELSE completed
       /\ future' = IF future[handshake] # "pending" THEN future
                    ELSE [future EXCEPT ![handshake] = IF good THEN "ok" ELSE "failed"]
    /\ UNCHANGED <<state, running, pc, fields, conn, via, gateway, firewall, systemProxy, setting,
                   counters, wanted, overlapped>>

\* A socket breaks.  That of UDP is told to _on_connection_lost, which makes the task of
\* _reconnect, which sleeps first; the end of a WebSocket is only logged.  (A socket that
\* disconnect closes is lost too, but the client is not running then.)
Lose(n) ==
    /\ conn[n] = "open"
    /\ losses < MaxLosses
    /\ losses' = losses + 1
    /\ conn' = [conn EXCEPT ![n] = "closed"]
    /\ Overlap
    /\ IF running /\ transport = "udp"
       THEN /\ calls < MaxCalls
            /\ calls' = calls + 1
            /\ state' = "RECONNECTING"
            /\ pc' = [pc EXCEPT ![calls + 1] = "sleeping"]
       ELSE UNCHANGED <<state, pc, calls>>
    /\ UNCHANGED <<running, fields, via, future, completed, gateway, firewall, systemProxy, setting,
                   disconnects, wanted>>

\* _reconnect, 2 seconds later.
Wake(n) ==
    /\ pc[n] = "sleeping"
    /\ TimersMayFire
    /\ IF running /\ state \notin Busy
       THEN Enter(n) /\ Overlap
       ELSE pc' = [pc EXCEPT ![n] = "done"] /\ UNCHANGED <<state, running, link, overlapped>>
    /\ UNCHANGED <<handshake, cipher, proxy, killswitch, conn, via, future, completed, gateway,
                   firewall, systemProxy, setting, counters, wanted>>

----------------------------------------------------------------------------------
(* The specification *)

Init ==
    /\ state = "DISCONNECTED"
    /\ running = FALSE
    /\ pc = [c \in Calls \cup {User} |-> IF c = User THEN "done" ELSE "unused"]
    /\ link = Nobody /\ handshake = Nobody /\ cipher = Nobody
    /\ proxy = Nobody /\ killswitch = Nobody
    /\ conn = [n \in Calls |-> "none"]
    /\ via = [n \in Calls |-> Nobody]
    /\ future = [n \in Calls |-> "none"]
    /\ completed = {}
    /\ gateway = [n \in Calls |-> "none"]
    /\ engaged = {} /\ blocked = FALSE
    /\ systemProxy = FALSE
    /\ os \in {"Windows", "Linux"} /\ transport \in {"udp", "stealth"}
    /\ calls = 0 /\ disconnects = 0 /\ losses = 0
    /\ wanted = "disconnect"
    /\ overlapped = FALSE

Coroutine(n) ==
    \/ Opened(n) \/ NotOpened(n) \/ Refused(n) \/ Timeout(n)
    \/ Authenticated(n) \/ Started(n) \/ Wake(n)

Next ==
    \/ Connect
    \/ Disconnect
    \/ \E n \in Calls :
        \/ Coroutine(n)
        \/ Lose(n)
        \/ \E intact \in BOOLEAN : Answer(n, intact)
    \/ \E c \in Calls \cup {User} : Closed(c) \/ Stopped(c)

Spec == Init /\ [][Next]_vars

\* The event loop resumes coroutines and its timers fire.  Nothing is assumed of the
\* user, the server, the network, the WebSocket that is being closed, or the applications
\* that keep the gateway waiting.
FairSpec == Spec /\ \A n \in Calls : WF_vars(Coroutine(n))

----------------------------------------------------------------------------------
(* Properties *)

TypeOK ==
    /\ state \in Busy \cup {"DISCONNECTED", "RECONNECTING", "ERROR"}
    /\ running \in BOOLEAN
    /\ pc \in [Calls \cup {User} ->
                {"unused", "sleeping", "transport", "auth", "proxy", "closing", "stopping", "done"}]
    /\ {link, handshake, cipher, proxy, killswitch} \subseteq 0..calls
    /\ conn \in [Calls -> {"none", "open", "closed"}]
    /\ via \in [Calls -> 0..calls]
    /\ future \in [Calls -> {"none", "pending", "ok", "failed"}]
    /\ completed \subseteq Calls
    /\ gateway \in [Calls -> {"none", "starting", "open", "closed"}]
    /\ engaged \subseteq {n \in Calls : gateway[n] \in {"open", "closed"}}
    /\ blocked \in BOOLEAN
    /\ systemProxy \in BOOLEAN
    /\ os \in {"Windows", "Linux"} /\ transport \in {"udp", "stealth"}
    /\ calls \in 0..MaxCalls /\ disconnects \in 0..MaxDisconnects /\ losses \in 0..MaxLosses
    /\ wanted \in {"connect", "disconnect"}
    /\ overlapped \in BOOLEAN

\* While the client says CONNECTED the firewall blocks other traffic, in the middle of a
\* disconnect and through connects, losses and reconnects that overlap in any way.
ConnectedIsShielded == state = "CONNECTED" => blocked

\* A connected client whose calls did not overlap sends through its own open socket, with
\* the keys of its own handshake, from its own running gateway; only a WebSocket may have
\* ended behind its back.
ConnectedIsCoherent ==
    state = "CONNECTED" /\ ~overlapped /\ pc[User] = "done" =>
        /\ running /\ systemProxy = (os = "Windows")
        /\ cipher # Nobody /\ cipher = handshake /\ cipher = link /\ cipher = proxy
        /\ conn[link] = "open" \/ (transport = "stealth" /\ losses > 0)
        /\ gateway[proxy] = "open"
        /\ engaged = {killswitch} /\ blocked

\* "Disconnects tunnel and cleans up all system proxy / firewall modifications"
\* (client.py, disconnect): so it is after a disconnect the user waited for ...
DisconnectCleansUp ==
    wanted = "disconnect" /\ pc[User] = "done" => ~systemProxy /\ ~blocked

\* ... as long as no call began during another, as in the command line client.
CleanWithoutOverlap == ~overlapped => DisconnectCleansUp

\* "the client enters RECONNECTING state while maintaining active firewall blocks"
\* (docs/ARCHITECTURE.md): the firewall is opened only once the user disconnects.
KillSwitchHeld == [][blocked /\ ~blocked' => wanted' = "disconnect"]_vars

\* No connect stays in CONNECTING or AUTHENTICATING, where further calls are ignored,
\* however calls overlap and whatever the server answers.
ConnectSettles ==
    state \in {"CONNECTING", "AUTHENTICATING"} ~> state \notin {"CONNECTING", "AUTHENTICATING"}
==================================================================================
