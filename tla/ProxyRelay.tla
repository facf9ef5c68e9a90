-------------------------------- MODULE ProxyRelay --------------------------------
(***************************************************************************)
(* TCP connections of local applications, relayed through one session:     *)
(* the gateway on the client (UniversalProxyGateway of                     *)
(* src/shinvpn/tunnel/proxy_tunnel.py), the frames PROXY_CONNECT,          *)
(* PROXY_DATA and PROXY_CLOSE, and the server's proxy handlers             *)
(* (src/shinvpn/server/server.py) with their connections to remote hosts.  *)
(*                                                                         *)
(* The n-th chunk of a connection is the number n.  Frames travel through  *)
(* UDP, which loses and reorders them, or through a WebSocket, which does  *)
(* not; a repeated frame is refused by the receiver's cipher (ShinCipher). *)
(* The client stays CONNECTED, the server running, and the tunnel's own    *)
(* session may be closed by the janitor.                                   *)
(***************************************************************************)
EXTENDS Integers, SequencesExt

CONSTANTS
    Conns,       \* connection ids; the gateway never gives one out twice
    Transports,  \* the transports to consider: "udp", "stealth"
    NoBuffer,    \* no entry in proxy_pending_buffers
    MaxChunks    \* bound: chunks each end of a connection sends

ASSUME TransportsAssumption == Transports \subseteq {"udp", "stealth"}
ASSUME BoundsAssumption == MaxChunks \in Nat /\ NoBuffer \notin Seq(Nat)

VARIABLES
    transport,   \* the transport of the session
    app,         \* each local connection: "idle", "open", "closing", "closed"
    sent,        \* how many chunks the application sent
    fed,         \* the chunks written to the application
    up, down,    \* the frames under way to the server and to the client
    sessionOpen, \* the session is in sessions_by_id
    connecting,  \* proxy_connecting
    pending,     \* proxy_pending_buffers
    streams,     \* the connections with an entry in proxy_streams
    task,        \* _open_remote_proxy_connection: "none", "dialing", "piping", "done"
    remote,      \* the server's socket to the remote host: "none", "open", "closed"
    arrived,     \* the chunks written to the remote host
    answered     \* how many chunks the remote host sent

clientVars == <<app, sent, fed>>
tableVars == <<connecting, pending, streams>>
remoteVars == <<task, remote, arrived, answered>>
vars == <<transport, app, sent, fed, up, down, sessionOpen, connecting, pending, streams,
          task, remote, arrived, answered>>

Frame(kind, c, n) == [kind |-> kind, conn |-> c, chunk |-> n]

\* The positions a frame may be taken from: the first, and with UDP any.
Deliverable(wire) == {i \in 1..Len(wire) : transport = "udp" \/ i = 1}

----------------------------------------------------------------------------------
(* The gateway *)

\* An application connects through SOCKS 4 or 5 or HTTP CONNECT, and its target is not
\* blocked: the server is told, and the application is told that all is well before
\* anybody dialled.
Open(c) ==
    /\ app[c] = "idle"
    /\ app' = [app EXCEPT ![c] = "open"]
    /\ up' = Append(up, Frame("CONNECT", c, 0))
    /\ UNCHANGED <<transport, sent, fed, down, sessionOpen, tableVars, remoteVars>>

\* A plain HTTP request names its target and is the first chunk itself: it follows the
\* CONNECT at once, with a relative path.
OpenHttp(c) ==
    /\ app[c] = "idle"
    /\ sent[c] < MaxChunks
    /\ app' = [app EXCEPT ![c] = "open"]
    /\ sent' = [sent EXCEPT ![c] = 1]
    /\ up' = up \o <<Frame("CONNECT", c, 0), Frame("DATA", c, 1)>>
    /\ UNCHANGED <<transport, fed, down, sessionOpen, tableVars, remoteVars>>

\* An application connects and its request is malformed, or its target is blocked: the
\* handler ends, and the server is told of the end of a connection it never heard of.
Refuse(c) ==
    /\ app[c] = "idle"
    /\ app' = [app EXCEPT ![c] = "closed"]
    /\ up' = Append(up, Frame("CLOSE", c, 0))
    /\ UNCHANGED <<transport, sent, fed, down, sessionOpen, tableVars, remoteVars>>

\* _pipe_client_to_tunnel
Send(c) ==
    /\ app[c] = "open"
    /\ sent[c] < MaxChunks
    /\ sent' = [sent EXCEPT ![c] = @ + 1]
    /\ up' = Append(up, Frame("DATA", c, sent[c] + 1))
    /\ UNCHANGED <<transport, app, fed, down, sessionOpen, tableVars, remoteVars>>

\* The application has sent all it had, or its connection was closed here: the handler
\* ends, says so, and closes the connection.
HandlerEnds(c) ==
    /\ app[c] \in {"open", "closing"}
    /\ app' = [app EXCEPT ![c] = "closed"]
    /\ up' = Append(up, Frame("CLOSE", c, 0))
    /\ UNCHANGED <<transport, sent, fed, down, sessionOpen, tableVars, remoteVars>>

\* A frame reaches the client: feed_remote_data or close_connection.
ReceiveDown(i) ==
    LET f == down[i] IN
    /\ down' = RemoveAt(down, i)
    /\ fed' = IF f.kind = "DATA" /\ app[f.conn] = "open"
              THEN [fed EXCEPT ![f.conn] = Append(@, f.chunk)] ELSE fed
    /\ app' = IF f.kind = "CLOSE" /\ app[f.conn] = "open"
              THEN [app EXCEPT ![f.conn] = "closing"] ELSE app
    /\ UNCHANGED <<transport, sent, up, sessionOpen, tableVars, remoteVars>>

----------------------------------------------------------------------------------
(* The server: _handle_proxy_frame, for a session it knows *)

\* A PROXY_CONNECT: remember the connection, and start a task that dials.
ReceiveConnect(f) ==
    /\ f.kind = "CONNECT"
    /\ connecting' = connecting \cup {f.conn}
    /\ pending' = [pending EXCEPT ![f.conn] = <<>>]
    /\ task' = [task EXCEPT ![f.conn] = "dialing"]
    /\ UNCHANGED <<streams, remote, arrived, answered>>

\* Variant: what comes before the connection is there is not kept.
ReceiveDataUnbuffered(f) ==
    /\ f.kind = "DATA"
    /\ arrived' = IF f.conn \in streams /\ remote[f.conn] = "open"
                  THEN [arrived EXCEPT ![f.conn] = Append(@, f.chunk)] ELSE arrived
    /\ UNCHANGED <<connecting, streams, pending, task, remote, answered>>

\* A PROXY_DATA: write it, or keep it while the connection is being opened.
ReceiveData(f) ==
    /\ f.kind = "DATA"
    /\ arrived' = IF f.conn \in streams /\ remote[f.conn] = "open"
                  THEN [arrived EXCEPT ![f.conn] = Append(@, f.chunk)] ELSE arrived
    /\ pending' = IF /\ f.conn \notin streams /\ f.conn \in connecting
                     /\ pending[f.conn] # NoBuffer
                  THEN [pending EXCEPT ![f.conn] = Append(@, f.chunk)] ELSE pending
    /\ UNCHANGED <<connecting, streams, task, remote, answered>>

\* Variant: the socket is closed and its entry stays.
ReceiveCloseKeepsStream(f) ==
    /\ f.kind = "CLOSE"
    /\ connecting' = connecting \ {f.conn}
    /\ pending' = [pending EXCEPT ![f.conn] = NoBuffer]
    /\ remote' = IF f.conn \in streams THEN [remote EXCEPT ![f.conn] = "closed"] ELSE remote
    /\ UNCHANGED <<streams, task, arrived, answered>>

\* A PROXY_CLOSE: forget everything, close the socket.  A task that dials is not stopped.
ReceiveClose(f) ==
    /\ f.kind = "CLOSE"
    /\ connecting' = connecting \ {f.conn}
    /\ pending' = [pending EXCEPT ![f.conn] = NoBuffer]
    /\ streams' = streams \ {f.conn}
    /\ remote' = IF f.conn \in streams THEN [remote EXCEPT ![f.conn] = "closed"] ELSE remote
    /\ UNCHANGED <<task, arrived, answered>>

\* A frame of a session that is gone is dropped.
ReceiveUp(i) ==
    /\ up' = RemoveAt(up, i)
    /\ IF sessionOpen THEN ReceiveConnect(up[i]) \/ ReceiveData(up[i]) \/ ReceiveClose(up[i])
       ELSE UNCHANGED <<tableVars, remoteVars>>
    /\ UNCHANGED <<transport, clientVars, down, sessionOpen>>

\* _close_session, the part about proxy_streams.
CloseSession ==
    /\ sessionOpen
    /\ sessionOpen' = FALSE
    /\ remote' = [c \in Conns |-> IF c \in streams THEN "closed" ELSE remote[c]]
    /\ streams' = {}
    /\ UNCHANGED <<transport, clientVars, up, down, connecting, pending, task, arrived, answered>>

----------------------------------------------------------------------------------
(* The server: _open_remote_proxy_connection *)

\* Variant: the chunks that waited are forgotten.
FlushNothing(c) == UNCHANGED arrived
Flush(c) ==
    arrived' = IF pending[c] = NoBuffer THEN arrived
               ELSE [arrived EXCEPT ![c] = @ \o pending[c]]

\* The connection is there: it is registered, whatever happened since, and gets the
\* chunks that waited for it.
Dialed(c) ==
    /\ task[c] = "dialing"
    /\ task' = [task EXCEPT ![c] = "piping"]
    /\ remote' = [remote EXCEPT ![c] = "open"]
    /\ streams' = streams \cup {c}
    /\ connecting' = connecting \ {c}
    /\ pending' = [pending EXCEPT ![c] = NoBuffer]
    /\ Flush(c)
    /\ UNCHANGED <<transport, clientVars, up, down, sessionOpen, answered>>

\* The remote host sends a chunk.
Pipe(c) ==
    /\ task[c] = "piping" /\ c \in streams /\ remote[c] = "open"
    /\ answered[c] < MaxChunks
    /\ answered' = [answered EXCEPT ![c] = @ + 1]
    /\ down' = Append(down, Frame("DATA", c, answered[c] + 1))
    /\ UNCHANGED <<transport, clientVars, up, sessionOpen, tableVars, task, remote, arrived>>

\* Variant: only a connection that was opened is reported and cleaned up.
TaskEndsSilent(c) ==
    /\ task' = [task EXCEPT ![c] = "done"]
    /\ IF remote[c] = "none" THEN UNCHANGED <<remote, tableVars, down>>
       ELSE /\ remote' = [remote EXCEPT ![c] = "closed"]
            /\ connecting' = connecting \ {c}
            /\ pending' = [pending EXCEPT ![c] = NoBuffer]
            /\ streams' = streams \ {c}
            /\ down' = Append(down, Frame("CLOSE", c, 0))
    /\ UNCHANGED <<transport, clientVars, up, sessionOpen, arrived, answered>>

\* The finally clause: forget the connection, close the socket, tell the client.
TaskEnds(c) ==
    /\ task' = [task EXCEPT ![c] = "done"]
    /\ remote' = IF remote[c] = "open" THEN [remote EXCEPT ![c] = "closed"] ELSE remote
    /\ connecting' = connecting \ {c}
    /\ pending' = [pending EXCEPT ![c] = NoBuffer]
    /\ streams' = streams \ {c}
    /\ down' = Append(down, Frame("CLOSE", c, 0))
    /\ UNCHANGED <<transport, clientVars, up, sessionOpen, arrived, answered>>

\* The remote host refuses, or 10 seconds pass.
DialFails(c) == task[c] = "dialing" /\ TaskEnds(c)

\* The remote host closes its end ...
RemoteCloses(c) == task[c] = "piping" /\ remote[c] = "open" /\ TaskEnds(c)

\* ... or the server closed the socket: the read returns nothing.
ReadEnds(c) == task[c] = "piping" /\ remote[c] = "closed" /\ TaskEnds(c)

----------------------------------------------------------------------------------
(* UDP loses a frame *)

LoseUp(i) ==
    /\ transport = "udp"
    /\ up' = RemoveAt(up, i)
    /\ UNCHANGED <<transport, clientVars, down, sessionOpen, tableVars, remoteVars>>

LoseDown(i) ==
    /\ transport = "udp"
    /\ down' = RemoveAt(down, i)
    /\ UNCHANGED <<transport, clientVars, up, sessionOpen, tableVars, remoteVars>>

----------------------------------------------------------------------------------
(* The specification *)

Init ==
    /\ transport \in Transports
    /\ app = [c \in Conns |-> "idle"]
    /\ sent = [c \in Conns |-> 0]
    /\ fed = [c \in Conns |-> <<>>]
    /\ up = <<>> /\ down = <<>>
    /\ sessionOpen = TRUE
    /\ connecting = {}
    /\ pending = [c \in Conns |-> NoBuffer]
    /\ streams = {}
    /\ task = [c \in Conns |-> "none"]
    /\ remote = [c \in Conns |-> "none"]
    /\ arrived = [c \in Conns |-> <<>>]
    /\ answered = [c \in Conns |-> 0]

DeliverDown == \E i \in Deliverable(down) : ReceiveDown(i)
DeliverUp == \E i \in Deliverable(up) : ReceiveUp(i)

Next ==
    \/ \E c \in Conns :
        \/ Open(c) \/ OpenHttp(c) \/ Refuse(c) \/ Send(c) \/ HandlerEnds(c)
        \/ Dialed(c) \/ Pipe(c) \/ DialFails(c) \/ RemoteCloses(c) \/ ReadEnds(c)
    \/ DeliverDown \/ DeliverUp
    \/ \E i \in 1..Len(up) : LoseUp(i)
    \/ \E i \in 1..Len(down) : LoseDown(i)
    \/ CloseSession

Spec == Init /\ [][Next]_vars

\* A WebSocket delivers, a dial ends within 10 seconds, a closed socket is noticed.
\* Nothing is assumed of the applications and the remote hosts.
FairSpec ==
    /\ Spec
    /\ WF_vars(DeliverDown) /\ WF_vars(DeliverUp)
    /\ \A c \in Conns :
        /\ WF_vars(Dialed(c) \/ DialFails(c))
        /\ WF_vars(ReadEnds(c))
        /\ WF_vars(app[c] = "closing" /\ HandlerEnds(c))

----------------------------------------------------------------------------------
(* Properties *)

Chunks == 1..MaxChunks

TypeOK ==
    /\ transport \in Transports
    /\ app \in [Conns -> {"idle", "open", "closing", "closed"}]
    /\ sent \in [Conns -> 0..MaxChunks]
    /\ \A c \in Conns : Range(fed[c]) \subseteq Chunks /\ Range(arrived[c]) \subseteq Chunks
    /\ \A f \in Range(up) \cup Range(down) : f.conn \in Conns /\ f.chunk \in 0..MaxChunks
    /\ sessionOpen \in BOOLEAN
    /\ connecting \subseteq {c \in Conns : task[c] = "dialing"}
    /\ streams \subseteq {c \in Conns : task[c] = "piping" /\ remote[c] = "open"}
    /\ \A c \in Conns : pending[c] # NoBuffer => Range(pending[c]) \subseteq Chunks
    /\ task \in [Conns -> {"none", "dialing", "piping", "done"}]
    /\ remote \in [Conns -> {"none", "open", "closed"}]
    /\ answered \in [Conns -> 0..MaxChunks]

InOrder(chunks) == chunks = [i \in 1..Len(chunks) |-> i]

\* What either end reads is what the other end wrote, from the first chunk on, without a
\* gap, whatever is sent while the server still dials: it "reaches the remote destination,
\* and returns data seamlessly" (tests/test_proxy_e2e.py).  Over UDP the frames carry no
\* position in their stream, and nothing orders or repeats them.
StreamsIntactInOrder ==
    transport = "stealth" => \A c \in Conns : InOrder(arrived[c]) /\ InOrder(fed[c])

Underway(wire, c) == Cardinality({i \in 1..Len(wire) : wire[i].kind = "DATA" /\ wire[i].conn = c})

\* As long as a connection lives at both ends no chunk disappears: each is on its way, or
\* waits for the dialled connection, or was written.
NothingDisappears ==
    transport = "stealth" /\ sessionOpen =>
        \A c \in Conns : app[c] = "open" =>
            /\ task[c] = "piping" /\ remote[c] = "open" =>
                sent[c] = Len(arrived[c]) + Underway(up, c)
            /\ task[c] = "dialing" => sent[c] = Len(pending[c]) + Underway(up, c)
            /\ answered[c] = Len(fed[c]) + Underway(down, c)

\* A relay that ended left nothing behind at the server: no socket, no buffer, no entry
\* under its id, in whatever order connect, close, failure and the session's end came.
EndedIsForgotten ==
    \A c \in Conns : task[c] = "done" =>
        /\ remote[c] # "open"
        /\ c \notin connecting \cup streams
        /\ pending[c] = NoBuffer

\* The application learns that its connection is over: without a frame from the server
\* it would wait for ever on a connection that was reported as established.
EndIsTold ==
    \A c \in Conns : transport = "stealth" /\ task[c] = "done" ~> app[c] = "closed"
==================================================================================
