-------------------------------- MODULE Handshake --------------------------------
(***************************************************************************)
(* The key exchange between the clients and the server, and the first use  *)
(* of the keys: HandshakeState of src/shinvpn/crypto/handshake.py as       *)
(* ShinVPNClient.connect and ShinVPNServer._handle_handshake_init use it.  *)
(*                                                                         *)
(* X25519, HKDF and HMAC are symbolic: the shared secret of two keys is    *)
(* the unordered pair of them, a derived key is the tuple it is derived    *)
(* from, and a tag is the pair of a key and the body it covers.  Messages  *)
(* stay on the wire for ever and may be received at any time, again, or    *)
(* never; the network may damage the key or the session id in one.         *)
(***************************************************************************)
EXTENDS Integers

CONSTANTS
    Attempts,      \* calls of create_initiation; each has its own ephemeral key
    Clients,       \* the clients, by their static keys
    ClientOf,      \* the client that makes each attempt
    Allowed,       \* allowed_pub_keys; empty means that everybody is accepted
    Server,        \* the server, by its static key
    Sids,          \* the session ids that may be drawn
    None,          \* nothing there yet
    MaxResponses,  \* bound: handshakes the server answers
    MaxSeq         \* bound: payloads encrypted with one cipher

ASSUME ClientOfAssumption == ClientOf \in [Attempts -> Clients]
ASSUME NamesAssumption ==
    /\ Allowed \subseteq Clients
    /\ Server \notin Clients
    /\ None \notin Sids
ASSUME BoundsAssumption == MaxResponses \in Nat /\ MaxSeq \in Nat

VARIABLES
    state,     \* telemetry.state of each attempt's client
    sid,       \* the session id each attempt drew
    future,    \* _handshake_future: "pending", "ok", "failed"
    hsKeys,    \* the ciphers in the client's HandshakeState: their two keys
    ciphers,   \* tx_cipher and rx_cipher of the client: keys and _tx_seq
    sessions,  \* the session the server holds under each id: owner, keys and _tx_seq
    responses, \* how many responses the server created, one ephemeral key each
    wire,      \* every message sent, and the damaged ones
    derived,   \* history: the sessions the server ever derived keys for
    used,      \* history: the pairs of key and number that encrypted a payload
    reused     \* history: some pair encrypted a second payload

clientVars == <<state, sid, future, hsKeys, ciphers>>
serverVars == <<sessions, responses, derived>>
vars == <<state, sid, future, hsKeys, ciphers,
          sessions, responses, derived, wire, used, reused>>

----------------------------------------------------------------------------------
(* Symbolic cryptography *)

Static(who) == <<"static", who>>
Ephemeral(who) == <<"ephemeral", who>>
Exchange(a, b) == {a, b}
Mac(key, body) == <<key, body>>

\* The ephemeral key of the n-th response: a HandshakeState is made for each.
\* Variant: the server keeps one.
ServerEphemeralKept(n) == Ephemeral(1)
ServerEphemeral(n) == Ephemeral(n)

AuthKey(dh1, dh2) == <<"auth", dh1, dh2>>
ResponseKey(master) == <<"response", master>>
KeyTx(master) == <<"tx", master>>
KeyRx(master) == <<"rx", master>>

----------------------------------------------------------------------------------
(* Messages *)

Body(m) == <<m.sid, m.eph, m.static>>

\* create_initiation
Initiation(a, s) ==
    LET body == <<s, Ephemeral(a), Static(ClientOf[a])>>
        key == AuthKey(Exchange(Ephemeral(a), Static(Server)),
                       Exchange(Static(ClientOf[a]), Static(Server)))
    IN  [type |-> "INIT", peer |-> a, sid |-> s, eph |-> Ephemeral(a),
         static |-> Static(ClientOf[a]), tag |-> Mac(key, body)]

\* The secret of a session as the server computes it from a HandshakeInit.
ServerMaster(m, n) ==
    <<Exchange(Static(Server), m.eph), Exchange(Static(Server), m.static),
      Exchange(ServerEphemeral(n), m.eph)>>

\* create_response, without the virtual address.
Response(m, n) ==
    LET body == <<m.sid, ServerEphemeral(n)>>
    IN  [type |-> "RESP", peer |-> m.peer, sid |-> m.sid, eph |-> ServerEphemeral(n),
         tag |-> Mac(ResponseKey(ServerMaster(m, n)), body)]

\* The secret as the client computes it from a HandshakeResp.
ClientMaster(a, r) ==
    <<Exchange(Ephemeral(a), Static(Server)), Exchange(Static(ClientOf[a]), Static(Server)),
      Exchange(Ephemeral(a), r.eph)>>

\* process_response: the server's receiving key is the client's sending key.
\* Variant: each end sends with the key named TX.
ClientKeysUncrossed(a, r) ==
    [tx |-> KeyTx(ClientMaster(a, r)), rx |-> KeyRx(ClientMaster(a, r))]
ClientKeys(a, r) == [tx |-> KeyRx(ClientMaster(a, r)), rx |-> KeyTx(ClientMaster(a, r))]

----------------------------------------------------------------------------------
(* The client *)

\* connect() up to the wait for the answer.
Start(a, s) ==
    /\ state[a] = "DISCONNECTED" /\ sid[a] = None
    /\ state' = [state EXCEPT ![a] = "AUTHENTICATING"]
    /\ sid' = [sid EXCEPT ![a] = s]
    /\ future' = [future EXCEPT ![a] = "pending"]
    /\ wire' = wire \cup {Initiation(a, s)}
    /\ UNCHANGED <<hsKeys, ciphers, serverVars, used, reused>>

\* The checks of process_response.
GoodResponse(a, r) ==
    /\ r.sid = sid[a]
    /\ r.tag = Mac(ResponseKey(ClientMaster(a, r)), <<r.sid, r.eph>>)

\* Variant: a response is taken in every state, and its ciphers at once.
ReceiveAnytime(a, r) ==
    /\ r.type = "RESP" /\ r.peer = a
    /\ state[a] # "DISCONNECTED"
    /\ GoodResponse(a, r)
    /\ hsKeys' = [hsKeys EXCEPT ![a] = ClientKeys(a, r)]
    /\ ciphers' = IF ciphers[a] = None THEN ciphers
                  ELSE [ciphers EXCEPT ![a] = [keys |-> ClientKeys(a, r), seq |-> 0]]
    /\ future' = [future EXCEPT ![a] = IF @ = "pending" THEN "ok" ELSE @]
    /\ UNCHANGED <<state, sid, serverVars, wire, used, reused>>

\* _on_packet_received of a HandshakeResp: it counts while the client is AUTHENTICATING,
\* a repeated one too.
Receive(a, r) ==
    /\ r.type = "RESP" /\ r.peer = a
    /\ state[a] = "AUTHENTICATING"
    /\ IF GoodResponse(a, r)
       THEN /\ hsKeys' = [hsKeys EXCEPT ![a] = ClientKeys(a, r)]
            /\ future' = [future EXCEPT ![a] = IF @ = "pending" THEN "ok" ELSE @]
       ELSE /\ future' = [future EXCEPT ![a] = IF @ = "pending" THEN "failed" ELSE @]
            /\ UNCHANGED hsKeys
    /\ UNCHANGED <<state, sid, ciphers, serverVars, wire, used, reused>>

\* Variant: connect() does not look whether the handshake is over.
AdoptEarly(a) ==
    /\ state[a] = "AUTHENTICATING" /\ ciphers[a] = None
    /\ ciphers' = [ciphers EXCEPT ![a] = [keys |-> hsKeys[a], seq |-> 0]]
    /\ UNCHANGED <<state, sid, future, hsKeys, serverVars, wire, used, reused>>

\* connect() goes on: it takes the ciphers and starts the local proxy ...
Adopt(a) ==
    /\ state[a] = "AUTHENTICATING" /\ future[a] = "ok" /\ ciphers[a] = None
    /\ ciphers' = [ciphers EXCEPT ![a] = [keys |-> hsKeys[a], seq |-> 0]]
    /\ UNCHANGED <<state, sid, future, hsKeys, serverVars, wire, used, reused>>

\* ... and when that is done the client is connected.
Connected(a) ==
    /\ state[a] = "AUTHENTICATING" /\ ciphers[a] # None
    /\ state' = [state EXCEPT ![a] = "CONNECTED"]
    /\ UNCHANGED <<sid, future, hsKeys, ciphers, serverVars, wire, used, reused>>

\* The answer was bad, or none came within 6 seconds.
GiveUp(a) ==
    /\ state[a] = "AUTHENTICATING" /\ future[a] # "ok"
    /\ state' = [state EXCEPT ![a] = "DISCONNECTED"]
    /\ future' = [future EXCEPT ![a] = "failed"]
    /\ UNCHANGED <<sid, hsKeys, ciphers, serverVars, wire, used, reused>>

----------------------------------------------------------------------------------
(* The server *)

\* The checks of process_initiation.
PermittedKey(m) == Allowed = {} \/ m.static \in {Static(c) : c \in Allowed}
\* Variant: the tag is not compared.
GoodInitiationUntagged(m) == PermittedKey(m)
GoodInitiation(m) ==
    /\ PermittedKey(m)
    /\ m.tag = Mac(AuthKey(Exchange(Static(Server), m.eph), Exchange(Static(Server), m.static)),
                   Body(m))

\* _handle_handshake_init: every accepted HandshakeInit makes new keys and replaces the
\* session under its id.
Accept(m) ==
    LET n == responses + 1
        master == ServerMaster(m, n)
    IN  /\ m.type = "INIT"
        /\ responses < MaxResponses
        /\ GoodInitiation(m)
        /\ responses' = n
        /\ sessions' = [sessions EXCEPT ![m.sid] =
               [eph |-> m.eph, static |-> m.static, tx |-> KeyTx(master),
                rx |-> KeyRx(master), seq |-> 0]]
        /\ derived' = derived \cup {[sid |-> m.sid, eph |-> m.eph, static |-> m.static,
                                     tx |-> KeyTx(master), rx |-> KeyRx(master)]}
        /\ wire' = wire \cup {Response(m, n)}
        /\ UNCHANGED <<clientVars, used, reused>>

----------------------------------------------------------------------------------
(* Payloads, and the network *)

Encrypted(key, seq) ==
    /\ used' = used \cup {<<key, seq>>}
    /\ reused' = (reused \/ <<key, seq>> \in used)

ClientSend(a) ==
    /\ state[a] = "CONNECTED"
    /\ ciphers[a].seq < MaxSeq
    /\ ciphers' = [ciphers EXCEPT ![a].seq = @ + 1]
    /\ Encrypted(ciphers[a].keys.tx, ciphers[a].seq + 1)
    /\ UNCHANGED <<state, sid, future, hsKeys, serverVars, wire>>

ServerSend(s) ==
    /\ sessions[s] # None
    /\ sessions[s].seq < MaxSeq
    /\ sessions' = [sessions EXCEPT ![s].seq = @ + 1]
    /\ Encrypted(sessions[s].tx, sessions[s].seq + 1)
    /\ UNCHANGED <<clientVars, responses, derived, wire>>

\* The session id or the ephemeral key is damaged on the way; one damaged copy is enough.
Damage(m) ==
    /\ \A other \in wire : other.eph # Ephemeral(None) /\ other.tag[2][1] = other.sid
    /\ \E damaged \in {[m EXCEPT !.sid = s] : s \in Sids \ {m.sid}}
                      \cup {[m EXCEPT !.eph = Ephemeral(None)]} :
        wire' = wire \cup {damaged}
    /\ UNCHANGED <<clientVars, serverVars, used, reused>>

----------------------------------------------------------------------------------
(* The specification *)

Init ==
    /\ state = [a \in Attempts |-> "DISCONNECTED"]
    /\ sid = [a \in Attempts |-> None]
    /\ future = [a \in Attempts |-> "pending"]
    /\ hsKeys = [a \in Attempts |-> None]
    /\ ciphers = [a \in Attempts |-> None]
    /\ sessions = [s \in Sids |-> None]
    /\ responses = 0
    /\ derived = {}
    /\ wire = {}
    /\ used = {}
    /\ reused = FALSE

Next ==
    \/ \E a \in Attempts :
        \/ \E s \in Sids : Start(a, s)
        \/ \E r \in wire : Receive(a, r)
        \/ Adopt(a) \/ Connected(a) \/ GiveUp(a) \/ ClientSend(a)
    \/ \E m \in wire : Accept(m) \/ Damage(m)
    \/ \E s \in Sids : ServerSend(s)

Spec == Init /\ [][Next]_vars

----------------------------------------------------------------------------------
(* Properties *)

Secrets == {ServerMaster([eph |-> Ephemeral(a), static |-> Static(c)], n) :
                a \in Attempts, c \in Clients, n \in 1..MaxResponses}
Keys == {KeyTx(m) : m \in Secrets} \cup {KeyRx(m) : m \in Secrets}

TypeOK ==
    /\ state \in [Attempts -> {"DISCONNECTED", "AUTHENTICATING", "CONNECTED"}]
    /\ sid \in [Attempts -> Sids \cup {None}]
    /\ future \in [Attempts -> {"pending", "ok", "failed"}]
    /\ \A a \in Attempts : hsKeys[a] # None => hsKeys[a] \in [tx : Keys, rx : Keys]
    /\ \A a \in Attempts : ciphers[a] # None =>
        ciphers[a] \in [keys : [tx : Keys, rx : Keys], seq : 0..MaxSeq]
    /\ \A s \in Sids : sessions[s] # None => sessions[s].seq \in 0..MaxSeq
    /\ responses \in 0..MaxResponses
    /\ \A d \in derived : d.sid \in Sids /\ d.tx \in Keys /\ d.rx \in Keys
    /\ reused \in BOOLEAN

\* Whom a client is connected to: the two keys it uses are the two the server derived,
\* crossed, for this client, this attempt and the session id this attempt drew, whatever
\* was repeated, delayed or damaged (process_response checks the id and the tag).
Agreement ==
    \A a \in Attempts : state[a] = "CONNECTED" =>
        [sid |-> sid[a], eph |-> Ephemeral(a), static |-> Static(ClientOf[a]),
         tx |-> ciphers[a].keys.rx, rx |-> ciphers[a].keys.tx] \in derived

\* Every session of the server was asked for by an allowed client under this very id:
\* a damaged HandshakeInit creates none (process_initiation).
SessionsAreAskedFor ==
    \A d \in derived : \E a \in Attempts :
        /\ d.sid = sid[a] /\ d.eph = Ephemeral(a) /\ d.static = Static(ClientOf[a])
        /\ Allowed # {} => ClientOf[a] \in Allowed

\* "IVs never repeat within a session lifetime" (src/docs/PROTOCOL_SPEC.md:63), although
\* a repeated HandshakeInit or HandshakeResp makes new ciphers that count from 0 again.
NoncesStayFresh == ~reused

\* "Performs mutual authentication and derives identical symmetric keys" (HandshakeState):
\* a connected client and the session the server holds for it use the same keys.
KeysAgree ==
    \A a \in Attempts : state[a] = "CONNECTED" =>
        LET session == sessions[sid[a]] IN
        session.eph = Ephemeral(a) =>
            session.tx = ciphers[a].keys.rx /\ session.rx = ciphers[a].keys.tx
==================================================================================
