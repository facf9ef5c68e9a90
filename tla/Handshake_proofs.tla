----------------------------- MODULE Handshake_proofs -----------------------------
(***************************************************************************)
(* Proofs about Handshake, for any attempts, clients, ids and numbers.     *)
(***************************************************************************)
EXTENDS Handshake, TLAPS

USE BoundsAssumption

------------------------------------------------------------------------------------
(* What is known of a key exchange *)

\* The secret of attempt a and the n-th response, and what is on record when the server
\* has derived it.
Secret(a, n) == ServerMaster([eph |-> Ephemeral(a), static |-> Static(ClientOf[a])], n)

Record(a, n) ==
    [sid |-> sid[a], eph |-> Ephemeral(a), static |-> Static(ClientOf[a]),
     tx |-> KeyTx(Secret(a, n)), rx |-> KeyRx(Secret(a, n))]

ClientPair(a, n) == [tx |-> KeyRx(Secret(a, n)), rx |-> KeyTx(Secret(a, n))]

\* The keys were derived by the server for attempt a.
HeldFor(a, keys) ==
    \E n \in 1..responses : Record(a, n) \in derived /\ keys = ClientPair(a, n)

\* Attempt a has been made by a client the server accepts.
Permitted(a) == sid[a] \in Sids /\ (Allowed # {} => ClientOf[a] \in Allowed)

\* The tag of a message is the one an honest party put on it, whatever happened to the rest.
Genuine(m) ==
    /\ {"type", "tag"} \subseteq DOMAIN m
    /\ m.type = "INIT" => \E a \in Attempts :
        sid[a] \in Sids /\ m.tag = Initiation(a, sid[a]).tag
    /\ m.type = "RESP" => \E a \in Attempts, n \in 1..responses :
        /\ sid[a] \in Sids /\ Record(a, n) \in derived
        /\ m.tag = Mac(ResponseKey(Secret(a, n)), <<sid[a], ServerEphemeral(n)>>)

Wire == \A m \in wire : Genuine(m)

Derived ==
    \A d \in derived : \E a \in Attempts, n \in 1..responses :
        Permitted(a) /\ d = Record(a, n)

Ready(a) == ciphers[a] # None \/ state[a] = "CONNECTED"

\* What attempt a holds are keys the server derived for it.
Holding(a) ==
    /\ state[a] # "DISCONNECTED" => sid[a] \in Sids
    /\ future[a] = "ok" \/ hsKeys[a] # None => HeldFor(a, hsKeys[a])
    /\ Ready(a) =>
        /\ HeldFor(a, ciphers[a].keys)
        /\ ciphers[a] = [keys |-> ciphers[a].keys, seq |-> ciphers[a].seq]
        /\ ciphers[a].seq \in 0..MaxSeq

Held ==
    /\ DOMAIN hsKeys = Attempts /\ DOMAIN ciphers = Attempts
    /\ \A a \in Attempts : Holding(a)

\* The session under an id is one the server derived keys for under this id.
Serving(s) ==
    sessions[s] # None => \E a \in Attempts, n \in 1..responses :
        /\ sid[a] = s
        /\ sessions[s] = [eph |-> Ephemeral(a), static |-> Static(ClientOf[a]),
                          tx |-> KeyTx(Secret(a, n)), rx |-> KeyRx(Secret(a, n)),
                          seq |-> sessions[s].seq]
        /\ sessions[s].seq \in 0..MaxSeq

Served == DOMAIN sessions = Sids /\ \A s \in Sids : Serving(s)

\* Whose key encrypted a payload: one the server has derived, or that of a connected client.
Known(p) ==
    /\ p[2] \in Nat
    /\ \E a \in Attempts, n \in 1..responses :
        \/ p[1] = KeyTx(Secret(a, n))
        \/ state[a] = "CONNECTED" /\ p[1] = KeyRx(Secret(a, n))

\* The counter of a cipher is not behind what was encrypted with its key.
ClientCounts(a) ==
    state[a] = "CONNECTED" =>
        \A p \in used : p[1] = ciphers[a].keys.tx => p[2] <= ciphers[a].seq

ServerCounts(s) ==
    sessions[s] # None =>
        \A p \in used : p[1] = sessions[s].tx => p[2] <= sessions[s].seq

Counted ==
    /\ \A p \in used : Known(p)
    /\ \A a \in Attempts : ClientCounts(a)
    /\ \A s \in Sids : ServerCounts(s)
    /\ reused = FALSE

Inv == TypeOK /\ Wire /\ Derived /\ Held /\ Served /\ Counted

------------------------------------------------------------------------------------
(* The symbolic cryptography *)

\* The secret of an exchange tells which attempt and which response took part.
LEMMA SecretsDiffer ==
  ASSUME NEW a, NEW b, NEW n, NEW k, Secret(a, n) = Secret(b, k)
  PROVE  a = b /\ n = k
<1>1. Exchange(Static(Server), Ephemeral(a)) = Exchange(Static(Server), Ephemeral(b))
  BY DEF Secret, ServerMaster
<1>2. Exchange(ServerEphemeral(n), Ephemeral(a)) = Exchange(ServerEphemeral(k), Ephemeral(b))
  BY DEF Secret, ServerMaster
<1>3. "static" # "ephemeral"
  OBVIOUS
<1>4. Ephemeral(a) = Ephemeral(b)
  <2>1. Ephemeral(a) \in {Static(Server), Ephemeral(b)}
    BY <1>1 DEF Exchange
  <2>2. Ephemeral(a) # Static(Server)
    BY <1>3 DEF Ephemeral, Static
  <2> QED
    BY <2>1, <2>2
<1>5. ServerEphemeral(n) = ServerEphemeral(k)
  BY <1>2, <1>4 DEF Exchange
<1> QED
  BY <1>4, <1>5 DEF Ephemeral, ServerEphemeral

\* The two keys of a secret differ from each other and from those of another secret.
LEMMA KeysDiffer ==
  ASSUME NEW s, NEW t
  PROVE  /\ KeyTx(s) # KeyRx(t)
         /\ KeyTx(s) = KeyTx(t) => s = t
         /\ KeyRx(s) = KeyRx(t) => s = t
BY DEF KeyTx, KeyRx

\* A secret and its keys are among those the type invariant speaks of.
LEMMA KeysTyped ==
  ASSUME NEW a \in Attempts, NEW n \in 1..MaxResponses
  PROVE  /\ KeyTx(Secret(a, n)) \in Keys /\ KeyRx(Secret(a, n)) \in Keys
         /\ ClientPair(a, n) \in [tx : Keys, rx : Keys]
<1>1. ClientOf[a] \in Clients
  BY ClientOfAssumption
<1>2. Secret(a, n) \in Secrets
  BY <1>1 DEF Secret, Secrets
<1>3. KeyTx(Secret(a, n)) \in Keys /\ KeyRx(Secret(a, n)) \in Keys
  BY <1>2 DEF Keys
<1> QED
  BY <1>3 DEF ClientPair

\* The server computes the secret of the attempt whose keys it is shown.
LEMMA ServerSecret ==
  ASSUME NEW m, NEW a, NEW n, m.eph = Ephemeral(a), m.static = Static(ClientOf[a])
  PROVE  ServerMaster(m, n) = Secret(a, n)
BY DEF ServerMaster, Secret

\* A client finds a response good only if the secret it computes is the server's, and the
\* server's ephemeral key came through.
LEMMA ClientSecret ==
  ASSUME NEW a, NEW b, NEW n, NEW r, r.eph = ServerEphemeral(n),
         ClientMaster(a, r) = Secret(b, n)
  PROVE  a = b
<1>1. Exchange(Ephemeral(a), Static(Server)) = Exchange(Static(Server), Ephemeral(b))
  BY DEF ClientMaster, Secret, ServerMaster
<1>2. Ephemeral(a) # Static(Server)
  BY DEF Ephemeral, Static
<1>3. Ephemeral(a) = Ephemeral(b)
  BY <1>1, <1>2 DEF Exchange
<1> QED
  BY <1>3 DEF Ephemeral

------------------------------------------------------------------------------------
(* What a message that passes its checks tells *)

\* A HandshakeInit that passes the checks of process_initiation is undamaged and was made
\* by an attempt of a permitted client under the id in it.
LEMMA InitiationTells ==
  ASSUME Inv, NEW m \in wire, m.type = "INIT", GoodInitiation(m)
  PROVE  \E a \in Attempts : /\ Permitted(a) /\ m.sid = sid[a]
                             /\ m.eph = Ephemeral(a) /\ m.static = Static(ClientOf[a])
<1>1. PICK a \in Attempts : sid[a] \in Sids /\ m.tag = Initiation(a, sid[a]).tag
  BY DEF Inv, Wire, Genuine
<1>2. m.tag[2] = <<sid[a], Ephemeral(a), Static(ClientOf[a])>>
  BY <1>1 DEF Initiation, Mac
<1>3. m.tag[2] = <<m.sid, m.eph, m.static>>
  BY DEF GoodInitiation, Mac, Body
<1>4. m.sid = sid[a] /\ m.eph = Ephemeral(a) /\ m.static = Static(ClientOf[a])
  BY <1>2, <1>3
<1>5. Allowed # {} => ClientOf[a] \in Allowed
  BY <1>4 DEF GoodInitiation, PermittedKey, Static
<1> QED
  BY <1>1, <1>4, <1>5 DEF Permitted

\* A HandshakeResp that passes the checks of process_response was made for this attempt,
\* and gives the client the keys the server derived for it.
LEMMA ResponseTells ==
  ASSUME Inv, NEW a \in Attempts, NEW r \in wire, r.type = "RESP", GoodResponse(a, r)
  PROVE  HeldFor(a, ClientKeys(a, r))
<1>1. PICK b \in Attempts, n \in 1..responses :
        /\ Record(b, n) \in derived
        /\ r.tag = Mac(ResponseKey(Secret(b, n)), <<sid[b], ServerEphemeral(n)>>)
  BY DEF Inv, Wire, Genuine
<1>2. r.tag = Mac(ResponseKey(ClientMaster(a, r)), <<r.sid, r.eph>>)
  BY DEF GoodResponse
<1>3. r.tag[2] = <<sid[b], ServerEphemeral(n)>> /\ r.tag[2] = <<r.sid, r.eph>>
  BY <1>1, <1>2 DEF Mac
<1>4. r.eph = ServerEphemeral(n)
  BY <1>3
<1>5. r.tag[1] = ResponseKey(Secret(b, n)) /\ r.tag[1] = ResponseKey(ClientMaster(a, r))
  BY <1>1, <1>2 DEF Mac
<1>6. ClientMaster(a, r) = Secret(b, n)
  BY <1>5 DEF ResponseKey
<1>7. a = b
  BY <1>4, <1>6, ClientSecret
<1>8. ClientKeys(a, r) = ClientPair(a, n)
  BY <1>6, <1>7 DEF ClientKeys, ClientPair
<1> QED
  BY <1>1, <1>7, <1>8 DEF HeldFor

------------------------------------------------------------------------------------
(* What stays: an id is drawn once, and the server forgets nothing it derived *)

Onward ==
    /\ \A a \in Attempts : sid[a] \in Sids => sid'[a] = sid[a]
    /\ responses \in Nat /\ responses' \in Nat /\ responses <= responses'
    /\ derived \subseteq derived'

\* Every step goes onward.
LEMMA StepsOnward ==
  ASSUME Inv, Next
  PROVE  Onward
<1>1. responses \in Nat
  BY DEF Inv, TypeOK
<1>2. CASE UNCHANGED <<sid, responses, derived>>
  BY <1>1, <1>2 DEF Onward
<1>3. ASSUME NEW a \in Attempts, NEW s \in Sids, Start(a, s)
      PROVE  Onward
  <2>1. sid[a] \notin Sids
    BY <1>3, NamesAssumption DEF Start
  <2>2. \A b \in Attempts : sid[b] \in Sids => sid'[b] = sid[b]
    BY <1>3, <2>1 DEF Start, Inv, TypeOK
  <2>3. UNCHANGED <<responses, derived>>
    BY <1>3 DEF Start, serverVars
  <2> QED
    BY <1>1, <2>2, <2>3 DEF Onward
<1>4. ASSUME NEW m \in wire, Accept(m)
      PROVE  Onward
  BY <1>1, <1>4 DEF Onward, Accept, clientVars
<1>5. ASSUME NEW a \in Attempts, NEW r \in wire, Receive(a, r)
      PROVE  UNCHANGED <<sid, responses, derived>>
  BY <1>5 DEF Receive, serverVars
<1>6. ASSUME NEW a \in Attempts, Adopt(a) \/ Connected(a) \/ GiveUp(a) \/ ClientSend(a)
      PROVE  UNCHANGED <<sid, responses, derived>>
  BY <1>6 DEF Adopt, Connected, GiveUp, ClientSend, serverVars
<1>7. ASSUME NEW m \in wire, Damage(m)
      PROVE  UNCHANGED <<sid, responses, derived>>
  BY <1>7 DEF Damage, serverVars, clientVars
<1>8. ASSUME NEW s \in Sids, ServerSend(s)
      PROVE  UNCHANGED <<sid, responses, derived>>
  BY <1>8 DEF ServerSend, clientVars
<1> QED
  BY <1>2, <1>3, <1>4, <1>5, <1>6, <1>7, <1>8 DEF Next

\* What is on record stays on record.
LEMMA RecordsStay ==
  ASSUME Onward
  PROVE  \A a \in Attempts, n \in 1..responses :
           /\ n \in 1..responses'
           /\ sid[a] \in Sids => Record(a, n)' = Record(a, n)
           /\ sid[a] \in Sids /\ Record(a, n) \in derived => Record(a, n)' \in derived'
BY DEF Onward, Record

\* Keys the client holds stay the ones the server derived.
LEMMA HeldStays ==
  ASSUME Onward, NEW a \in Attempts, sid[a] \in Sids, NEW keys, HeldFor(a, keys)
  PROVE  HeldFor(a, keys)'
<1>1. PICK n \in 1..responses : Record(a, n) \in derived /\ keys = ClientPair(a, n)
  BY DEF HeldFor
<1>2. n \in 1..responses' /\ Record(a, n)' \in derived'
  BY <1>1, RecordsStay
<1> QED
  BY <1>1, <1>2 DEF HeldFor

------------------------------------------------------------------------------------
(* The wire, and what the server derived *)

\* What a step does not touch on the wire, or damages only outside the tag, stays genuine.
LEMMA GenuineStays ==
  ASSUME Onward, NEW m, Genuine(m), NEW x, {"type", "tag"} \subseteq DOMAIN x,
         x.type = m.type, x.tag = m.tag
  PROVE  Genuine(x)'
<1>1. ASSUME x.type = "INIT"
      PROVE  \E a \in Attempts : sid'[a] \in Sids /\ x.tag = Initiation(a, sid'[a]).tag
  <2>1. PICK a \in Attempts : sid[a] \in Sids /\ m.tag = Initiation(a, sid[a]).tag
    BY <1>1 DEF Genuine
  <2>2. sid'[a] = sid[a]
    BY <2>1 DEF Onward
  <2> QED
    BY <2>1, <2>2
<1>2. ASSUME x.type = "RESP"
      PROVE  \E a \in Attempts, n \in 1..responses' :
               /\ sid'[a] \in Sids /\ Record(a, n)' \in derived'
               /\ x.tag = Mac(ResponseKey(Secret(a, n)), <<sid'[a], ServerEphemeral(n)>>)
  <2>1. PICK a \in Attempts, n \in 1..responses :
          /\ sid[a] \in Sids /\ Record(a, n) \in derived
          /\ m.tag = Mac(ResponseKey(Secret(a, n)), <<sid[a], ServerEphemeral(n)>>)
    BY <1>2 DEF Genuine
  <2>2. n \in 1..responses' /\ Record(a, n)' \in derived' /\ sid'[a] = sid[a]
    BY <2>1, RecordsStay DEF Onward
  <2> QED
    BY <2>1, <2>2
<1> QED
  BY <1>1, <1>2 DEF Genuine

\* A message that is sent is genuine, and a damaged one keeps its tag.
LEMMA WireStep ==
  ASSUME Inv, Next
  PROVE  Wire'
<1>0. Onward
  BY StepsOnward
<1>1. \A m \in wire : Genuine(m)'
  BY <1>0, GenuineStays DEF Inv, Wire, Genuine
<1>2. CASE wire' = wire
  BY <1>1, <1>2 DEF Wire
<1>3. ASSUME NEW a \in Attempts, NEW s \in Sids, Start(a, s)
      PROVE  Wire'
  <2>1. sid'[a] = s
    BY <1>3 DEF Start, Inv, TypeOK
  <2>2. Genuine(Initiation(a, s))'
    BY <2>1 DEF Genuine, Initiation
  <2>3. wire' = wire \cup {Initiation(a, s)}
    BY <1>3 DEF Start
  <2> QED
    BY <1>1, <2>2, <2>3 DEF Wire
<1>4. ASSUME NEW m \in wire, Accept(m)
      PROVE  Wire'
  <2>0. PICK n : n = responses + 1
    OBVIOUS
  <2>1. PICK a \in Attempts : /\ Permitted(a) /\ m.sid = sid[a]
                              /\ m.eph = Ephemeral(a) /\ m.static = Static(ClientOf[a])
    BY <1>4, InitiationTells DEF Accept
  <2>2. ServerMaster(m, n) = Secret(a, n)
    BY <2>1, ServerSecret
  <2>3. Record(a, n) \in derived'
    BY <1>4, <2>0, <2>1, <2>2 DEF Accept, Record
  <2>4. sid' = sid /\ responses' = n /\ n \in 1..responses'
    BY <1>4, <2>0 DEF Accept, clientVars, Inv, TypeOK
  <2>5. Response(m, n).tag = Mac(ResponseKey(Secret(a, n)), <<sid[a], ServerEphemeral(n)>>)
    BY <2>1, <2>2 DEF Response
  <2>6. /\ {"type", "tag"} \subseteq DOMAIN Response(m, n)
        /\ Response(m, n).type = "RESP"
    BY DEF Response
  <2>7. Record(a, n)' = Record(a, n) /\ sid'[a] \in Sids
    BY <2>1, <2>4 DEF Record, Permitted
  <2>8. Genuine(Response(m, n))'
    BY <2>3, <2>4, <2>5, <2>6, <2>7 DEF Genuine
  <2>9. wire' = wire \cup {Response(m, n)}
    BY <1>4, <2>0 DEF Accept
  <2> QED
    BY <1>1, <2>8, <2>9 DEF Wire
<1>5. ASSUME NEW m \in wire, Damage(m)
      PROVE  Wire'
  <2>1. PICK x : /\ x \in {[m EXCEPT !.sid = s] : s \in Sids \ {m.sid}}
                          \cup {[m EXCEPT !.eph = Ephemeral(None)]}
                 /\ wire' = wire \cup {x}
    BY <1>5 DEF Damage
  <2>2. {"type", "tag"} \subseteq DOMAIN m
    BY DEF Inv, Wire, Genuine
  <2>3. {"type", "tag"} \subseteq DOMAIN x /\ x.type = m.type /\ x.tag = m.tag
    BY <2>1, <2>2
  <2>4. Genuine(x)'
    BY <1>0, <2>3, GenuineStays DEF Inv, Wire
  <2> QED
    BY <1>1, <2>1, <2>4 DEF Wire
<1>6. ASSUME NEW a \in Attempts, NEW r \in wire, Receive(a, r)
      PROVE  wire' = wire
  BY <1>6 DEF Receive
<1>7. ASSUME NEW a \in Attempts, Adopt(a) \/ Connected(a) \/ GiveUp(a) \/ ClientSend(a)
      PROVE  wire' = wire
  BY <1>7 DEF Adopt, Connected, GiveUp, ClientSend
<1>8. ASSUME NEW s \in Sids, ServerSend(s)
      PROVE  wire' = wire
  BY <1>8 DEF ServerSend
<1> QED
  BY <1>2, <1>3, <1>4, <1>5, <1>6, <1>7, <1>8 DEF Next

\* The server derives keys for a permitted attempt under the id it drew, and no others.
LEMMA DerivedStep ==
  ASSUME Inv, Next
  PROVE  Derived'
<1>0. Onward
  BY StepsOnward
<1>1. ASSUME NEW d \in derived
      PROVE  \E a \in Attempts, n \in 1..responses' : Permitted(a)' /\ d = Record(a, n)'
  <2>1. PICK a \in Attempts, n \in 1..responses : Permitted(a) /\ d = Record(a, n)
    BY DEF Inv, Derived
  <2>2. sid'[a] = sid[a] /\ n \in 1..responses' /\ Record(a, n)' = Record(a, n)
    BY <1>0, <2>1, RecordsStay DEF Onward, Permitted
  <2> QED
    BY <2>1, <2>2 DEF Permitted
<1>2. CASE derived' = derived
  BY <1>1, <1>2 DEF Derived
<1>3. ASSUME NEW m \in wire, Accept(m)
      PROVE  Derived'
  <2>0. PICK n : n = responses + 1
    OBVIOUS
  <2>1. PICK a \in Attempts : /\ Permitted(a) /\ m.sid = sid[a]
                              /\ m.eph = Ephemeral(a) /\ m.static = Static(ClientOf[a])
    BY <1>3, InitiationTells DEF Accept
  <2>2. ServerMaster(m, n) = Secret(a, n)
    BY <2>1, ServerSecret
  <2>3. derived' = derived \cup {Record(a, n)}
    BY <1>3, <2>0, <2>1, <2>2 DEF Accept, Record
  <2>4. sid' = sid /\ responses' = n /\ n \in 1..responses'
    BY <1>3, <2>0 DEF Accept, clientVars, Inv, TypeOK
  <2>5. Permitted(a)' /\ Record(a, n)' = Record(a, n)
    BY <2>1, <2>4 DEF Record, Permitted
  <2> QED
    BY <1>1, <2>3, <2>4, <2>5 DEF Derived
<1>4. (\A m \in wire : ~Accept(m)) => derived' = derived
  BY DEF Next, Start, Receive, Adopt, Connected, GiveUp, ClientSend, Damage, ServerSend,
         serverVars
<1> QED
  BY <1>2, <1>3, <1>4

------------------------------------------------------------------------------------
(* What the clients hold *)

\* Keys are held only by an attempt that has drawn its id.
LEMMA HolderHasId ==
  ASSUME Inv, NEW a, NEW keys, HeldFor(a, keys)
  PROVE  sid[a] \in Sids
<1>1. PICK n \in 1..responses : Record(a, n) \in derived
  BY DEF HeldFor
<1>2. PICK b \in Attempts, k \in 1..responses : Permitted(b) /\ Record(a, n) = Record(b, k)
  BY <1>1 DEF Inv, Derived
<1>3. Record(a, n).sid = sid[a] /\ Record(b, k).sid = sid[b]
  BY DEF Record
<1> QED
  BY <1>2, <1>3 DEF Permitted

\* An attempt a step leaves alone holds what it held.
LEMMA HoldingStays ==
  ASSUME Inv, Onward, NEW a \in Attempts, state'[a] = state[a], future'[a] = future[a],
         hsKeys'[a] = hsKeys[a], ciphers'[a] = ciphers[a]
  PROVE  Holding(a)'
<1>0. Holding(a)
  BY DEF Inv, Held
<1>1. state'[a] # "DISCONNECTED" => sid'[a] \in Sids
  BY <1>0 DEF Holding, Onward
<1>2. future'[a] = "ok" \/ hsKeys'[a] # None => HeldFor(a, hsKeys[a])'
  <2>1. PICK keys : keys = hsKeys[a]
    OBVIOUS
  <2>2. HeldFor(a, keys) => HeldFor(a, keys)'
    BY HeldStays, HolderHasId
  <2> QED
    BY <1>0, <2>1, <2>2 DEF Holding, HeldFor
<1>3. Ready(a)' => HeldFor(a, ciphers[a].keys)'
  <2>1. PICK keys : keys = ciphers[a].keys
    OBVIOUS
  <2>2. HeldFor(a, keys) => HeldFor(a, keys)'
    BY HeldStays, HolderHasId
  <2> QED
    BY <1>0, <2>1, <2>2 DEF Holding, HeldFor, Ready
<1> QED
  BY <1>0, <1>1, <1>2, <1>3 DEF Holding, Ready

\* Every client step leaves the client with keys the server derived for it.
LEMMA HeldStep ==
  ASSUME Inv, Next
  PROVE  Held'
<1>0. Onward
  BY StepsOnward
<1>1. CASE UNCHANGED clientVars
  BY <1>0, <1>1, HoldingStays DEF clientVars, Held, Inv
<1>2. ASSUME NEW a \in Attempts, NEW s \in Sids, Start(a, s)
      PROVE  Held'
  <2>1. \A b \in Attempts \ {a} : Holding(b)'
    BY <1>0, <1>2, HoldingStays DEF Start, Inv, TypeOK
  <2>2. sid[a] \notin Sids /\ Holding(a)
    BY <1>2, NamesAssumption DEF Start, Inv, Held
  <2>3. hsKeys[a] = None /\ ciphers[a] = None
    BY <2>2, HolderHasId DEF Holding, Ready
  <2>4. /\ state'[a] = "AUTHENTICATING" /\ sid'[a] = s /\ future'[a] = "pending"
        /\ hsKeys' = hsKeys /\ ciphers' = ciphers
    BY <1>2 DEF Start, Inv, TypeOK
  <2>5. Holding(a)'
    BY <2>3, <2>4 DEF Holding, Ready
  <2> QED
    BY <2>1, <2>4, <2>5 DEF Held, Inv
<1>3. ASSUME NEW a \in Attempts, NEW r \in wire, Receive(a, r)
      PROVE  Held'
  <2>1. UNCHANGED <<state, sid, ciphers, responses, derived>> /\ state[a] = "AUTHENTICATING"
    BY <1>3 DEF Receive, serverVars
  <2>2. /\ DOMAIN hsKeys' = Attempts
        /\ \A b \in Attempts \ {a} : future'[b] = future[b] /\ hsKeys'[b] = hsKeys[b]
    BY <1>3 DEF Receive, Inv, TypeOK, Held
  <2>3. \A b \in Attempts \ {a} : Holding(b)'
    BY <1>0, <2>1, <2>2, HoldingStays
  <2>4. Holding(a)'
    <3>0. Holding(a)
      BY DEF Inv, Held
    <3>1. CASE GoodResponse(a, r)
      <4>1. PICK keys : keys = ClientKeys(a, r)
        OBVIOUS
      <4>2. HeldFor(a, keys)
        BY <1>3, <3>1, <4>1, ResponseTells DEF Receive
      <4>3. HeldFor(a, keys)'
        BY <1>0, <4>2, HeldStays, HolderHasId
      <4>4. hsKeys'[a] = keys
        BY <1>3, <3>1, <4>1 DEF Receive, Inv, Held
      <4>5. HeldFor(a, hsKeys[a])'
        BY <4>3, <4>4 DEF HeldFor
      <4> QED
        BY <2>1, <3>0, <4>5 DEF Holding, HeldFor, Record, Ready
    <3>2. CASE ~GoodResponse(a, r)
      <4>1. hsKeys' = hsKeys /\ (future'[a] = "ok" => future[a] = "ok")
        BY <1>3, <3>2 DEF Receive, Inv, TypeOK
      <4> QED
        BY <2>1, <3>0, <4>1 DEF Holding, HeldFor, Record, Ready
    <3> QED
      BY <3>1, <3>2
  <2> QED
    BY <2>1, <2>2, <2>3, <2>4 DEF Held, Inv
<1>4. ASSUME NEW a \in Attempts, Adopt(a)
      PROVE  Held'
  <2>1. /\ UNCHANGED <<state, sid, future, hsKeys, responses, derived>>
        /\ ciphers' = [ciphers EXCEPT ![a] = [keys |-> hsKeys[a], seq |-> 0]]
        /\ future[a] = "ok"
    BY <1>4 DEF Adopt, serverVars
  <2>2. \A b \in Attempts \ {a} : Holding(b)'
    BY <1>0, <2>1, HoldingStays DEF Inv, Held
  <2>3. ciphers'[a] = [keys |-> hsKeys[a], seq |-> 0] /\ DOMAIN ciphers' = Attempts
    BY <2>1 DEF Inv, Held
  <2>4. Holding(a)
    BY DEF Inv, Held
  <2>5. HeldFor(a, hsKeys[a])' /\ HeldFor(a, ciphers[a].keys)'
    BY <2>1, <2>3, <2>4 DEF Holding, HeldFor, Record
  <2>6. Holding(a)'
    BY <2>1, <2>3, <2>4, <2>5 DEF Holding
  <2> QED
    BY <2>1, <2>2, <2>3, <2>6 DEF Held, Inv
<1>5. ASSUME NEW a \in Attempts, Connected(a) \/ GiveUp(a)
      PROVE  Held'
  <2>1. /\ UNCHANGED <<sid, hsKeys, ciphers, responses, derived>>
        /\ state[a] = "AUTHENTICATING"
        /\ future'[a] = "ok" => future[a] = "ok"
        /\ state'[a] = "CONNECTED" => ciphers[a] # None
        /\ \A b \in Attempts \ {a} : state'[b] = state[b] /\ future'[b] = future[b]
    BY <1>5 DEF Connected, GiveUp, serverVars, Inv, TypeOK
  <2>2. \A b \in Attempts \ {a} : Holding(b)'
    BY <1>0, <2>1, HoldingStays
  <2>3. Holding(a)
    BY DEF Inv, Held
  <2>4. Holding(a)'
    BY <2>1, <2>3 DEF Holding, HeldFor, Record, Ready
  <2> QED
    BY <2>1, <2>2, <2>4 DEF Held, Inv
<1>6. ASSUME NEW a \in Attempts, ClientSend(a)
      PROVE  Held'
  <2>1. /\ UNCHANGED <<state, sid, future, hsKeys, responses, derived>>
        /\ state[a] = "CONNECTED" /\ ciphers[a].seq < MaxSeq
        /\ ciphers' = [ciphers EXCEPT ![a].seq = @ + 1]
    BY <1>6 DEF ClientSend, serverVars
  <2>2. \A b \in Attempts \ {a} : Holding(b)'
    BY <1>0, <2>1, HoldingStays DEF Inv, Held
  <2>3. Holding(a) /\ Ready(a)
    BY <2>1 DEF Inv, Held, Ready
  <2>4. /\ ciphers'[a] = [keys |-> ciphers[a].keys, seq |-> ciphers[a].seq + 1]
        /\ DOMAIN ciphers' = Attempts
    BY <2>1, <2>3 DEF Holding, Inv, Held
  <2>5. HeldFor(a, ciphers[a].keys)'
    BY <2>1, <2>3, <2>4 DEF Holding, HeldFor, Record
  <2>6. HeldFor(a, hsKeys[a]) => HeldFor(a, hsKeys[a])'
    BY <2>1 DEF HeldFor, Record
  <2>7. ciphers'[a].seq \in 0..MaxSeq
    BY <2>1, <2>3, <2>4 DEF Holding
  <2>8. Holding(a)'
    BY <2>1, <2>3, <2>4, <2>5, <2>6, <2>7 DEF Holding
  <2> QED
    BY <2>1, <2>2, <2>4, <2>8 DEF Held, Inv
<1>7. ASSUME NEW m \in wire, Accept(m) \/ Damage(m)
      PROVE  UNCHANGED clientVars
  BY <1>7 DEF Accept, Damage
<1>8. ASSUME NEW s \in Sids, ServerSend(s)
      PROVE  UNCHANGED clientVars
  BY <1>8 DEF ServerSend
<1> QED
  BY <1>1, <1>2, <1>3, <1>4, <1>5, <1>6, <1>7, <1>8 DEF Next

------------------------------------------------------------------------------------
(* What the server holds *)

\* A session a step leaves alone stays what it was.
LEMMA ServingStays ==
  ASSUME Inv, Onward, NEW s \in Sids, sessions'[s] = sessions[s]
  PROVE  Serving(s)'
<1>1. ASSUME sessions[s] # None
      PROVE  \E a \in Attempts, n \in 1..responses' :
               /\ sid'[a] = s
               /\ sessions[s] = [eph |-> Ephemeral(a), static |-> Static(ClientOf[a]),
                                 tx |-> KeyTx(Secret(a, n)), rx |-> KeyRx(Secret(a, n)),
                                 seq |-> sessions[s].seq]
               /\ sessions[s].seq \in 0..MaxSeq
  BY <1>1, RecordsStay DEF Inv, Served, Serving, Onward
<1> QED
  BY <1>1 DEF Serving

\* An accepted HandshakeInit makes a session from keys just derived; a payload counts on.
LEMMA ServedStep ==
  ASSUME Inv, Next
  PROVE  Served'
<1>0. Onward
  BY StepsOnward
<1>1. CASE sessions' = sessions
  BY <1>0, <1>1, ServingStays DEF Served, Inv
<1>2. ASSUME NEW m \in wire, Accept(m)
      PROVE  Served'
  <2>0. PICK n : n = responses + 1
    OBVIOUS
  <2>1. PICK a \in Attempts : /\ Permitted(a) /\ m.sid = sid[a]
                              /\ m.eph = Ephemeral(a) /\ m.static = Static(ClientOf[a])
    BY <1>2, InitiationTells DEF Accept
  <2>2. ServerMaster(m, n) = Secret(a, n)
    BY <2>1, ServerSecret
  <2>3. sid' = sid /\ responses' = n /\ n \in 1..responses'
    BY <1>2, <2>0 DEF Accept, clientVars, Inv, TypeOK
  <2>4. sessions' = [sessions EXCEPT ![sid[a]] =
            [eph |-> Ephemeral(a), static |-> Static(ClientOf[a]),
             tx |-> KeyTx(Secret(a, n)), rx |-> KeyRx(Secret(a, n)), seq |-> 0]]
    BY <1>2, <2>0, <2>1, <2>2 DEF Accept
  <2>5. Serving(sid[a])'
    <3>1. PICK s \in Sids : s = sid[a]
      BY <2>1 DEF Permitted
    <3>2. sessions'[s] = [eph |-> Ephemeral(a), static |-> Static(ClientOf[a]),
                          tx |-> KeyTx(Secret(a, n)), rx |-> KeyRx(Secret(a, n)), seq |-> 0]
      BY <2>4, <3>1 DEF Inv, Served
    <3>3. sessions'[s].seq = 0
      BY <3>2
    <3> QED
      BY <2>3, <3>1, <3>2, <3>3 DEF Serving
  <2>6. \A s \in Sids \ {sid[a]} : Serving(s)'
    BY <1>0, <2>4, ServingStays DEF Inv, Served
  <2>7. DOMAIN sessions' = Sids
    BY <2>4 DEF Inv, Served
  <2> QED
    BY <2>3, <2>5, <2>6, <2>7 DEF Served
<1>3. ASSUME NEW s \in Sids, ServerSend(s)
      PROVE  Served'
  <2>1. /\ sessions[s] # None /\ sessions[s].seq < MaxSeq
        /\ sessions' = [sessions EXCEPT ![s].seq = @ + 1]
        /\ UNCHANGED <<sid, responses>>
    BY <1>3 DEF ServerSend, clientVars
  <2>2. PICK a \in Attempts, n \in 1..responses :
          /\ sid[a] = s
          /\ sessions[s] = [eph |-> Ephemeral(a), static |-> Static(ClientOf[a]),
                            tx |-> KeyTx(Secret(a, n)), rx |-> KeyRx(Secret(a, n)),
                            seq |-> sessions[s].seq]
          /\ sessions[s].seq \in 0..MaxSeq
    BY <2>1 DEF Inv, Served, Serving
  <2>3. sessions'[s] = [eph |-> Ephemeral(a), static |-> Static(ClientOf[a]),
                        tx |-> KeyTx(Secret(a, n)), rx |-> KeyRx(Secret(a, n)),
                        seq |-> sessions[s].seq + 1]
    BY <2>1, <2>2 DEF Inv, Served
  <2>4. sessions'[s].seq = sessions[s].seq + 1 /\ sessions'[s].seq \in 0..MaxSeq
    BY <2>1, <2>2, <2>3
  <2>5. Serving(s)'
    BY <2>1, <2>2, <2>3, <2>4 DEF Serving
  <2>6. \A t \in Sids \ {s} : Serving(t)'
    BY <1>0, <2>1, ServingStays DEF Inv, Served
  <2>7. DOMAIN sessions' = Sids
    BY <2>1 DEF Inv, Served
  <2> QED
    BY <2>5, <2>6, <2>7 DEF Served
<1>4. \/ sessions' = sessions
      \/ \E m \in wire : Accept(m)
      \/ \E s \in Sids : ServerSend(s)
  BY DEF Next, Start, Receive, Adopt, Connected, GiveUp, ClientSend, Damage, serverVars
<1> QED
  BY <1>1, <1>2, <1>3, <1>4

------------------------------------------------------------------------------------
(* Nonces *)

\* The key a client sends with is the receiving key of its own attempt.
LEMMA ClientKey ==
  ASSUME Inv, NEW a \in Attempts, Ready(a)
  PROVE  \E n \in 1..responses : ciphers[a].keys.tx = KeyRx(Secret(a, n))
<1>1. PICK n \in 1..responses : ciphers[a].keys = ClientPair(a, n)
  BY DEF Inv, Held, Holding, HeldFor
<1> QED
  BY <1>1 DEF ClientPair

\* The key of a session is the sending key of an attempt under the id of the session.
LEMMA ServerKey ==
  ASSUME Inv, NEW s \in Sids, sessions[s] # None
  PROVE  \E a \in Attempts, n \in 1..responses :
           sid[a] = s /\ sessions[s].tx = KeyTx(Secret(a, n))
BY DEF Inv, Served, Serving

\* A connected client stays connected, and becomes so only from a finished handshake.
LEMMA ConnectedStays ==
  ASSUME Inv, Next
  PROVE  \A a \in Attempts : state[a] = "CONNECTED" => state'[a] = "CONNECTED"
<1>1. CASE state' = state
  BY <1>1
<1>2. ASSUME NEW a \in Attempts, (\E s \in Sids : Start(a, s)) \/ Connected(a) \/ GiveUp(a)
      PROVE  \A b \in Attempts : state[b] = "CONNECTED" => state'[b] = "CONNECTED"
  BY <1>2 DEF Start, Connected, GiveUp, Inv, TypeOK
<1>3. \/ state' = state
      \/ \E a \in Attempts : (\E s \in Sids : Start(a, s)) \/ Connected(a) \/ GiveUp(a)
  BY DEF Next, Receive, Adopt, ClientSend, Accept, Damage, ServerSend, clientVars
<1> QED
  BY <1>1, <1>2, <1>3

\* What encrypted stays known.
LEMMA KnownStays ==
  ASSUME Inv, Next, NEW p, Known(p)
  PROVE  Known(p)'
BY StepsOnward, RecordsStay, ConnectedStays DEF Known

\* No step encrypts a second payload with a key and number that have encrypted one.
LEMMA CountedStep ==
  ASSUME Inv, Next
  PROVE  Counted'
<1>0. Onward /\ Inv
  BY StepsOnward
<1>1. \A p \in used : Known(p) /\ Known(p)'
  BY KnownStays DEF Inv, Counted
<1>2. reused = FALSE
  BY DEF Inv, Counted
<1>3. \A a \in Attempts : ClientCounts(a)
  BY DEF Inv, Counted
<1>4. \A s \in Sids : ServerCounts(s)
  BY DEF Inv, Counted
<1>5. CASE /\ UNCHANGED <<sessions, ciphers, used, reused>>
           /\ \A a \in Attempts : state'[a] = "CONNECTED" => state[a] = "CONNECTED"
  <2>1. \A a \in Attempts : ClientCounts(a)'
    BY <1>3, <1>5 DEF ClientCounts
  <2>2. \A s \in Sids : ServerCounts(s)'
    BY <1>4, <1>5 DEF ServerCounts
  <2> QED
    BY <1>1, <1>2, <1>5, <2>1, <2>2 DEF Counted
<1>6. ASSUME NEW a \in Attempts, Adopt(a)
      PROVE  Counted'
  <2>1. /\ UNCHANGED <<state, sessions, used, reused>> /\ state[a] = "AUTHENTICATING"
        /\ \A b \in Attempts \ {a} : ciphers'[b] = ciphers[b]
    BY <1>6 DEF Adopt, serverVars, Inv, Held
  <2>2. \A b \in Attempts : ClientCounts(b)'
    BY <1>3, <2>1 DEF ClientCounts
  <2>3. \A s \in Sids : ServerCounts(s)'
    BY <1>4, <2>1 DEF ServerCounts
  <2> QED
    BY <1>1, <1>2, <2>1, <2>2, <2>3 DEF Counted
<1>7. ASSUME NEW a \in Attempts, Connected(a)
      PROVE  Counted'
  <2>1. /\ UNCHANGED <<ciphers, sessions, used, reused>> /\ state[a] = "AUTHENTICATING"
        /\ \A b \in Attempts \ {a} : state'[b] = state[b]
        /\ Ready(a)
    BY <1>7 DEF Connected, serverVars, Inv, TypeOK, Ready
  <2>2. PICK n \in 1..responses : ciphers[a].keys.tx = KeyRx(Secret(a, n))
    BY <2>1, ClientKey
  <2>3. \A p \in used : p[1] # ciphers[a].keys.tx
    <3> SUFFICES ASSUME NEW p \in used, p[1] = KeyRx(Secret(a, n))
                 PROVE  FALSE
      BY <2>2
    <3>1. PICK b \in Attempts, k \in 1..responses :
            \/ p[1] = KeyTx(Secret(b, k))
            \/ state[b] = "CONNECTED" /\ p[1] = KeyRx(Secret(b, k))
      BY <1>1 DEF Known
    <3>2. state[b] = "CONNECTED" /\ Secret(b, k) = Secret(a, n)
      BY <3>1, KeysDiffer
    <3>3. b = a
      BY <3>2, SecretsDiffer
    <3> QED
      BY <2>1, <3>2, <3>3
  <2>4. \A b \in Attempts : ClientCounts(b)'
    BY <1>3, <2>1, <2>3 DEF ClientCounts
  <2>5. \A s \in Sids : ServerCounts(s)'
    BY <1>4, <2>1 DEF ServerCounts
  <2> QED
    BY <1>1, <1>2, <2>1, <2>4, <2>5 DEF Counted
<1>8. ASSUME NEW a \in Attempts, ClientSend(a)
      PROVE  Counted'
  <2>0. PICK key, seq : key = ciphers[a].keys.tx /\ seq = ciphers[a].seq + 1
    OBVIOUS
  <2>1. /\ UNCHANGED <<state, sessions>> /\ state[a] = "CONNECTED"
        /\ ciphers' = [ciphers EXCEPT ![a].seq = @ + 1]
        /\ used' = used \cup {<<key, seq>>} /\ reused' = (reused \/ <<key, seq>> \in used)
    BY <1>8, <2>0 DEF ClientSend, serverVars, Encrypted
  <2>2. /\ ciphers[a] = [keys |-> ciphers[a].keys, seq |-> ciphers[a].seq]
        /\ ciphers[a].seq \in 0..MaxSeq /\ Ready(a)
    BY <2>1 DEF Inv, Held, Holding, Ready
  <2>3. PICK n \in 1..responses : key = KeyRx(Secret(a, n))
    BY <2>0, <2>2, ClientKey
  <2>4. <<key, seq>> \notin used
    <3> SUFFICES ASSUME <<key, seq>> \in used
                 PROVE  FALSE
      OBVIOUS
    <3>1. seq <= ciphers[a].seq
      BY <1>3, <2>0, <2>1 DEF ClientCounts
    <3> QED
      BY <2>0, <2>2, <3>1
  <2>5. ciphers'[a].keys.tx = key /\ ciphers'[a].seq = seq
    BY <2>0, <2>1, <2>2 DEF Inv, Held
  <2>6. \A p \in used' : Known(p)'
    <3>1. Known(<<key, seq>>)'
      BY <1>0, <2>0, <2>1, <2>2, <2>3, RecordsStay DEF Known
    <3> QED
      BY <1>1, <2>1, <3>1
  <2>7. ClientCounts(a)'
    <3>1. \A p \in used : p[1] = key => p[2] <= seq
      BY <1>1, <1>3, <2>0, <2>1, <2>2 DEF ClientCounts, Known
    <3> QED
      BY <2>0, <2>1, <2>2, <2>5, <3>1 DEF ClientCounts
  <2>8. \A b \in Attempts \ {a} : ClientCounts(b)'
    <3> SUFFICES ASSUME NEW b \in Attempts \ {a}, state[b] = "CONNECTED"
                 PROVE  \A p \in used' : p[1] = ciphers'[b].keys.tx => p[2] <= ciphers'[b].seq
      BY <2>1 DEF ClientCounts
    <3>1. PICK k \in 1..responses : ciphers[b].keys.tx = KeyRx(Secret(b, k))
      BY ClientKey DEF Ready
    <3>2. key # ciphers[b].keys.tx
      BY <2>3, <3>1, KeysDiffer, SecretsDiffer
    <3>3. ciphers'[b] = ciphers[b]
      BY <2>1 DEF Inv, Held
    <3> QED
      BY <1>3, <2>1, <3>2, <3>3 DEF ClientCounts
  <2>9. \A s \in Sids : ServerCounts(s)'
    <3> SUFFICES ASSUME NEW s \in Sids, sessions[s] # None
                 PROVE  \A p \in used' : p[1] = sessions[s].tx => p[2] <= sessions[s].seq
      BY <2>1 DEF ServerCounts
    <3>1. key # sessions[s].tx
      BY <2>3, ServerKey, KeysDiffer
    <3> QED
      BY <1>4, <2>1, <3>1 DEF ServerCounts
  <2> QED
    BY <1>2, <2>1, <2>4, <2>6, <2>7, <2>8, <2>9 DEF Counted
<1>9. ASSUME NEW m \in wire, Accept(m)
      PROVE  Counted'
  <2>0. PICK n : n = responses + 1
    OBVIOUS
  <2>1. PICK a \in Attempts : /\ Permitted(a) /\ m.sid = sid[a]
                              /\ m.eph = Ephemeral(a) /\ m.static = Static(ClientOf[a])
    BY <1>9, InitiationTells DEF Accept
  <2>2. ServerMaster(m, n) = Secret(a, n)
    BY <2>1, ServerSecret
  <2>3. UNCHANGED <<state, ciphers, used, reused>>
    BY <1>9 DEF Accept, clientVars
  <2>4. /\ DOMAIN sessions = Sids
        /\ sessions' = [sessions EXCEPT ![m.sid] =
              [eph |-> m.eph, static |-> m.static, tx |-> KeyTx(Secret(a, n)),
               rx |-> KeyRx(Secret(a, n)), seq |-> 0]]
    BY <1>9, <2>0, <2>2 DEF Accept, Inv, Served
  <2>5. \A p \in used : p[1] # KeyTx(Secret(a, n))
    <3> SUFFICES ASSUME NEW p \in used, p[1] = KeyTx(Secret(a, n))
                 PROVE  FALSE
      OBVIOUS
    <3>1. PICK b \in Attempts, k \in 1..responses :
            \/ p[1] = KeyTx(Secret(b, k))
            \/ state[b] = "CONNECTED" /\ p[1] = KeyRx(Secret(b, k))
      BY <1>1 DEF Known
    <3>2. Secret(b, k) = Secret(a, n)
      BY <3>1, KeysDiffer
    <3>3. k = n
      BY <3>2, SecretsDiffer
    <3> QED
      BY <2>0, <3>3 DEF Inv, TypeOK
  <2>6. ASSUME NEW s \in Sids
        PROVE  ServerCounts(s)'
    <3>1. CASE s = m.sid
      <4>1. sessions'[s].tx = KeyTx(Secret(a, n))
        BY <2>4, <3>1
      <4> QED
        BY <2>3, <2>5, <4>1 DEF ServerCounts
    <3>2. CASE s # m.sid
      BY <1>4, <2>3, <2>4, <3>2 DEF ServerCounts
    <3> QED
      BY <3>1, <3>2
  <2>7. \A b \in Attempts : ClientCounts(b)'
    BY <1>3, <2>3 DEF ClientCounts
  <2> QED
    BY <1>1, <1>2, <2>3, <2>6, <2>7 DEF Counted
<1>10. ASSUME NEW s \in Sids, ServerSend(s)
       PROVE  Counted'
  <2>0. PICK key, seq : key = sessions[s].tx /\ seq = sessions[s].seq + 1
    OBVIOUS
  <2>1. /\ UNCHANGED <<state, ciphers>> /\ sessions[s] # None
        /\ sessions' = [sessions EXCEPT ![s].seq = @ + 1]
        /\ used' = used \cup {<<key, seq>>} /\ reused' = (reused \/ <<key, seq>> \in used)
    BY <1>10, <2>0 DEF ServerSend, clientVars, Encrypted
  <2>2. PICK a \in Attempts, n \in 1..responses :
          /\ sid[a] = s /\ key = KeyTx(Secret(a, n))
          /\ sessions[s] = [eph |-> Ephemeral(a), static |-> Static(ClientOf[a]),
                            tx |-> KeyTx(Secret(a, n)), rx |-> KeyRx(Secret(a, n)),
                            seq |-> sessions[s].seq]
          /\ sessions[s].seq \in 0..MaxSeq
    BY <2>0, <2>1 DEF Inv, Served, Serving
  <2>4. <<key, seq>> \notin used
    <3> SUFFICES ASSUME <<key, seq>> \in used
                 PROVE  FALSE
      OBVIOUS
    <3>1. seq <= sessions[s].seq
      BY <1>4, <2>0, <2>1 DEF ServerCounts
    <3> QED
      BY <2>0, <2>2, <3>1
  <2>5. sessions'[s].tx = key /\ sessions'[s].seq = seq
    BY <2>0, <2>1, <2>2 DEF Inv, Served
  <2>6. \A p \in used' : Known(p)'
    <3>1. Known(<<key, seq>>)'
      BY <1>0, <2>0, <2>1, <2>2, RecordsStay DEF Known
    <3> QED
      BY <1>1, <2>1, <3>1
  <2>7. ServerCounts(s)'
    <3>1. \A p \in used : p[1] = key => p[2] <= seq
      BY <1>1, <1>4, <2>0, <2>1, <2>2 DEF ServerCounts, Known
    <3> QED
      BY <2>0, <2>1, <2>2, <2>5, <3>1 DEF ServerCounts
  <2>8. \A t \in Sids \ {s} : ServerCounts(t)'
    <3> SUFFICES ASSUME NEW t \in Sids \ {s}, sessions[t] # None
                 PROVE  \A p \in used' : p[1] = sessions[t].tx => p[2] <= sessions[t].seq
      BY <2>1 DEF ServerCounts, Inv, Served
    <3>1. PICK b \in Attempts, k \in 1..responses :
            sid[b] = t /\ sessions[t].tx = KeyTx(Secret(b, k))
      BY ServerKey
    <3>2. key # sessions[t].tx
      BY <2>2, <3>1, KeysDiffer, SecretsDiffer
    <3> QED
      BY <1>4, <2>1, <3>2 DEF ServerCounts
  <2>9. \A b \in Attempts : ClientCounts(b)'
    <3> SUFFICES ASSUME NEW b \in Attempts, state[b] = "CONNECTED"
                 PROVE  \A p \in used' : p[1] = ciphers[b].keys.tx => p[2] <= ciphers[b].seq
      BY <2>1 DEF ClientCounts
    <3>1. key # ciphers[b].keys.tx
      BY <2>2, ClientKey, KeysDiffer DEF Ready
    <3> QED
      BY <1>3, <2>1, <3>1 DEF ClientCounts
  <2> QED
    BY <1>2, <2>1, <2>4, <2>6, <2>7, <2>8, <2>9 DEF Counted
<1>11. ASSUME NEW a \in Attempts, GiveUp(a) \/ (\E s \in Sids : Start(a, s))
       PROVE  /\ UNCHANGED <<sessions, ciphers, used, reused>>
              /\ \A b \in Attempts : state'[b] = "CONNECTED" => state[b] = "CONNECTED"
  BY <1>11 DEF GiveUp, Start, serverVars, Inv, TypeOK
<1>12. ASSUME NEW m \in wire, Damage(m) \/ (\E a \in Attempts : Receive(a, m))
       PROVE  UNCHANGED <<state, sessions, ciphers, used, reused>>
  BY <1>12 DEF Damage, Receive, clientVars, serverVars
<1> QED
  BY <1>5, <1>6, <1>7, <1>8, <1>9, <1>10, <1>11, <1>12 DEF Next

------------------------------------------------------------------------------------
(* The theorems *)

\* Every step keeps the types: what is held or derived says which keys they are.
LEMMA TypeStep ==
  ASSUME Inv, Next, Derived', Held', Served', Counted'
  PROVE  TypeOK'
<1>0. /\ state \in [Attempts -> {"DISCONNECTED", "AUTHENTICATING", "CONNECTED"}]
      /\ sid \in [Attempts -> Sids \cup {None}]
      /\ future \in [Attempts -> {"pending", "ok", "failed"}]
  BY DEF Inv, TypeOK
<1>1. /\ state' \in [Attempts -> {"DISCONNECTED", "AUTHENTICATING", "CONNECTED"}]
      /\ sid' \in [Attempts -> Sids \cup {None}]
      /\ future' \in [Attempts -> {"pending", "ok", "failed"}]
  <2>1. ASSUME NEW a \in Attempts, NEW s \in Sids, Start(a, s)
        PROVE  /\ state' \in [Attempts -> {"DISCONNECTED", "AUTHENTICATING", "CONNECTED"}]
               /\ sid' \in [Attempts -> Sids \cup {None}]
               /\ future' \in [Attempts -> {"pending", "ok", "failed"}]
    BY <1>0, <2>1 DEF Start
  <2>2. ASSUME NEW a \in Attempts, NEW m \in wire, Receive(a, m)
        PROVE  /\ state' \in [Attempts -> {"DISCONNECTED", "AUTHENTICATING", "CONNECTED"}]
               /\ sid' \in [Attempts -> Sids \cup {None}]
               /\ future' \in [Attempts -> {"pending", "ok", "failed"}]
    BY <1>0, <2>2 DEF Receive
  <2>3. ASSUME NEW a \in Attempts, Connected(a)
        PROVE  /\ state' \in [Attempts -> {"DISCONNECTED", "AUTHENTICATING", "CONNECTED"}]
               /\ sid' \in [Attempts -> Sids \cup {None}]
               /\ future' \in [Attempts -> {"pending", "ok", "failed"}]
    BY <1>0, <2>3 DEF Connected
  <2>4. ASSUME NEW a \in Attempts, GiveUp(a)
        PROVE  /\ state' \in [Attempts -> {"DISCONNECTED", "AUTHENTICATING", "CONNECTED"}]
               /\ sid' \in [Attempts -> Sids \cup {None}]
               /\ future' \in [Attempts -> {"pending", "ok", "failed"}]
    BY <1>0, <2>4 DEF GiveUp
  <2>5. CASE UNCHANGED <<state, sid, future>>
    BY <1>0, <2>5
  <2>6. ASSUME NEW a \in Attempts, Adopt(a) \/ ClientSend(a)
        PROVE  UNCHANGED <<state, sid, future>>
    BY <2>6 DEF Adopt, ClientSend
  <2>7. ASSUME NEW m \in wire, Accept(m) \/ Damage(m)
        PROVE  UNCHANGED <<state, sid, future>>
    BY <2>7 DEF Accept, Damage, clientVars
  <2>8. ASSUME NEW s \in Sids, ServerSend(s)
        PROVE  UNCHANGED <<state, sid, future>>
    BY <2>8 DEF ServerSend, clientVars
  <2> QED
    BY <2>1, <2>2, <2>3, <2>4, <2>5, <2>6, <2>7, <2>8 DEF Next
<1>4. responses' \in 0..MaxResponses
  <2>1. \A m \in wire : Accept(m) => responses' = responses + 1 /\ responses < MaxResponses
    BY DEF Accept
  <2>2. (\A m \in wire : ~Accept(m)) => responses' = responses
    BY DEF Next, Start, Receive, Adopt, Connected, GiveUp, ClientSend, Damage, ServerSend,
           serverVars
  <2>3. responses \in 0..MaxResponses
    BY DEF Inv, TypeOK
  <2> QED
    BY <2>1, <2>2, <2>3
<1>5. \A a \in Attempts : hsKeys'[a] # None => hsKeys'[a] \in [tx : Keys, rx : Keys]
  <2> SUFFICES ASSUME NEW a \in Attempts, hsKeys'[a] # None
               PROVE  hsKeys'[a] \in [tx : Keys, rx : Keys]
    OBVIOUS
  <2>1. HeldFor(a, hsKeys[a])'
    BY DEF Held, Holding
  <2> QED
    BY <1>4, <2>1, KeysTyped DEF HeldFor
<1>6. ASSUME NEW a \in Attempts, ciphers'[a] # None
      PROVE  ciphers'[a] \in [keys : [tx : Keys, rx : Keys], seq : 0..MaxSeq]
  <2>1. /\ HeldFor(a, ciphers[a].keys)' /\ ciphers'[a].seq \in 0..MaxSeq
        /\ ciphers'[a] = [keys |-> ciphers'[a].keys, seq |-> ciphers'[a].seq]
    BY <1>6 DEF Held, Holding, Ready
  <2>2. ciphers'[a].keys \in [tx : Keys, rx : Keys]
    BY <1>4, <2>1, KeysTyped DEF HeldFor
  <2> QED
    BY <2>1, <2>2
<1>7. \A s \in Sids : sessions'[s] # None => sessions'[s].seq \in 0..MaxSeq
  BY DEF Served, Serving
<1>8. ASSUME NEW d \in derived'
      PROVE  d.sid \in Sids /\ d.tx \in Keys /\ d.rx \in Keys
  <2>1. PICK a \in Attempts, n \in 1..responses' : Permitted(a)' /\ d = Record(a, n)'
    BY DEF Derived
  <2>2. d.sid = sid'[a] /\ d.tx = KeyTx(Secret(a, n)) /\ d.rx = KeyRx(Secret(a, n))
    BY <2>1 DEF Record
  <2> QED
    BY <1>4, <2>1, <2>2, KeysTyped DEF Permitted
<1>9. reused' \in BOOLEAN
  BY DEF Counted
<1> QED
  BY <1>1, <1>4, <1>5, <1>6, <1>7, <1>8, <1>9 DEF TypeOK

\* Everything the exchange relies on holds at the start and is kept by every step.
LEMMA Invariance == Spec => []Inv
<1>1. Init => Inv
  <2> SUFFICES ASSUME Init
               PROVE  Inv
    OBVIOUS
  <2>1. TypeOK
    <3>1. /\ state \in [Attempts -> {"DISCONNECTED", "AUTHENTICATING", "CONNECTED"}]
          /\ sid \in [Attempts -> Sids \cup {None}]
          /\ future \in [Attempts -> {"pending", "ok", "failed"}]
      BY DEF Init
    <3>2. /\ \A a \in Attempts : hsKeys[a] = None /\ ciphers[a] = None
          /\ \A s \in Sids : sessions[s] = None
      BY DEF Init
    <3>3. responses \in 0..MaxResponses
      BY DEF Init
    <3>4. derived = {} /\ reused = FALSE
      BY DEF Init
    <3> QED
      BY <3>1, <3>2, <3>3, <3>4 DEF TypeOK
  <2>2. Wire /\ Derived
    BY DEF Init, Wire, Derived
  <2>3. Held /\ Served
    BY DEF Init, Held, Holding, Ready, Served, Serving
  <2>4. Counted
    BY DEF Init, Counted, ClientCounts, ServerCounts
  <2> QED
    BY <2>1, <2>2, <2>3, <2>4 DEF Inv
<1>2. Inv /\ [Next]_vars => Inv'
  <2> SUFFICES ASSUME Inv, [Next]_vars
               PROVE  Inv'
    OBVIOUS
  <2>1. CASE Next
    BY <2>1, WireStep, DerivedStep, HeldStep, ServedStep, CountedStep, TypeStep DEF Inv
  <2>2. CASE UNCHANGED vars
    <3>1. TypeOK' /\ Derived'
      BY <2>2 DEF vars, Inv, TypeOK, Derived, Permitted, Record
    <3>2. Wire'
      BY <2>2 DEF vars, Inv, Wire, Genuine, Record
    <3>3. Held' /\ Served'
      BY <2>2 DEF vars, Inv, Held, Holding, Ready, HeldFor, Record, Served, Serving
    <3>4. Counted'
      BY <2>2 DEF vars, Inv, Counted, Known, ClientCounts, ServerCounts
    <3> QED
      BY <3>1, <3>2, <3>3, <3>4 DEF Inv
  <2> QED
    BY <2>1, <2>2
<1> QED
  BY <1>1, <1>2, PTL DEF Spec

\* The state of both ends stays in its types; in particular every key is one of an
\* exchange between an attempt and a response.
THEOREM TypeCorrect == Spec => []TypeOK
<1>1. Inv => TypeOK
  BY DEF Inv
<1> QED
  BY <1>1, Invariance, PTL

\* A connected client uses the two keys the server derived, crossed, for this client,
\* this attempt and its session id (process_response).
THEOREM AgreementHolds == Spec => []Agreement
<1>1. Inv => Agreement
  <2> SUFFICES ASSUME Inv, NEW a \in Attempts, state[a] = "CONNECTED"
               PROVE  [sid |-> sid[a], eph |-> Ephemeral(a), static |-> Static(ClientOf[a]),
                       tx |-> ciphers[a].keys.rx, rx |-> ciphers[a].keys.tx] \in derived
    BY DEF Agreement
  <2>1. PICK n \in 1..responses :
          Record(a, n) \in derived /\ ciphers[a].keys = ClientPair(a, n)
    BY DEF Inv, Held, Holding, Ready, HeldFor
  <2>2. /\ ciphers[a].keys.rx = KeyTx(Secret(a, n))
        /\ ciphers[a].keys.tx = KeyRx(Secret(a, n))
    BY <2>1 DEF ClientPair
  <2> QED
    BY <2>1, <2>2 DEF Record
<1> QED
  BY <1>1, Invariance, PTL

\* Every session of the server was asked for by an allowed client under its id
\* (process_initiation).
THEOREM SessionsAlwaysAskedFor == Spec => []SessionsAreAskedFor
<1>1. Inv => SessionsAreAskedFor
  <2> SUFFICES ASSUME Inv, NEW d \in derived
               PROVE  \E a \in Attempts :
                        /\ d.sid = sid[a] /\ d.eph = Ephemeral(a)
                        /\ d.static = Static(ClientOf[a])
                        /\ Allowed # {} => ClientOf[a] \in Allowed
    BY DEF SessionsAreAskedFor
  <2>1. PICK a \in Attempts, n \in 1..responses : Permitted(a) /\ d = Record(a, n)
    BY DEF Inv, Derived
  <2>2. d.sid = sid[a] /\ d.eph = Ephemeral(a) /\ d.static = Static(ClientOf[a])
    BY <2>1 DEF Record
  <2> QED
    BY <2>1, <2>2 DEF Permitted
<1> QED
  BY <1>1, Invariance, PTL

\* No key encrypts two payloads under one number, though a repeated HandshakeInit makes
\* ciphers that count from 0 again (_handle_handshake_init).
THEOREM NonceFreshness == Spec => []NoncesStayFresh
<1>1. Inv => NoncesStayFresh
  BY DEF Inv, Counted, NoncesStayFresh
<1> QED
  BY <1>1, Invariance, PTL
====================================================================================
