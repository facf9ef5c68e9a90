------------------------------- MODULE Server_proofs -------------------------------
(***************************************************************************)
(* Proofs about Server, for every set of attempts, addresses, subnet and   *)
(* bound, and for handshakes repeated from any address.                    *)
(***************************************************************************)
EXTENDS Server, TLAPS

PoolFacts == INSTANCE IPPool_proofs WITH Sessions <- Attempts

USE StealthAssumption, PeersAssumption, SubnetAssumption, NoSessionAssumption,
    BoundsAssumption

------------------------------------------------------------------------------------
(* The address a handshake leases *)

\* allocate, called without a preference, returns the address the attempt holds, raises,
\* or returns an address of the table of virtual addresses that no attempt holds.
LEMMA LeaseResult ==
  ASSUME TypeOK, NEW a \in Attempts, Pool!Lease(a, NoPreference) # NoLease
  PROVE  /\ Pool!Lease(a, NoPreference) \in Vips
         /\ \/ allocated[a] = Pool!Lease(a, NoPreference)
            \/ /\ allocated[a] = NoLease
               /\ \A b \in Attempts : allocated[b] # Pool!Lease(a, NoPreference)
<1>1. allocated[a] \in Vips \cup {NoLease}
  BY DEF TypeOK
<1>2. /\ PoolFacts!Network = Pool!Network
      /\ PoolFacts!Leased = Pool!Leased
      /\ PoolFacts!Reserved = Pool!Reserved
      /\ PoolFacts!Hosts = Pool!Hosts
  BY DEF PoolFacts!Network, Pool!Network, PoolFacts!Leased, Pool!Leased,
     PoolFacts!Reserved, Pool!Reserved, PoolFacts!Hosts, Pool!Hosts
<1>3. PoolFacts!Search = Pool!Search
  BY <1>2 DEF PoolFacts!Search, Pool!Search
<1>4. PoolFacts!Lease(a, NoPreference) = Pool!Lease(a, NoPreference)
  BY <1>2, <1>3 DEF PoolFacts!Lease, Pool!Lease
<1>5. NoPreference \in PoolFacts!Preferences
  BY DEF PoolFacts!Preferences
<1>6. \/ allocated[a] # NoLease /\ PoolFacts!Lease(a, NoPreference) = allocated[a]
      \/ allocated[a] = NoLease /\ PoolFacts!Lease(a, NoPreference) = NoLease
      \/ /\ allocated[a] = NoLease
         /\ PoolFacts!Lease(a, NoPreference) \in PoolFacts!FreeHosts
  BY <1>5, PoolFacts!LeaseResult
<1> QED
  BY <1>1, <1>2, <1>4, <1>6 DEF PoolFacts!FreeHosts, Pool!Leased, Vips

------------------------------------------------------------------------------------
(* The inductive invariant *)

\* No two attempts hold the same address.
LeasesDiffer ==
    \A a, b \in Attempts : allocated[a] # NoLease /\ allocated[a] = allocated[b] => a = b

Tables == TypeOK /\ TablesAgree /\ LeasesDiffer /\ AddrsAreLive

TableTypes ==
    /\ byId \in [Attempts -> Session \cup {NoSession}]
    /\ byAddr \in [Addrs -> Session \cup {NoSession}]
    /\ byVip \in [Vips -> Session \cup {NoSession}]
    /\ allocated \in [Attempts -> Vips \cup {NoLease}]
    /\ stale \subseteq {a \in Attempts : byId[a] # NoSession}
    /\ serials \in [Attempts -> Nat]
    /\ moved \subseteq Attempts

\* The part of TypeOK that the tables are not in.
OtherTypes ==
    /\ serverState \in {"running", "stopping", "stopped"}
    /\ allowed \subseteq Attempts
    /\ handshakes \in 0..MaxHandshakes
    /\ sockets \subseteq Addrs
    /\ tasks \in Seq(Packet)

\* What the tables and the pool satisfy.
TablesGood == TableTypes /\ TablesAgree /\ LeasesDiffer /\ AddrsAreLive

\* The invariant is these two parts.
LEMMA TablesParts == Tables <=> OtherTypes /\ TablesGood
BY DEF Tables, TablesGood, TypeOK, OtherTypes, TableTypes

\* Neither a virtual address nor a session is one of the markers of an empty entry.
LEMMA Markers == NoLease \notin Vips /\ NoSession \notin Session
BY DEF Vips, Pool!Hosts, Session

\* What can be closed: a session found under its id, or one found under an address.
Filed == {byAddr[x] : x \in Addrs} \ {NoSession}
Closable == LiveSessions \cup Filed

\* A session that can be closed is the live one of its id, unless it was replaced from
\* another address.
LEMMA ClosableSession ==
  ASSUME TablesGood, NEW s \in Closable
  PROVE  s \in Session /\ (s.sid \notin moved => s = byId[s.sid])
<1>1. CASE s \in LiveSessions
  <2>1. PICK a \in Attempts : s = byId[a] /\ s # NoSession
    BY <1>1 DEF LiveSessions
  <2> QED
    BY <2>1 DEF TablesGood, TableTypes, TablesAgree
<1>2. CASE s \in Filed
  <2>1. PICK x \in Addrs : s = byAddr[x] /\ s # NoSession
    BY <1>2 DEF Filed
  <2> QED
    BY <2>1 DEF TablesGood, TableTypes, AddrsAreLive
<1> QED
  BY <1>1, <1>2 DEF Closable

------------------------------------------------------------------------------------
(* Closing and registering keep the tables *)

\* _close_session, for sessions found by id or by address, the replaced ones included.
LEMMA CloseKeepsTables ==
  ASSUME TablesGood, NEW closed \in SUBSET Closable, CloseSessions(closed),
         UNCHANGED <<serials, moved>>
  PROVE  TablesGood'
<1> DEFINE Shut(a) == \E s \in closed : s.sid = a
<1>0. \A s \in closed : s \in Session /\ (s.sid \notin moved => s = byId[s.sid])
  BY ClosableSession
<1>1. /\ byId' = [a \in Attempts |-> IF Shut(a) THEN NoSession ELSE byId[a]]
      /\ byAddr' = [x \in Addrs |-> IF \E s \in closed : s.addr = x THEN NoSession ELSE byAddr[x]]
      /\ byVip' = [v \in Vips |-> IF \E s \in closed : s.vip = v THEN NoSession ELSE byVip[v]]
      /\ stale' = stale \ {s.sid : s \in closed}
  BY DEF CloseSessions
<1>2. allocated' = [a \in Attempts |-> IF Shut(a) THEN NoLease ELSE allocated[a]]
  <2>1. allocated' = [a \in Attempts |->
                       IF a \in {s.sid : s \in closed} THEN NoLease ELSE allocated[a]]
    BY DEF CloseSessions, Pool!Release
  <2>2. \A a \in Attempts : a \in {s.sid : s \in closed} <=> Shut(a)
    OBVIOUS
  <2> QED
    BY <2>1, <2>2
<1>3. TableTypes'
  <2>1. byId' \in [Attempts -> Session \cup {NoSession}]
    BY <1>1 DEF TablesGood, TableTypes
  <2>2. byAddr' \in [Addrs -> Session \cup {NoSession}]
    BY <1>1 DEF TablesGood, TableTypes
  <2>3. byVip' \in [Vips -> Session \cup {NoSession}]
    BY <1>1 DEF TablesGood, TableTypes
  <2>4. allocated' \in [Attempts -> Vips \cup {NoLease}]
    BY <1>2 DEF TablesGood, TableTypes
  <2>5. stale' \subseteq {a \in Attempts : byId'[a] # NoSession}
    BY <1>1 DEF TablesGood, TableTypes
  <2>6. serials' \in [Attempts -> Nat] /\ moved' \subseteq Attempts
    BY DEF TablesGood, TableTypes
  <2> QED
    BY <2>1, <2>2, <2>3, <2>4, <2>5, <2>6 DEF TableTypes
<1>4. TablesAgree'
  <2>1. ASSUME NEW a \in Attempts
        PROVE  IF byId'[a] = NoSession THEN allocated'[a] = NoLease
               ELSE /\ byId'[a].sid = a
                    /\ byId'[a].vip = allocated'[a]
                    /\ byVip'[allocated'[a]] \in {NoSession, byId'[a]}
    <3>1. CASE Shut(a) \/ byId[a] = NoSession
      BY <1>1, <1>2, <3>1 DEF TablesGood, TablesAgree
    <3>2. CASE ~Shut(a) /\ byId[a] # NoSession
      <4>1. byId'[a] = byId[a] /\ allocated'[a] = allocated[a]
        BY <1>1, <1>2, <3>2
      <4>2. /\ byId[a].sid = a
            /\ byId[a].vip = allocated[a]
            /\ byVip[allocated[a]] \in {NoSession, byId[a]}
            /\ allocated[a] \in Vips
        BY <3>2 DEF TablesGood, TablesAgree, TableTypes, Session
      <4>3. byVip'[allocated[a]] \in {NoSession, byVip[allocated[a]]}
        BY <1>1, <4>2
      <4> QED
        BY <3>2, <4>1, <4>2, <4>3
    <3> QED
      BY <3>1, <3>2
  <2>2. \A x \in Addrs : byAddr'[x] # NoSession => byAddr'[x].addr = x
    BY <1>1 DEF TablesGood, TablesAgree
  <2>3. \A v \in Vips : byVip'[v] # NoSession => byVip'[v].vip = v
    BY <1>1 DEF TablesGood, TablesAgree
  <2> QED
    BY <2>1, <2>2, <2>3 DEF TablesAgree
<1>5. LeasesDiffer'
  BY <1>2 DEF TablesGood, LeasesDiffer
<1>6. ASSUME NEW x \in Addrs, byAddr'[x] # NoSession, byAddr'[x].sid \notin moved'
      PROVE  byAddr'[x] = byId'[byAddr'[x].sid]
  <2>1. byAddr'[x] = byAddr[x] /\ ~ \E s \in closed : s.addr = x
    BY <1>1, <1>6
  <2>2. /\ byAddr[x] = byId[byAddr[x].sid]
        /\ byAddr[x].addr = x
        /\ byAddr[x].sid \in Attempts
    BY <1>6, <2>1 DEF TablesGood, AddrsAreLive, TablesAgree, TableTypes, Session
  <2>3. ~Shut(byAddr[x].sid)
    BY <1>0, <1>6, <2>1, <2>2
  <2> QED
    BY <1>1, <2>1, <2>2, <2>3
<1>7. ASSUME NEW v \in Vips, byVip'[v] # NoSession, byVip'[v].sid \notin moved'
      PROVE  byVip'[v] = byId'[byVip'[v].sid]
  <2>1. byVip'[v] = byVip[v] /\ ~ \E s \in closed : s.vip = v
    BY <1>1, <1>7
  <2>2. /\ byVip[v] = byId[byVip[v].sid]
        /\ byVip[v].vip = v
        /\ byVip[v].sid \in Attempts
    BY <1>7, <2>1 DEF TablesGood, AddrsAreLive, TablesAgree, TableTypes, Session
  <2>3. ~Shut(byVip[v].sid)
    BY <1>0, <1>7, <2>1, <2>2
  <2> QED
    BY <1>1, <2>1, <2>2, <2>3
<1>8. ASSUME moved' = {}, NEW a \in Attempts, byId'[a] # NoSession
      PROVE  byVip'[byId'[a].vip] = byId'[a]
  <2>1. byId'[a] = byId[a] /\ byId[a] # NoSession /\ ~Shut(a)
    BY <1>1, <1>8
  <2>2. /\ byVip[byId[a].vip] = byId[a]
        /\ byId[a].vip = allocated[a]
        /\ allocated[a] \in Vips
    BY <1>8, <2>1 DEF TablesGood, AddrsAreLive, TablesAgree, TableTypes, Session
  <2>3. ASSUME NEW s \in closed, s.vip = allocated[a] PROVE FALSE
    <3>1. s \in Session /\ s = byId[s.sid] /\ s.sid \in Attempts
      BY <1>0, <1>8 DEF Session
    <3>2. allocated[s.sid] = s.vip
      BY <3>1, Markers DEF TablesGood, TablesAgree
    <3>3. s.sid = a
      BY <2>2, <2>3, <3>1, <3>2, Markers DEF TablesGood, LeasesDiffer
    <3> QED
      BY <2>1, <3>3
  <2> QED
    BY <1>1, <2>1, <2>2, <2>3
<1> QED
  BY <1>3, <1>4, <1>5, <1>6, <1>7, <1>8 DEF TablesGood, AddrsAreLive

\* A new ClientSession of attempt a, heard from address x, under the address that allocate
\* returned.
Registered(a, x) ==
    /\ Pool!Lease(a, NoPreference) # NoLease
    /\ Pool!Allocate(a, NoPreference)
    /\ Register(a, x)
    /\ stale' = stale \ {a}

\* The entries a registration writes, and what is known of the address it leases.
LEMMA RegisteredEntries ==
  ASSUME TypeOK, NEW a \in Attempts, NEW x \in Addrs, Registered(a, x)
  PROVE  \E vip \in Vips, new \in Session :
            /\ new.sid = a /\ new.addr = x /\ new.vip = vip
            /\ vip = Pool!Lease(a, NoPreference)
            /\ byId' = [byId EXCEPT ![a] = new]
            /\ byAddr' = [byAddr EXCEPT ![x] = new]
            /\ byVip' = [byVip EXCEPT ![vip] = new]
            /\ allocated' = [allocated EXCEPT ![a] = vip]
            /\ \/ allocated[a] = vip
               \/ allocated[a] = NoLease /\ \A b \in Attempts : allocated[b] # vip
<1>1. PICK vip \in Vips : vip = Pool!Lease(a, NoPreference)
  BY LeaseResult DEF Registered
<1> DEFINE session == [sid |-> a, addr |-> x, vip |-> vip, serial |-> serials[a] + 1]
<1>2. session \in Session
  <2>1. serials[a] + 1 \in Nat
    BY DEF TypeOK
  <2> QED
    BY <2>1 DEF Session
<1>3. session.sid = a /\ session.addr = x /\ session.vip = vip
  OBVIOUS
<1>4. /\ byId' = [byId EXCEPT ![a] = session]
      /\ byAddr' = [byAddr EXCEPT ![x] = session]
      /\ byVip' = [byVip EXCEPT ![vip] = session]
      /\ allocated' = [allocated EXCEPT ![a] = vip]
  BY <1>1 DEF Registered, Register, Pool!Allocate
<1>5. \/ allocated[a] = vip
      \/ allocated[a] = NoLease /\ \A b \in Attempts : allocated[b] # vip
  BY <1>1, LeaseResult DEF Registered
<1> HIDE DEF session
<1> QED
  BY <1>1, <1>2, <1>3, <1>4, <1>5

\* A handshake, the first of its session id or a repeated one, from the address of the
\* live session or from another.
LEMMA RegisterKeepsTables ==
  ASSUME Tables, NEW a \in Attempts, NEW x \in Addrs, Registered(a, x)
  PROVE  TablesGood'
<1> USE TablesParts
<1>0. PICK vip \in Vips, new \in Session :
         /\ new.sid = a /\ new.addr = x /\ new.vip = vip
         /\ byId' = [byId EXCEPT ![a] = new]
         /\ byAddr' = [byAddr EXCEPT ![x] = new]
         /\ byVip' = [byVip EXCEPT ![vip] = new]
         /\ allocated' = [allocated EXCEPT ![a] = vip]
         /\ \/ allocated[a] = vip
            \/ allocated[a] = NoLease /\ \A b \in Attempts : allocated[b] # vip
  BY RegisteredEntries DEF Tables
<1>1. /\ byId'[a] = new /\ \A b \in Attempts : b # a => byId'[b] = byId[b]
      /\ byAddr'[x] = new /\ \A y \in Addrs : y # x => byAddr'[y] = byAddr[y]
      /\ byVip'[vip] = new /\ \A v \in Vips : v # vip => byVip'[v] = byVip[v]
      /\ allocated'[a] = vip /\ \A b \in Attempts : b # a => allocated'[b] = allocated[b]
  BY <1>0 DEF TablesGood, TableTypes
<1>2. /\ new # NoSession /\ vip # NoLease
      /\ stale' = stale \ {a}
      /\ serials' = [serials EXCEPT ![a] = @ + 1]
      /\ moved' = IF byId[a] # NoSession /\ byId[a].addr # x THEN moved \cup {a} ELSE moved
  BY Markers DEF Registered, Register
<1>3. TableTypes'
  <2>1. /\ byId' \in [Attempts -> Session \cup {NoSession}]
        /\ byAddr' \in [Addrs -> Session \cup {NoSession}]
        /\ byVip' \in [Vips -> Session \cup {NoSession}]
        /\ allocated' \in [Attempts -> Vips \cup {NoLease}]
    BY <1>0 DEF TablesGood, TableTypes
  <2>2. stale' \subseteq {b \in Attempts : byId'[b] # NoSession}
    BY <1>1, <1>2 DEF TablesGood, TableTypes
  <2>3. serials' \in [Attempts -> Nat] /\ moved' \subseteq Attempts
    BY <1>2 DEF TablesGood, TableTypes
  <2> QED
    BY <2>1, <2>2, <2>3 DEF TableTypes
<1>4. ASSUME NEW b \in Attempts, b # a PROVE allocated[b] # vip
  BY <1>0, <1>2, <1>4 DEF TablesGood, LeasesDiffer
<1>5. TablesAgree'
  <2>1. ASSUME NEW b \in Attempts
        PROVE  IF byId'[b] = NoSession THEN allocated'[b] = NoLease
               ELSE /\ byId'[b].sid = b
                    /\ byId'[b].vip = allocated'[b]
                    /\ byVip'[allocated'[b]] \in {NoSession, byId'[b]}
    <3>1. CASE b = a
      BY <1>0, <1>1, <1>2, <3>1
    <3>2. CASE b # a /\ byId[b] = NoSession
      BY <1>1, <3>2 DEF TablesGood, TablesAgree
    <3>3. CASE b # a /\ byId[b] # NoSession
      <4>1. /\ byId[b].sid = b
            /\ byId[b].vip = allocated[b]
            /\ byVip[allocated[b]] \in {NoSession, byId[b]}
            /\ allocated[b] \in Vips
        BY <3>3 DEF TablesGood, TablesAgree, TableTypes, Session
      <4>2. byVip'[allocated[b]] = byVip[allocated[b]]
        BY <1>1, <1>4, <3>3, <4>1
      <4> QED
        BY <1>1, <3>3, <4>1, <4>2
    <3> QED
      BY <3>1, <3>2, <3>3
  <2>2. \A y \in Addrs : byAddr'[y] # NoSession => byAddr'[y].addr = y
    BY <1>0, <1>1 DEF TablesGood, TablesAgree
  <2>3. \A v \in Vips : byVip'[v] # NoSession => byVip'[v].vip = v
    BY <1>0, <1>1 DEF TablesGood, TablesAgree
  <2> QED
    BY <2>1, <2>2, <2>3 DEF TablesAgree
<1>6. LeasesDiffer'
  BY <1>1, <1>4 DEF TablesGood, LeasesDiffer
<1>7. ASSUME NEW y \in Addrs, byAddr'[y] # NoSession, byAddr'[y].sid \notin moved'
      PROVE  byAddr'[y] = byId'[byAddr'[y].sid]
  <2>1. CASE y = x
    BY <1>0, <1>1, <2>1
  <2>2. CASE y # x
    <3>1. byAddr'[y] = byAddr[y] /\ byAddr[y].sid \notin moved
      BY <1>1, <1>2, <1>7, <2>2
    <3>2. /\ byAddr[y] = byId[byAddr[y].sid]
          /\ byAddr[y].addr = y
          /\ byAddr[y].sid \in Attempts
      BY <1>7, <3>1 DEF TablesGood, AddrsAreLive, TablesAgree, TableTypes, Session
    <3>3. byAddr[y].sid # a
      BY <1>2, <1>7, <2>2, <3>1, <3>2
    <3> QED
      BY <1>1, <3>1, <3>2, <3>3
  <2> QED
    BY <2>1, <2>2
<1>8. ASSUME NEW v \in Vips, byVip'[v] # NoSession, byVip'[v].sid \notin moved'
      PROVE  byVip'[v] = byId'[byVip'[v].sid]
  <2>1. CASE v = vip
    BY <1>0, <1>1, <2>1
  <2>2. CASE v # vip
    <3>1. byVip'[v] = byVip[v] /\ byVip[v].sid \notin moved
      BY <1>1, <1>2, <1>8, <2>2
    <3>2. /\ byVip[v] = byId[byVip[v].sid]
          /\ byVip[v].vip = v
          /\ byVip[v].sid \in Attempts
      BY <1>8, <3>1 DEF TablesGood, AddrsAreLive, TablesAgree, TableTypes, Session
    <3>3. allocated[byVip[v].sid] = v
      BY <1>8, <3>1, <3>2 DEF TablesGood, TablesAgree
    <3>4. byVip[v].sid # a
      BY <1>0, <2>2, <3>3, Markers
    <3> QED
      BY <1>1, <3>1, <3>2, <3>4
  <2> QED
    BY <2>1, <2>2
<1>9. ASSUME moved' = {}, NEW b \in Attempts, byId'[b] # NoSession
      PROVE  byVip'[byId'[b].vip] = byId'[b]
  <2>1. CASE b = a
    BY <1>0, <1>1, <2>1
  <2>2. CASE b # a
    <3>1. moved = {} /\ byId'[b] = byId[b]
      BY <1>1, <1>2, <1>9, <2>2
    <3>2. /\ byVip[byId[b].vip] = byId[b]
          /\ byId[b].vip = allocated[b]
          /\ allocated[b] \in Vips
      BY <1>9, <3>1 DEF TablesGood, AddrsAreLive, TablesAgree, TableTypes, Session
    <3> QED
      BY <1>1, <1>4, <2>2, <3>1, <3>2
  <2> QED
    BY <2>1, <2>2
<1> QED
  BY <1>3, <1>5, <1>6, <1>7, <1>8, <1>9 DEF TablesGood, AddrsAreLive

------------------------------------------------------------------------------------
(* Every step keeps the invariant *)

\* Handling a task takes the oldest one, which is a packet of an attempt.
LEMMA ReceivedTask ==
  ASSUME OtherTypes, NEW kind \in Kinds, Received(kind)
  PROVE  /\ Head(tasks).from \in Attempts
         /\ Head(tasks).addr \in Addrs
         /\ tasks' \in Seq(Packet)
<1>1. tasks \in Seq(Packet) /\ tasks # <<>>
  BY DEF Received, OtherTypes
<1>2. Head(tasks) \in Packet /\ Tail(tasks) \in Seq(Packet)
  BY <1>1
<1> QED
  BY <1>2 DEF Received, Packet

\* What a step may do to the tables: leave them alone, close sessions, or register one.
LeavesAlone ==
    /\ UNCHANGED <<tableVars, serials, moved>>
    /\ stale' \subseteq {a \in Attempts : byId[a] # NoSession}
Closes ==
    /\ \E closed \in SUBSET Closable : CloseSessions(closed)
    /\ UNCHANGED <<serials, moved>>
Registers == \E a \in Attempts, x \in Addrs : Registered(a, x)

\* Every step does one of the three.
LEMMA StepEffect ==
  ASSUME Tables, [Next]_vars
  PROVE  LeavesAlone \/ Closes \/ Registers
<1>0. OtherTypes /\ TablesGood /\ stale \subseteq {a \in Attempts : byId[a] # NoSession}
  BY TablesParts DEF TablesGood, TableTypes
<1>1. ASSUME NEW a \in Attempts, NEW kind \in Kinds, NEW x \in Addrs, Arrive(a, kind, x)
      PROVE  LeavesAlone
  BY <1>0, <1>1 DEF Arrive, LeavesAlone
<1>2. ASSUME NEW a \in Attempts, GoStale(a) \/ Authorize(a) PROVE LeavesAlone
  BY <1>0, <1>2 DEF GoStale, Authorize, LeavesAlone
<1>3. ASSUME NEW x \in Addrs, SocketOpened(x) PROVE LeavesAlone
  BY <1>0, <1>3 DEF SocketOpened, LeavesAlone
<1>4. ASSUME NEW x \in Addrs, SocketClosed(x) PROVE LeavesAlone \/ Closes
  <2>1. CASE byAddr[x] = NoSession
    BY <1>0, <1>4, <2>1 DEF SocketClosed, StealthDisconnect, LeavesAlone
  <2>2. CASE byAddr[x] # NoSession
    <3>1. {byAddr[x]} \in SUBSET Closable
      BY <2>2 DEF Closable, Filed
    <3> QED
      BY <1>4, <2>2, <3>1 DEF SocketClosed, StealthDisconnect, Closes
  <2> QED
    BY <2>1, <2>2
<1>5. ASSUME HandshakeInit PROVE Registers
  <2>1. Head(tasks).from \in Attempts /\ Head(tasks).addr \in Addrs
    BY <1>0, <1>5, ReceivedTask DEF HandshakeInit, Kinds
  <2>2. Registered(Head(tasks).from, Head(tasks).addr)
    BY <1>5 DEF HandshakeInit, Registered
  <2> QED
    BY <2>1, <2>2 DEF Registers
<1>6. ASSUME HandshakeFailed \/ Frame PROVE LeavesAlone
  BY <1>0, <1>6 DEF HandshakeFailed, Frame, LeavesAlone
<1>7. ASSUME Disconnect PROVE LeavesAlone \/ Closes
  <2>1. Head(tasks).from \in Attempts
    BY <1>0, <1>7, ReceivedTask DEF Disconnect, Kinds
  <2>2. CASE byId[Head(tasks).from] = NoSession
    BY <1>0, <1>7, <2>2 DEF Disconnect, LeavesAlone
  <2>3. CASE byId[Head(tasks).from] # NoSession
    <3>1. {byId[Head(tasks).from]} \in SUBSET Closable
      BY <2>1, <2>3 DEF Closable, LiveSessions
    <3> QED
      BY <1>7, <2>3, <3>1 DEF Disconnect, Closes
  <2> QED
    BY <2>2, <2>3
<1>8. ASSUME Janitor PROVE Closes
  <2>1. {byId[a] : a \in stale} \in SUBSET Closable
    BY <1>0 DEF Closable, LiveSessions
  <2> QED
    BY <1>8, <2>1 DEF Janitor, Closes
<1>9. ASSUME StopBegin \/ StopFinish PROVE LeavesAlone \/ Closes
  <2>1. LiveSessions \in SUBSET Closable
    BY DEF Closable
  <2> QED
    BY <1>0, <1>9, <2>1 DEF StopBegin, StopFinish, LeavesAlone, Closes
<1>10. ASSUME UNCHANGED vars PROVE LeavesAlone
  BY <1>0, <1>10 DEF vars, tableVars, LeavesAlone
<1> QED
  BY <1>1, <1>2, <1>3, <1>4, <1>5, <1>6, <1>7, <1>8, <1>9, <1>10 DEF Next, RunTask

\* What is not in the tables keeps its type.
LEMMA OtherStep == OtherTypes /\ [Next]_vars => OtherTypes'
<1> SUFFICES ASSUME OtherTypes, [Next]_vars PROVE OtherTypes'
  OBVIOUS
<1>1. ASSUME NEW a \in Attempts, NEW kind \in Kinds, NEW x \in Addrs, Arrive(a, kind, x)
      PROVE  OtherTypes'
  <2>1. [kind |-> kind, from |-> a, addr |-> x] \in Packet
    BY DEF Packet
  <2>2. tasks' \in Seq(Packet)
    BY <1>1, <2>1 DEF Arrive, OtherTypes
  <2>3. handshakes' \in 0..MaxHandshakes
    BY <1>1 DEF Arrive, OtherTypes
  <2> QED
    BY <1>1, <2>2, <2>3 DEF Arrive, OtherTypes
<1>2. ASSUME NEW a \in Attempts, GoStale(a) \/ Authorize(a) PROVE OtherTypes'
  BY <1>2 DEF GoStale, Authorize, OtherTypes, clientVars
<1>3. ASSUME NEW x \in Addrs, SocketOpened(x) \/ SocketClosed(x) PROVE OtherTypes'
  BY <1>3 DEF SocketOpened, SocketClosed, OtherTypes
<1>4. ASSUME RunTask PROVE OtherTypes'
  <2>1. \E kind \in Kinds : Received(kind)
    BY <1>4 DEF RunTask, HandshakeInit, HandshakeFailed, Frame, Disconnect, Kinds
  <2>2. tasks' \in Seq(Packet)
    BY <2>1, ReceivedTask
  <2> QED
    BY <1>4, <2>2 DEF RunTask, HandshakeInit, HandshakeFailed, Frame, Disconnect,
       OtherTypes, clientVars
<1>5. ASSUME Janitor \/ StopBegin \/ StopFinish PROVE OtherTypes'
  BY <1>5 DEF Janitor, StopBegin, StopFinish, OtherTypes, clientVars
<1>6. ASSUME UNCHANGED vars PROVE OtherTypes'
  BY <1>6 DEF vars, OtherTypes
<1> QED
  BY <1>1, <1>2, <1>3, <1>4, <1>5, <1>6 DEF Next

\* Every step of the clients, the tasks, the janitor and stop() keeps the invariant.
LEMMA TablesStep == Tables /\ [Next]_vars => Tables'
<1> SUFFICES ASSUME Tables, [Next]_vars PROVE Tables'
  OBVIOUS
<1>0. OtherTypes /\ TablesGood
  BY TablesParts
<1>1. OtherTypes'
  BY <1>0, OtherStep
<1>2. ASSUME LeavesAlone PROVE TablesGood'
  BY <1>0, <1>2 DEF LeavesAlone, tableVars, TablesGood, TableTypes, TablesAgree,
     LeasesDiffer, AddrsAreLive
<1>3. ASSUME Closes PROVE TablesGood'
  BY <1>0, <1>3, CloseKeepsTables DEF Closes
<1>4. ASSUME Registers PROVE TablesGood'
  BY <1>4, RegisterKeepsTables DEF Registers
<1>5. TablesGood'
  BY <1>2, <1>3, <1>4, StepEffect
<1>6. OtherTypes' /\ TablesGood' => Tables'
  BY DEF Tables, TablesGood, TypeOK, OtherTypes, TableTypes
<1> QED
  BY <1>1, <1>5, <1>6

\* The invariant holds in every reachable state.
LEMMA TablesInvariant == Spec => []Tables
<1>1. Init => Tables
  BY DEF Init, Pool!Init, Tables, TypeOK, TablesAgree, LeasesDiffer, AddrsAreLive
<1> QED
  BY <1>1, TablesStep, PTL DEF Spec

\* No step gives a live session another address.
LEMMA VipStep ==
  Tables /\ [Next]_vars =>
    \A a \in Attempts : byId[a] # NoSession /\ byId'[a] # NoSession =>
        byId'[a].vip = byId[a].vip
<1> SUFFICES ASSUME Tables, [Next]_vars, NEW a \in Attempts,
                    byId[a] # NoSession, byId'[a] # NoSession
             PROVE  byId'[a].vip = byId[a].vip
  OBVIOUS
<1>1. ASSUME LeavesAlone PROVE byId'[a].vip = byId[a].vip
  BY <1>1 DEF LeavesAlone, tableVars
<1>2. ASSUME NEW closed, CloseSessions(closed) PROVE byId'[a].vip = byId[a].vip
  BY <1>2 DEF CloseSessions
<1>3. ASSUME NEW b \in Attempts, NEW x \in Addrs, Registered(b, x)
      PROVE  byId'[a].vip = byId[a].vip
  <2>1. PICK vip \in Vips, new \in Session :
          /\ new.vip = vip
          /\ byId' = [byId EXCEPT ![b] = new]
          /\ \/ allocated[b] = vip
             \/ allocated[b] = NoLease
    BY <1>3, RegisteredEntries DEF Tables
  <2>2. /\ byId[a].vip = allocated[a] /\ allocated[a] # NoLease
        /\ byId \in [Attempts -> Session \cup {NoSession}]
    BY Markers DEF Tables, TypeOK, TablesAgree, Session
  <2> QED
    BY <2>1, <2>2
<1> QED
  BY <1>1, <1>2, <1>3, StepEffect DEF Closes, Registers

------------------------------------------------------------------------------------
(* The end of stop() *)

\* Once stop() is done nothing is left that could make a session: no waiting packet, and
\* no WebSocket from which another one could come.
StopInv ==
    EnableStealth /\ serverState = "stopped" =>
        /\ \A a \in Attempts : byId[a] = NoSession /\ allocated[a] = NoLease
        /\ tasks = <<>>
        /\ sockets = {}

\* Every step of a server that has stopped keeps its tables and its queue empty.
LEMMA StopStep == Tables /\ StopInv /\ [Next]_vars => StopInv'
<1> SUFFICES ASSUME Tables, StopInv, [Next]_vars,
                    EnableStealth, serverState' = "stopped"
             PROVE  /\ \A a \in Attempts : byId'[a] = NoSession /\ allocated'[a] = NoLease
                    /\ tasks' = <<>>
                    /\ sockets' = {}
  BY DEF StopInv
<1>1. CASE serverState = "stopped"
  <2>1. /\ \A a \in Attempts : byId[a] = NoSession /\ allocated[a] = NoLease
        /\ tasks = <<>>
        /\ sockets = {}
    BY <1>1 DEF StopInv
  <2>2. UNCHANGED <<byId, allocated, tasks, sockets>>
    <3>1. ASSUME NEW a \in Attempts, GoStale(a) PROVE FALSE
      BY <2>1, <3>1 DEF GoStale
    <3>2. ASSUME NEW a \in Attempts, Authorize(a) PROVE FALSE
      BY <1>1, <3>2 DEF Authorize
    <3>3. ASSUME NEW a \in Attempts, NEW kind \in Kinds, NEW x \in Addrs, Arrive(a, kind, x)
          PROVE  FALSE
      BY <1>1, <3>3 DEF Arrive
    <3>4. ASSUME NEW x \in Addrs, SocketOpened(x) \/ SocketClosed(x) PROVE FALSE
      BY <1>1, <2>1, <3>4 DEF SocketOpened, SocketClosed
    <3>5. ASSUME RunTask PROVE FALSE
      BY <2>1, <3>5 DEF RunTask, HandshakeInit, HandshakeFailed, Frame, Disconnect, Received
    <3>6. ASSUME Janitor \/ StopBegin \/ StopFinish PROVE FALSE
      BY <1>1, <3>6 DEF Janitor, StopBegin, StopFinish
    <3>7. CASE UNCHANGED vars
      BY <3>7 DEF vars
    <3> QED
      BY <3>1, <3>2, <3>3, <3>4, <3>5, <3>6, <3>7 DEF Next
  <2> QED
    BY <2>1, <2>2
<1>2. CASE serverState # "stopped"
  <2>1. StopFinish
    BY <1>2 DEF Next, SocketOpened, SocketClosed, GoStale, Authorize, Arrive, RunTask,
       HandshakeInit, HandshakeFailed, Frame, Disconnect, Janitor, StopBegin, vars
  <2>2. tasks' = <<>> /\ sockets' = {}
    BY <2>1 DEF StopFinish, clientVars
  <2>3. CloseSessions(LiveSessions)
    BY <2>1 DEF StopFinish
  <2>4. ASSUME NEW a \in Attempts PROVE byId'[a] = NoSession /\ allocated'[a] = NoLease
    <3>1. CASE byId[a] = NoSession
      BY <2>3, <3>1 DEF CloseSessions, Pool!Release, Tables, TablesAgree
    <3>2. CASE byId[a] # NoSession
      <4>1. byId[a] \in LiveSessions /\ byId[a].sid = a
        BY <3>2 DEF LiveSessions, Tables, TablesAgree
      <4>2. a \in {s.sid : s \in LiveSessions}
        BY <4>1
      <4> QED
        BY <2>3, <4>1, <4>2 DEF CloseSessions, Pool!Release
    <3> QED
      BY <3>1, <3>2
  <2> QED
    BY <2>2, <2>4
<1> QED
  BY <1>1, <1>2

------------------------------------------------------------------------------------
(* The tables implement LeasePool *)

\* Attempt a has a live session that was told address v.
Holds(a, v) == byId[a] # NoSession /\ byId[a].vip = v

\* At most one attempt was told an address, and it is the holder.
LEMMA HolderIsLive ==
  ASSUME Tables, NEW v \in Vips
  PROVE  /\ HolderOf(v) \in Attempts \cup {NoSession}
         /\ \A a \in Attempts : HolderOf(v) = a <=> Holds(a, v)
<1> DEFINE told == {a \in Attempts : byId[a] # NoSession /\ byId[a].vip = v}
<1>1. \A a, b \in told : a = b
  BY Markers DEF Tables, TablesAgree, LeasesDiffer
<1>2. CASE told = {}
  BY <1>2 DEF HolderOf, Holds
<1>3. CASE told # {}
  <2>1. HolderOf(v) \in told
    BY <1>3 DEF HolderOf
  <2> QED
    BY <1>1, <2>1 DEF Holds
<1> QED
  BY <1>2, <1>3

\* The same one step later.
LEMMA HolderIsLiveNext ==
  ASSUME Tables', NEW v \in Vips
  PROVE  /\ HolderOf(v)' \in Attempts \cup {NoSession}
         /\ \A a \in Attempts : HolderOf(v)' = a <=> Holds(a, v)'
<1> DEFINE told == {a \in Attempts : byId'[a] # NoSession /\ byId'[a].vip = v}
<1>1. \A a, b \in told : a = b
  BY Markers DEF Tables, TablesAgree, LeasesDiffer
<1>2. CASE told = {}
  BY <1>2 DEF HolderOf, Holds
<1>3. CASE told # {}
  <2>1. HolderOf(v)' \in told
    BY <1>3 DEF HolderOf
  <2> QED
    BY <1>1, <2>1 DEF Holds
<1> QED
  BY <1>2, <1>3

\* Every step is a grant, a return or nothing to the holders.
LEMMA LeaseStep ==
  Tables /\ Tables' /\ [Next]_vars => [Leases!Next]_([v \in Vips |-> HolderOf(v)])
<1> DEFINE holder == [v \in Vips |-> HolderOf(v)]
<1> SUFFICES ASSUME Tables, Tables', [Next]_vars PROVE Leases!Next \/ holder' = holder
  OBVIOUS
<1>1. ASSUME LeavesAlone PROVE holder' = holder
  BY <1>1 DEF LeavesAlone, tableVars, HolderOf
<1>2. ASSUME NEW closed \in SUBSET Closable, CloseSessions(closed) PROVE Leases!Next
  <2> DEFINE sids == {s.sid : s \in closed}
  <2>1. sids \in SUBSET Attempts
    BY ClosableSession, TablesParts DEF Session
  <2>2. \A a \in Attempts : byId'[a] = IF a \in sids THEN NoSession ELSE byId[a]
    BY <1>2 DEF CloseSessions
  <2>3. ASSUME NEW v \in Vips
        PROVE  HolderOf(v)' = IF HolderOf(v) \in sids THEN NoSession ELSE HolderOf(v)
    <3>1. \A a \in Attempts : Holds(a, v)' <=> a \notin sids /\ Holds(a, v)
      BY <2>2 DEF Holds
    <3> HIDE DEF sids
    <3> QED
      BY <2>1, <3>1, HolderIsLive, HolderIsLiveNext
  <2>4. Leases!Return(sids)
    BY <2>3 DEF Leases!Return
  <2> QED
    BY <2>1, <2>4 DEF Leases!Next
<1>3. ASSUME NEW a \in Attempts, NEW x \in Addrs, Registered(a, x)
      PROVE  Leases!Next \/ holder' = holder
  <2>0. PICK vip \in Vips, new \in Session :
          /\ new.vip = vip
          /\ byId' = [byId EXCEPT ![a] = new]
          /\ \/ allocated[a] = vip
             \/ allocated[a] = NoLease /\ \A b \in Attempts : allocated[b] # vip
    BY <1>3, RegisteredEntries DEF Tables
  <2>1. ASSUME NEW v \in Vips
        PROVE  /\ Holds(a, v)' <=> v = vip
               /\ \A b \in Attempts : b # a => (Holds(b, v)' <=> Holds(b, v))
    BY <2>0, Markers DEF Holds, Tables, TypeOK
  <2>2. CASE byId[a] # NoSession
    <3>1. byId[a].vip = vip
      BY <2>0, <2>2, Markers DEF Tables, TablesAgree, TypeOK, Session
    <3>2. ASSUME NEW v \in Vips PROVE HolderOf(v)' = HolderOf(v)
      <4>1. \A b \in Attempts : Holds(b, v)' <=> Holds(b, v)
        BY <2>1, <2>2, <3>1 DEF Holds
      <4> QED
        BY <4>1, HolderIsLive, HolderIsLiveNext
    <3> QED
      BY <3>2
  <2>3. CASE byId[a] = NoSession
    <3>1. \A b \in Attempts : allocated[b] # vip
      BY <2>0, <2>3, Markers DEF Tables, TablesAgree
    <3>2. \A v \in Vips : HolderOf(v) # a
      BY <2>3, HolderIsLive DEF Holds
    <3>3. HolderOf(vip) = NoSession
      <4>1. \A b \in Attempts : ~Holds(b, vip)
        BY <3>1 DEF Holds, Tables, TablesAgree
      <4> QED
        BY <4>1, HolderIsLive
    <3>4. HolderOf(vip)' = a
      BY <2>1, HolderIsLiveNext
    <3>5. ASSUME NEW v \in Vips, v # vip PROVE HolderOf(v)' = HolderOf(v)
      <4>1. \A b \in Attempts : Holds(b, v)' <=> Holds(b, v)
        BY <2>1, <2>3, <3>5 DEF Holds
      <4> QED
        BY <4>1, HolderIsLive, HolderIsLiveNext
    <3>6. holder' = [holder EXCEPT ![vip] = a]
      BY <3>4, <3>5
    <3>7. Leases!Grant(a, vip)
      BY <3>2, <3>3, <3>6 DEF Leases!Grant, Leases!HoldsNone
    <3> QED
      BY <3>7 DEF Leases!Next
  <2> QED
    BY <2>2, <2>3
<1> QED
  BY <1>1, <1>2, <1>3, StepEffect DEF Closes, Registers

------------------------------------------------------------------------------------
(* The theorems *)

\* Every table holds sessions, and only live sessions are ever stale.
THEOREM TypeCorrect == Spec => []TypeOK
BY TablesInvariant, PTL DEF Tables

\* A session holds its lease and no leased address leads to another session, wherever
\* handshakes are repeated from and however packets, disconnects, the janitor and stop()
\* interleave.
THEOREM TablesAlwaysAgree == Spec => []TablesAgree
BY TablesInvariant, PTL DEF Tables

\* Neither sessions_by_addr nor sessions_by_vip leads to a closed or replaced session of an
\* id whose live session was never replaced from another address.
THEOREM AddrsAlwaysLive == Spec => []AddrsAreLive
BY TablesInvariant, PTL DEF Tables

\* A session keeps its virtual address through every repeated handshake.
THEOREM VipStability == Spec => VipIsStable
<1>1. Tables /\ [Next]_vars =>
        [\A a \in Attempts : byId[a] # NoSession /\ byId'[a] # NoSession =>
            byId'[a].vip = byId[a].vip]_vars
  BY VipStep
<1> QED
  BY <1>1, TablesInvariant, PTL DEF Spec, VipIsStable

\* When stop() is done, with stealth enabled, every session is closed and every address
\* is back in the pool.
THEOREM StopIsComplete == Spec => []StopClosesEverything
<1>1. Init => StopInv
  BY DEF Init, StopInv
<1>2. StopInv => StopClosesEverything
  BY DEF StopInv, StopClosesEverything, LiveSessions
<1> QED
  BY <1>1, <1>2, StopStep, TablesInvariant, PTL DEF Spec

\* Read through sessions_by_id, the server leases virtual addresses as LeasePool says.
THEOREM LeaseRefinement == Spec => TablesImplementLeases
<1> DEFINE holder == [v \in Vips |-> HolderOf(v)]
<1>1. Init => Leases!Init
  BY DEF Init, Leases!Init, HolderOf
<1>2. Tables /\ Tables' /\ [Next]_vars => [Leases!Next]_holder
  BY LeaseStep
<1> QED
  BY <1>1, <1>2, TablesInvariant, PTL DEF Spec, TablesImplementLeases, Leases!Spec
====================================================================================
