------------------------------- MODULE Client_proofs -------------------------------
(***************************************************************************)
(* Proofs about Client, for every number of calls, disconnects and losses. *)
(***************************************************************************)
EXTENDS Client, TLAPS

USE BoundsAssumption

------------------------------------------------------------------------------------
(* What a disconnect does, in one piece or between two of its awaits *)

Places == {"unused", "sleeping", "transport", "auth", "proxy", "closing", "stopping", "done"}
States == Busy \cup {"DISCONNECTED", "RECONNECTING", "ERROR"}

\* Coroutine c goes to the given stage of disconnect.
Shutdown(c, st, stage) ==
    /\ pc' = [pc EXCEPT ![c] = stage]
    /\ state' = IF stage = "done" THEN "DISCONNECTED" ELSE st
    /\ IF stage = "done" THEN Disengage ELSE UNCHANGED firewall
    /\ systemProxy' \in {systemProxy, FALSE}
    /\ stage # "closing" /\ pc[c] # "stopping" => systemProxy' = FALSE
    /\ gateway' \in [Calls -> {"none", "starting", "open", "closed"}]
    /\ \A n \in Calls :
        \/ gateway'[n] = gateway[n]
        \/ stage # "closing" /\ gateway[n] = "open" /\ gateway'[n] = "closed"

\* disconnect up to its first await, or to its end.
LEMMA TeardownShutsDown ==
  ASSUME TypeOK, NEW c, NEW p, NEW st, Teardown(c, p, st)
  PROVE  \E stage \in {"closing", "stopping", "done"} : Shutdown(c, st, stage)
<1>1. CASE /\ pc' = [pc EXCEPT ![c] = "closing"] /\ state' = st
           /\ UNCHANGED <<systemProxy, gateway, firewall>>
  <2>1. Shutdown(c, st, "closing")
    BY <1>1 DEF TypeOK, Shutdown
  <2> QED
    BY <2>1
<1>2. CASE CloseGateway(c, p, st)
  <2>1. /\ gateway' \in [Calls -> {"none", "starting", "open", "closed"}]
        /\ \A n \in Calls :
             gateway'[n] = gateway[n] \/ (gateway[n] = "open" /\ gateway'[n] = "closed")
    BY <1>2 DEF TypeOK, CloseGateway
  <2>2. Shutdown(c, st, "stopping") \/ Shutdown(c, st, "done")
    BY <1>2, <2>1 DEF CloseGateway, Finish, Shutdown
  <2> QED
    BY <2>2
<1> QED
  BY <1>1, <1>2 DEF Teardown

\* disconnect after the await of the WebSocket.
LEMMA ClosedShutsDown ==
  ASSUME TypeOK, NEW c, Closed(c)
  PROVE  \E stage \in {"stopping", "done"} : Shutdown(c, state, stage)
<1>1. /\ gateway' \in [Calls -> {"none", "starting", "open", "closed"}]
      /\ \A n \in Calls :
           gateway'[n] = gateway[n] \/ (gateway[n] = "open" /\ gateway'[n] = "closed")
  BY DEF TypeOK, Closed, CloseGateway
<1>2. Shutdown(c, state, "stopping") \/ Shutdown(c, state, "done")
  BY <1>1 DEF Closed, CloseGateway, Finish, Shutdown
<1> QED
  BY <1>2

\* disconnect after the await of the gateway.
LEMMA StoppedShutsDown ==
  ASSUME TypeOK, NEW c, Stopped(c)
  PROVE  Shutdown(c, state, "done")
BY DEF TypeOK, Stopped, Finish, Shutdown

------------------------------------------------------------------------------------
(* The inductive invariant of the types: how far a call is tells what it has made *)

Stages ==
    \A n \in Calls :
        /\ pc[n] # "unused" => n <= calls
        /\ pc[n] \in {"unused", "sleeping", "transport", "auth"} => gateway[n] = "none"
        /\ pc[n] = "proxy" => gateway[n] = "starting"

Typed == TypeOK /\ Stages

\* A disconnect keeps the types and the stages of what it changes.
LEMMA ShutdownTyped ==
  ASSUME Typed, NEW c \in Calls \cup {User}, c # User => pc[c] # "unused", NEW st \in States,
         NEW stage \in {"closing", "stopping", "done"}, Shutdown(c, st, stage), calls' = calls
  PROVE  /\ state' \in States
         /\ pc' \in [Calls \cup {User} -> Places]
         /\ gateway' \in [Calls -> {"none", "starting", "open", "closed"}]
         /\ engaged' \subseteq {n \in Calls : gateway'[n] \in {"open", "closed"}}
         /\ blocked' \in BOOLEAN /\ systemProxy' \in BOOLEAN
         /\ Stages'
<1>1. state' \in States
  BY DEF Shutdown, States
<1>2. pc' \in [Calls \cup {User} -> Places]
  BY DEF Shutdown, Typed, TypeOK, Places
<1>3. engaged' \subseteq engaged
  BY DEF Shutdown, Disengage, firewall
<1>4. engaged' \subseteq {n \in Calls : gateway'[n] \in {"open", "closed"}}
  BY <1>3 DEF Shutdown, Typed, TypeOK
<1>5. blocked' \in BOOLEAN
  BY DEF Shutdown, Disengage, firewall, Typed, TypeOK
<1>6. systemProxy' \in BOOLEAN
  BY DEF Shutdown, Typed, TypeOK
<1>7. Stages'
  <2> SUFFICES ASSUME NEW n \in Calls
               PROVE  /\ pc'[n] # "unused" => n <= calls
                      /\ pc'[n] \in {"unused", "sleeping", "transport", "auth"} =>
                           gateway'[n] = "none"
                      /\ pc'[n] = "proxy" => gateway'[n] = "starting"
    BY DEF Stages
  <2>1. CASE n = c
    BY <2>1 DEF Shutdown, Typed, TypeOK, Stages, Calls, User
  <2>2. CASE n # c
    BY <2>2 DEF Shutdown, Typed, TypeOK, Stages
  <2> QED
    BY <2>1, <2>2
<1> QED
  BY <1>1, <1>2, <1>4, <1>5, <1>6, <1>7 DEF Shutdown

\* What Teardown leaves to be typed besides.
LEMMA TeardownTyped ==
  ASSUME Typed, NEW c \in Calls \cup {User}, c # User => pc[c] # "unused", NEW p \in 0..calls,
         NEW st \in States, Teardown(c, p, st), calls' = calls,
         cipher' \in 0..calls, future' \in [Calls -> {"none", "pending", "ok", "failed"}],
         disconnects' \in 0..MaxDisconnects, losses' = losses,
         wanted' \in {"connect", "disconnect"}, overlapped' \in BOOLEAN
  PROVE  Typed'
<1>1. PICK stage \in {"closing", "stopping", "done"} : Shutdown(c, st, stage)
  BY TeardownShutsDown DEF Typed
<1>2. /\ state' \in States
      /\ pc' \in [Calls \cup {User} -> Places]
      /\ gateway' \in [Calls -> {"none", "starting", "open", "closed"}]
      /\ engaged' \subseteq {n \in Calls : gateway'[n] \in {"open", "closed"}}
      /\ blocked' \in BOOLEAN /\ systemProxy' \in BOOLEAN
      /\ Stages'
  BY <1>1, ShutdownTyped
<1>3. running' \in BOOLEAN /\ {link', handshake', cipher', proxy', killswitch'} \subseteq 0..calls
  BY DEF Teardown, Typed, TypeOK
<1>4. conn' \in [Calls -> {"none", "open", "closed"}]
  BY DEF Teardown, Typed, TypeOK
<1>5. /\ via' \in [Calls -> 0..calls] /\ completed' \subseteq Calls
      /\ os' \in {"Windows", "Linux"} /\ transport' \in {"udp", "stealth"}
  BY DEF Teardown, Typed, TypeOK, setting
<1>6. calls' \in 0..MaxCalls /\ disconnects' \in 0..MaxDisconnects /\ losses' \in 0..MaxLosses
  BY DEF Typed, TypeOK
<1> QED
  BY <1>2, <1>3, <1>4, <1>5, <1>6 DEF Typed, TypeOK, States, Places

\* The start of a call, by the user or by the reconnect task: a call that is counted.
LEMMA EnterTyped ==
  ASSUME Typed, NEW n \in Calls, pc[n] \in {"unused", "sleeping"}, Enter(n),
         calls' \in calls..MaxCalls, n <= calls', overlapped' \in BOOLEAN,
         wanted' \in {"connect", "disconnect"},
         UNCHANGED <<handshake, cipher, proxy, killswitch, conn, via, future, completed, gateway,
                     firewall, systemProxy, setting, disconnects, losses>>
  PROVE  Typed'
<1>1. /\ running' \in BOOLEAN /\ state' \in States
      /\ pc' \in [Calls \cup {User} -> Places]
  BY DEF Enter, Typed, TypeOK, States, Places, Busy
<1>2. calls \in Nat /\ calls' \in Nat /\ calls <= calls' /\ n \in Nat
  BY DEF Typed, TypeOK, Calls
<1>3. {link', handshake', cipher', proxy', killswitch'} \subseteq 0..calls'
  BY <1>2 DEF Enter, Typed, TypeOK
<1>4. via' \in [Calls -> 0..calls']
  BY <1>2 DEF Typed, TypeOK
<1>5. calls' \in 0..MaxCalls
  BY <1>2
<1>6. /\ conn' \in [Calls -> {"none", "open", "closed"}]
      /\ future' \in [Calls -> {"none", "pending", "ok", "failed"}]
      /\ gateway' \in [Calls -> {"none", "starting", "open", "closed"}]
      /\ engaged' \subseteq {m \in Calls : gateway'[m] \in {"open", "closed"}}
      /\ completed' \subseteq Calls
  BY DEF Typed, TypeOK, firewall
<1>7. /\ blocked' \in BOOLEAN /\ systemProxy' \in BOOLEAN
      /\ os' \in {"Windows", "Linux"} /\ transport' \in {"udp", "stealth"}
      /\ disconnects' \in 0..MaxDisconnects /\ losses' \in 0..MaxLosses
  BY DEF Typed, TypeOK, firewall, setting
<1>8. Stages'
  BY <1>2 DEF Enter, Stages, Typed, TypeOK, Calls
<1> QED
  BY <1>1, <1>3, <1>4, <1>5, <1>6, <1>7, <1>8 DEF Typed, TypeOK, States, Places

\* A client that was never connected has the types, and no call is at any await.
LEMMA InitTyped == Init => Typed
<1> SUFFICES ASSUME Init PROVE Typed
  OBVIOUS
<1>1. pc \in [Calls \cup {User} -> Places] /\ \A n \in Calls : pc[n] = "unused"
  <2>1. \A n \in Calls : n # User
    BY DEF Calls, User
  <2>2. pc = [c \in Calls \cup {User} |-> IF c = User THEN "done" ELSE "unused"]
    BY DEF Init
  <2> QED
    BY <2>1, <2>2 DEF Places
<1>2. Stages
  BY <1>1 DEF Init, Stages
<1>3. /\ {link, handshake, cipher, proxy, killswitch} \subseteq 0..calls
      /\ via \in [Calls -> 0..calls]
      /\ calls \in 0..MaxCalls /\ disconnects \in 0..MaxDisconnects /\ losses \in 0..MaxLosses
  BY DEF Init, Nobody
<1> QED
  BY <1>1, <1>2, <1>3 DEF Init, Typed, TypeOK, Places

\* Every step of a call, of a timer, of the network and of the user keeps the types.
LEMMA TypedStep == Typed /\ [Next]_vars => Typed'
<1> SUFFICES ASSUME Typed, [Next]_vars PROVE Typed'
  OBVIOUS
<1>a. \A n \in Calls : n \in Nat /\ n # User
  BY DEF Calls, User
<1>b. calls \in Nat /\ proxy \in 0..calls /\ state \in States
  BY DEF Typed, TypeOK, States
<1>c. overlapped \in BOOLEAN /\ (Overlap => overlapped' \in BOOLEAN)
  BY DEF Typed, TypeOK, Overlap
<1>1. CASE Connect
  <2>1. calls + 1 \in Calls /\ pc[calls + 1] = "unused"
    BY <1>1, <1>b DEF Connect, Calls, Typed, TypeOK, Stages, Places, User
  <2> QED
    BY <1>1, <1>b, <1>c, <2>1, EnterTyped DEF Connect, Calls
<1>2. CASE Disconnect
  <2>1. disconnects' \in 0..MaxDisconnects
    BY <1>2 DEF Disconnect, Typed, TypeOK
  <2>2. /\ cipher' \in 0..calls /\ future' \in [Calls -> {"none", "pending", "ok", "failed"}]
    BY <1>2 DEF Disconnect, Typed, TypeOK
  <2> QED
    BY <1>2, <1>b, <1>c, <2>1, <2>2, TeardownTyped DEF Disconnect
<1>3. ASSUME NEW n \in Calls, Opened(n) PROVE Typed'
  <2>1. n \in 1..calls
    BY <1>3, <1>a, <1>b DEF Opened, Typed, Stages, Calls
  <2>2. /\ {link', handshake', cipher', proxy', killswitch'} \subseteq 0..calls
        /\ conn' \in [Calls -> {"none", "open", "closed"}]
        /\ future' \in [Calls -> {"none", "pending", "ok", "failed"}]
        /\ pc' \in [Calls \cup {User} -> Places]
    BY <1>3, <2>1 DEF Opened, Typed, TypeOK, Places
  <2>3. via' \in [Calls -> 0..calls]
    BY <1>3, <1>b, <2>2 DEF Opened, Through, Typed, TypeOK, Nobody
  <2>4. Stages'
    BY <1>3, <1>a DEF Opened, Stages, Typed, TypeOK, counters
  <2> QED
    BY <1>3, <2>2, <2>3, <2>4
    DEF Opened, Typed, TypeOK, Places, Busy, counters, firewall, setting
<1>4. ASSUME NEW n \in Calls, NotOpened(n) PROVE Typed'
  BY <1>4, <1>a, <1>b, <1>c, TeardownTyped
  DEF NotOpened, Fail, counters, Typed, TypeOK, States
<1>5. ASSUME NEW n \in Calls, Refused(n) PROVE Typed'
  BY <1>5, <1>a, <1>b, <1>c, TeardownTyped
  DEF Refused, Fail, counters, Typed, TypeOK, States
<1>6. ASSUME NEW n \in Calls, Timeout(n) PROVE Typed'
  <2>1. future' \in [Calls -> {"none", "pending", "ok", "failed"}]
    BY <1>6 DEF Timeout, Typed, TypeOK
  <2> QED
    BY <1>6, <1>a, <1>b, <1>c, <2>1, TeardownTyped
    DEF Timeout, Fail, counters, Typed, TypeOK, States
<1>7. ASSUME NEW n \in Calls, Authenticated(n) PROVE Typed'
  <2>1. n \in 1..calls
    BY <1>7, <1>a, <1>b DEF Authenticated, Typed, Stages, Calls
  <2>2. cipher' \in 0..calls
    BY <1>7, <1>b DEF Authenticated, NewCipher, Typed, TypeOK, Nobody
  <2>3. CASE PortBusy
    BY <1>7, <1>a, <1>b, <1>c, <2>1, <2>2, <2>3, TeardownTyped
    DEF Authenticated, Fail, counters, Typed, TypeOK, States
  <2>4. CASE ~PortBusy
    <3>1. /\ pc' \in [Calls \cup {User} -> Places]
          /\ gateway' \in [Calls -> {"none", "starting", "open", "closed"}]
          /\ {link', handshake', cipher', proxy', killswitch'} \subseteq 0..calls
      BY <1>7, <2>1, <2>2, <2>4 DEF Authenticated, Typed, TypeOK, Places
    <3>2. engaged' \subseteq {m \in Calls : gateway'[m] \in {"open", "closed"}}
      BY <1>7, <2>4 DEF Authenticated, Typed, TypeOK, Stages, firewall
    <3>3. Stages'
      BY <1>7, <1>a, <2>4 DEF Authenticated, Stages, Typed, TypeOK, counters
    <3> QED
      BY <1>7, <2>4, <3>1, <3>2, <3>3
      DEF Authenticated, Typed, TypeOK, Places, counters, firewall, setting
  <2> QED
    BY <2>3, <2>4
<1>8. ASSUME NEW n \in Calls, Started(n) PROVE Typed'
  <2>1. n \in 1..calls
    BY <1>8, <1>a, <1>b DEF Started, Typed, Stages, Calls
  <2>2. /\ pc' \in [Calls \cup {User} -> Places]
        /\ gateway' \in [Calls -> {"none", "starting", "open", "closed"}]
        /\ {link', handshake', cipher', proxy', killswitch'} \subseteq 0..calls
    BY <1>8, <2>1 DEF Started, Serving, Engage, Typed, TypeOK, Places
  <2>3. engaged' \subseteq {m \in Calls : gateway'[m] \in {"open", "closed"}}
    BY <1>8 DEF Started, Serving, Engage, Typed, TypeOK
  <2>4. Stages'
    BY <1>8, <1>a DEF Started, Serving, Stages, Typed, TypeOK, counters
  <2>5. blocked' \in BOOLEAN /\ systemProxy' \in BOOLEAN
    BY <1>8 DEF Started, Engage
  <2> QED
    BY <1>8, <2>2, <2>3, <2>4, <2>5
    DEF Started, Typed, TypeOK, Places, Busy, counters, setting
<1>9. ASSUME NEW n \in Calls, Wake(n) PROVE Typed'
  <2>1. CASE running /\ state \notin Busy
    <3>1. n <= calls /\ calls <= MaxCalls
      BY <1>9 DEF Wake, Typed, TypeOK, Stages
    <3> QED
      BY <1>9, <1>a, <1>b, <1>c, <2>1, <3>1, EnterTyped
      DEF Wake, counters, Typed, TypeOK
  <2>2. CASE ~(running /\ state \notin Busy)
    <3>1. pc' \in [Calls \cup {User} -> Places]
      BY <1>9, <2>2 DEF Wake, Typed, TypeOK, Places
    <3>2. Stages'
      BY <1>9, <2>2 DEF Wake, Stages, Typed, TypeOK, counters
    <3> QED
      BY <1>9, <2>2, <3>1, <3>2
      DEF Wake, Typed, TypeOK, Places, counters, firewall, setting
  <2> QED
    BY <2>1, <2>2
<1>10. ASSUME NEW n \in Calls, Lose(n) PROVE Typed'
  <2>1. conn' \in [Calls -> {"none", "open", "closed"}] /\ losses' \in 0..MaxLosses
    BY <1>10 DEF Lose, Typed, TypeOK
  <2>2. CASE running /\ transport = "udp"
    <3>1. calls + 1 \in Calls /\ calls' = calls + 1
      BY <1>10, <1>b, <2>2 DEF Lose, Calls
    <3>a. calls' \in 0..MaxCalls
      BY <1>b, <3>1 DEF Calls
    <3>b. {link', handshake', cipher', proxy', killswitch'} \subseteq 0..calls'
      BY <1>10, <1>b, <3>1 DEF Lose, Typed, TypeOK, fields
    <3>2. pc' \in [Calls \cup {User} -> Places]
      BY <1>10, <2>2 DEF Lose, Typed, TypeOK, Places
    <3>3. via' \in [Calls -> 0..calls']
      BY <1>10, <1>b, <2>2, <3>1 DEF Lose, Typed, TypeOK, Calls
    <3>4. Stages'
      BY <1>10, <1>b, <1>a, <2>2, <3>1 DEF Lose, Stages, Typed, TypeOK
    <3> QED
      BY <1>10, <1>c, <2>1, <2>2, <3>a, <3>b, <3>2, <3>3, <3>4
      DEF Lose, Typed, TypeOK, Places, Busy, fields, firewall, setting
  <2>3. CASE ~(running /\ transport = "udp")
    BY <1>10, <1>c, <2>1, <2>3
    DEF Lose, Stages, Typed, TypeOK, fields, firewall, setting
  <2> QED
    BY <2>2, <2>3
<1>11. ASSUME NEW n \in Calls, NEW intact \in BOOLEAN, Answer(n, intact) PROVE Typed'
  <2>1. completed' \subseteq Calls /\ future' \in [Calls -> {"none", "pending", "ok", "failed"}]
    BY <1>11 DEF Answer, Typed, TypeOK
  <2> QED
    BY <1>11, <2>1
    DEF Answer, Stages, Typed, TypeOK, fields, firewall, setting, counters
<1>12. ASSUME NEW c \in Calls \cup {User}, Closed(c) \/ Stopped(c) PROVE Typed'
  <2>1. /\ pc[c] \in {"closing", "stopping"}
        /\ UNCHANGED <<running, fields, conn, via, future, completed, setting, counters, wanted,
                       overlapped>>
    BY <1>12 DEF Closed, Stopped
  <2>2. \E stage \in {"closing", "stopping", "done"} : Shutdown(c, state, stage)
    BY <1>12, ClosedShutsDown, StoppedShutsDown DEF Typed
  <2>3. /\ state' \in States
        /\ pc' \in [Calls \cup {User} -> Places]
        /\ gateway' \in [Calls -> {"none", "starting", "open", "closed"}]
        /\ engaged' \subseteq {n \in Calls : gateway'[n] \in {"open", "closed"}}
        /\ blocked' \in BOOLEAN /\ systemProxy' \in BOOLEAN
        /\ Stages'
    BY <1>b, <2>1, <2>2, ShutdownTyped DEF counters
  <2> QED
    BY <2>1, <2>3 DEF Typed, TypeOK, States, Places, fields, setting, counters
<1>13. CASE UNCHANGED vars
  BY <1>13 DEF vars, Stages, Typed, TypeOK
<1> QED
  BY <1>1, <1>2, <1>3, <1>4, <1>5, <1>6, <1>7, <1>8, <1>9, <1>10, <1>11, <1>12, <1>13
  DEF Next, Coroutine

\* The fields of the client stay in their types through any overlap of calls: none refers to
\* a call that was not made, and an engaged kill switch belongs to a gateway that was bound.
THEOREM TypeCorrect == Spec => []TypeOK
<1>1. Typed => TypeOK
  BY DEF Typed
<1> QED
  BY <1>1, InitTyped, TypedStep, PTL DEF Spec

\* Nothing opens the firewall without taking CONNECTED away in the same step: the gateway is
\* closed before the kill switch, and the state is set behind both.
THEOREM ShieldHolds == Spec => []ConnectedIsShielded
<1>1. Init => ConnectedIsShielded
  BY DEF Init, ConnectedIsShielded
<1>2. Typed /\ ConnectedIsShielded /\ [Next]_vars => ConnectedIsShielded'
  <2> SUFFICES ASSUME Typed, ConnectedIsShielded, [Next]_vars PROVE ConnectedIsShielded'
    OBVIOUS
  <2>1. ASSUME NEW c, NEW st, NEW stage, st = "ERROR" \/ st = state, Shutdown(c, st, stage)
        PROVE  ConnectedIsShielded'
    BY <2>1 DEF Shutdown, firewall, ConnectedIsShielded
  <2>2. ASSUME NEW c, NEW p, NEW st, st = "ERROR" \/ st = state, Teardown(c, p, st)
        PROVE  ConnectedIsShielded'
    BY <2>1, <2>2, TeardownShutsDown DEF Typed
  <2>3. ASSUME NEW n \in Calls, Authenticated(n) PROVE ConnectedIsShielded'
    BY <2>2, <2>3 DEF Authenticated, Fail, firewall, ConnectedIsShielded
  <2>4. ASSUME NEW n \in Calls, NotOpened(n) \/ Refused(n) \/ Timeout(n)
        PROVE  ConnectedIsShielded'
    BY <2>2, <2>4 DEF NotOpened, Refused, Timeout, Fail
  <2>5. ASSUME NEW n \in Calls, Started(n) PROVE ConnectedIsShielded'
    BY <2>5 DEF Started, Engage, ConnectedIsShielded
  <2>6. ASSUME NEW n \in Calls, NEW intact \in BOOLEAN,
               Opened(n) \/ Wake(n) \/ Lose(n) \/ Answer(n, intact)
        PROVE  ConnectedIsShielded'
    BY <2>6 DEF Opened, Wake, Enter, Lose, Answer, firewall, ConnectedIsShielded
  <2>7. ASSUME NEW c \in Calls \cup {User}, Closed(c) \/ Stopped(c)
        PROVE  ConnectedIsShielded'
    BY <2>1, <2>7, ClosedShutsDown, StoppedShutsDown DEF Typed
  <2>8. CASE Connect
    BY <2>8 DEF Connect, Enter, ConnectedIsShielded
  <2>9. CASE Disconnect
    BY <2>2, <2>9 DEF Disconnect
  <2>10. CASE UNCHANGED vars
    BY <2>10 DEF vars, ConnectedIsShielded
  <2> QED
    BY <2>3, <2>4, <2>5, <2>6, <2>7, <2>8, <2>9, <2>10 DEF Next, Coroutine
<1> QED
  BY <1>1, <1>2, InitTyped, TypedStep, PTL DEF Spec

------------------------------------------------------------------------------------
(* The inductive invariant of calls that do not overlap *)

\* Only a call of connect lets the client run, and the reconnect task looks whether it does.
StopIsHeeded == wanted = "disconnect" => ~running

Alone == \A c, d \in Calls \cup {User} : InFlight(c) /\ InFlight(d) => c = d

\* The only kill switch in force is the one the client refers to, until its gateway is gone.
Clean ==
    /\ engaged \subseteq {killswitch}
    /\ blocked => engaged # {}
    /\ \A n \in engaged : gateway[n] = "open" \/ \E c \in Calls \cup {User} : pc[c] = "stopping"
    /\ \A n \in Calls : pc[n] = "proxy" => engaged = {}
    /\ wanted = "disconnect" => \A n \in Calls : ~InFlight(n)
    /\ InFlight(User) => wanted = "disconnect"
    /\ pc[User] = "stopping" => ~systemProxy
    /\ DisconnectCleansUp

\* What connect has made by each of its awaits is its own.
Own ==
    \A n \in Calls :
        /\ pc[n] \in {"transport", "auth", "proxy"} => running
        /\ pc[n] = "transport" => state = "CONNECTING" /\ (transport = "stealth" => link = n)
        /\ pc[n] \in {"auth", "proxy"} =>
            state = "AUTHENTICATING" /\ link = n /\ handshake = n /\ conn[n] = "open"
        /\ pc[n] = "auth" /\ future[n] = "ok" => n \in completed
        /\ pc[n] = "proxy" => cipher = n /\ proxy = n
        /\ pc[n] \in {"closing", "stopping"} => state = "ERROR"

InOrderInv ==
    /\ StopIsHeeded
    /\ ~overlapped => Alone /\ Clean /\ Own /\ ConnectedIsCoherent

\* The calls in flight after a step of c that leaves the other coroutines where they are.
LEMMA OthersStay ==
  ASSUME TypeOK, NEW c \in Calls \cup {User}, \A d \in Calls \cup {User} : InFlight(d) => d = c,
         NEW place, pc' = [pc EXCEPT ![c] = place]
  PROVE  /\ pc'[c] = place
         /\ \A d \in Calls \cup {User} : d # c => pc'[d] = pc[d] /\ ~InFlight(d) /\ ~InFlight(d)'
         /\ Alone'
<1>1. pc'[c] = place /\ \A d \in Calls \cup {User} : d # c => pc'[d] = pc[d]
  BY DEF TypeOK
<1>2. \A d \in Calls \cup {User} : d # c => ~InFlight(d) /\ ~InFlight(d)'
  BY <1>1 DEF InFlight
<1> QED
  BY <1>1, <1>2 DEF Alone

\* A disconnect of one coroutine, the only one in flight: it leaves the machine clean, and
\* does so for good when the user asked for it.
LEMMA ShutdownInOrder ==
  ASSUME TypeOK, Clean, NEW c \in Calls \cup {User},
         \A d \in Calls \cup {User} : InFlight(d) => d = c,
         NEW st, NEW stage \in {"closing", "stopping", "done"}, Shutdown(c, st, stage),
         stage = "closing" => pc[c] # "stopping",
         IF c = User THEN wanted' = "disconnect"
         ELSE InFlight(c) /\ st = "ERROR" /\ wanted' = wanted,
         killswitch' = killswitch
  PROVE  Alone' /\ Clean' /\ Own' /\ ConnectedIsCoherent'
<1>0. User \notin Calls /\ engaged \subseteq Calls
  BY DEF Calls, User, TypeOK
<1>1. /\ pc'[c] = stage
      /\ \A d \in Calls \cup {User} : d # c => pc'[d] = pc[d] /\ ~InFlight(d) /\ ~InFlight(d)'
      /\ Alone'
  BY OthersStay DEF Shutdown
<1>2. stage = "done" => engaged' = {} /\ ~blocked'
  BY DEF Shutdown, Disengage, Clean
<1>3. stage # "done" => engaged' = engaged /\ blocked' = blocked
  BY DEF Shutdown, firewall
<1>4. c # User => wanted' # "disconnect"
  BY DEF Clean, TypeOK
<1>5. Own'
  <2> SUFFICES ASSUME NEW n \in Calls, InFlight(n)'
               PROVE  pc'[n] \in {"closing", "stopping"} /\ state' = "ERROR"
    BY DEF Own, InFlight
  <2>1. n = c
    BY <1>1
  <2> QED
    BY <1>0, <1>1, <2>1 DEF Shutdown, InFlight
<1>6. ConnectedIsCoherent'
  BY <1>0, <1>1 DEF Shutdown, ConnectedIsCoherent
<1>7. ASSUME NEW n \in engaged'
      PROVE  gateway'[n] = "open" \/ \E d \in Calls \cup {User} : pc'[d] = "stopping"
  <2>1. CASE stage = "closing"
    <3>1. gateway'[n] = gateway[n]
      BY <1>0, <1>3, <1>7, <2>1 DEF Shutdown
    <3>2. ~ \E d \in Calls \cup {User} : pc[d] = "stopping"
      BY <2>1 DEF InFlight
    <3> QED
      BY <1>3, <1>7, <2>1, <3>1, <3>2 DEF Clean
  <2>2. CASE stage = "stopping"
    BY <1>1, <2>2
  <2> QED
    BY <1>2, <1>7, <2>1, <2>2
<1>8. /\ pc'[User] = "stopping" => ~systemProxy'
      /\ DisconnectCleansUp'
  <2>1. CASE c = User
    <3>1. pc[User] = "stopping" => systemProxy' = FALSE
      <4>1. pc[User] = "stopping" => systemProxy = FALSE
        BY DEF Clean, TypeOK
      <4> QED
        BY <4>1 DEF Shutdown
    <3>2. stage # "closing" => systemProxy' = FALSE
      BY <2>1, <3>1 DEF Shutdown
    <3> QED
      BY <1>1, <1>2, <2>1, <3>2 DEF DisconnectCleansUp
  <2>2. CASE c # User
    <3>1. wanted' # "disconnect"
      BY <1>4, <2>2
    <3>2. pc'[User] # "stopping"
      BY <1>1, <2>2 DEF InFlight
    <3> QED
      BY <3>1, <3>2 DEF DisconnectCleansUp
  <2> QED
    BY <2>1, <2>2
<1>9. Clean'
  <2>1. engaged' \subseteq {killswitch'} /\ (blocked' => engaged' # {})
    BY <1>2, <1>3 DEF Clean
  <2>2. \A n \in Calls : pc'[n] = "proxy" => engaged' = {}
    BY <1>1 DEF InFlight
  <2>3. wanted' = "disconnect" => \A n \in Calls : ~InFlight(n)'
    BY <1>0, <1>1, <1>4
  <2>4. InFlight(User)' => wanted' = "disconnect"
    BY <1>1
  <2> QED
    BY <1>7, <1>8, <2>1, <2>2, <2>3, <2>4 DEF Clean
<1> QED
  BY <1>1, <1>5, <1>6, <1>9

\* A call that begins while nothing is in flight.
LEMMA EnterInOrder ==
  ASSUME TypeOK, Clean, NEW n \in Calls, \A d \in Calls \cup {User} : ~InFlight(d), Enter(n),
         wanted' # "disconnect",
         UNCHANGED <<killswitch, gateway, firewall, systemProxy, transport>>
  PROVE  Alone' /\ Clean' /\ Own' /\ ConnectedIsCoherent'
<1>0. User \notin Calls
  BY DEF Calls, User
<1>1. /\ pc'[n] = "transport"
      /\ \A d \in Calls \cup {User} : d # n => pc'[d] = pc[d] /\ ~InFlight(d) /\ ~InFlight(d)'
      /\ Alone'
  BY OthersStay DEF Enter
<1>2. \A d \in Calls \cup {User} : pc[d] # "stopping" /\ pc'[d] # "stopping" /\ pc'[d] # "proxy"
  BY <1>1 DEF InFlight
<1>3. Clean'
  <2>1. \A m \in engaged' : gateway'[m] = "open"
    BY <1>2 DEF Clean, firewall
  <2> QED
    BY <1>0, <1>1, <1>2, <2>1 DEF Clean, DisconnectCleansUp, firewall
<1>4. Own'
  <2> SUFFICES ASSUME NEW m \in Calls, InFlight(m)'
               PROVE  /\ pc'[m] = "transport" /\ running' /\ state' = "CONNECTING"
                      /\ transport' = "stealth" => link' = m
    BY DEF Own, InFlight
  <2> QED
    BY <1>1 DEF Enter
<1> QED
  BY <1>1, <1>3, <1>4 DEF Enter, ConnectedIsCoherent

\* Nothing is in flight before the first call, and the machine is clean.
LEMMA InitInOrder == Init => InOrderInv
<1> SUFFICES ASSUME Init PROVE InOrderInv
  OBVIOUS
<1>1. \A n \in Calls : n # User
  BY DEF Calls, User
<1>2. \A c \in Calls \cup {User} : pc[c] \in {"unused", "done"} /\ ~InFlight(c)
  BY <1>1 DEF Init, InFlight
<1> QED
  BY <1>2
  DEF Init, InOrderInv, StopIsHeeded, Alone, Clean, Own, DisconnectCleansUp, ConnectedIsCoherent

\* The steps that leave the overlap unmarked, and thereby begin while nothing is in flight.
LEMMA QuietStart ==
  ASSUME TypeOK, Overlap, ~overlapped'
  PROVE  ~overlapped /\ \A d \in Calls \cup {User} : ~InFlight(d)
BY DEF Overlap, TypeOK

\* Every step keeps a client coherent and its machine accounted for, as long as no call
\* begins during another.
LEMMA InOrderStep == Typed /\ InOrderInv /\ [Next]_vars => InOrderInv'
<1> SUFFICES ASSUME Typed, InOrderInv, [Next]_vars PROVE InOrderInv'
  OBVIOUS
<1> USE DEF Typed
<1>0. User \notin Calls
  BY DEF Calls, User
<1>1. StopIsHeeded'
  <2>1. StopIsHeeded
    BY DEF InOrderInv
  <2>2. ASSUME NEW c, NEW p, NEW st, Teardown(c, p, st) PROVE StopIsHeeded'
    BY <2>2 DEF Teardown, StopIsHeeded
  <2>3. ASSUME NEW n \in Calls, NotOpened(n) \/ Refused(n) \/ Timeout(n) \/ Authenticated(n)
        PROVE  StopIsHeeded'
    BY <2>1, <2>2, <2>3 DEF NotOpened, Refused, Timeout, Authenticated, Fail, StopIsHeeded
  <2>4. ASSUME NEW n \in Calls, NEW intact \in BOOLEAN,
               Opened(n) \/ Started(n) \/ Wake(n) \/ Lose(n) \/ Answer(n, intact)
        PROVE  StopIsHeeded'
    BY <2>1, <2>4 DEF Opened, Started, Wake, Lose, Answer, Enter, StopIsHeeded
  <2>5. ASSUME NEW c \in Calls \cup {User}, Closed(c) \/ Stopped(c) PROVE StopIsHeeded'
    BY <2>1, <2>5 DEF Closed, Stopped, StopIsHeeded
  <2>6. CASE Connect \/ UNCHANGED vars
    BY <2>1, <2>6 DEF Connect, Enter, vars, StopIsHeeded
  <2>7. CASE Disconnect
    BY <2>2, <2>7 DEF Disconnect
  <2> QED
    BY <2>3, <2>4, <2>5, <2>6, <2>7 DEF Next, Coroutine
<1> SUFFICES ASSUME ~overlapped' PROVE Alone' /\ Clean' /\ Own' /\ ConnectedIsCoherent'
  BY <1>1 DEF InOrderInv
<1>2. ~overlapped
  <2>1. ASSUME NEW n \in Calls, NEW intact \in BOOLEAN,
               \/ NotOpened(n) \/ Refused(n) \/ Timeout(n) \/ Authenticated(n) \/ Opened(n)
               \/ Started(n) \/ Answer(n, intact) \/ Closed(n) \/ Stopped(n)
        PROVE  ~overlapped
    BY <2>1
    DEF NotOpened, Refused, Timeout, Authenticated, Opened, Started, Answer, Closed, Stopped
  <2>2. ASSUME NEW n \in Calls, Wake(n) \/ Lose(n) PROVE ~overlapped
    BY <2>2, QuietStart DEF Wake, Lose
  <2>3. CASE Connect \/ Disconnect
    BY <2>3, QuietStart DEF Connect, Disconnect
  <2>4. CASE Closed(User) \/ Stopped(User) \/ UNCHANGED vars
    BY <2>4 DEF Closed, Stopped, vars
  <2> QED
    BY <2>1, <2>2, <2>3, <2>4 DEF Next, Coroutine
<1>3. Alone /\ Clean /\ Own /\ ConnectedIsCoherent /\ StopIsHeeded
  BY <1>2 DEF InOrderInv
<1>4. ASSUME NEW c \in Calls \cup {User}, InFlight(c)
      PROVE  \A d \in Calls \cup {User} : InFlight(d) => d = c
  BY <1>3, <1>4 DEF Alone
<1>5. ASSUME NEW n \in Calls, NEW p, InFlight(n), Fail(n, p), wanted' = wanted,
             pc[n] # "stopping"
      PROVE  Alone' /\ Clean' /\ Own' /\ ConnectedIsCoherent'
  <2>1. PICK stage \in {"closing", "stopping", "done"} : Shutdown(n, "ERROR", stage)
    BY <1>5, TeardownShutsDown DEF Fail
  <2>2. killswitch' = killswitch
    BY <1>5 DEF Fail, Teardown
  <2> QED
    BY <1>0, <1>3, <1>4, <1>5, <2>1, <2>2, ShutdownInOrder
<1>6. CASE Connect
  <2>1. \A d \in Calls \cup {User} : ~InFlight(d)
    BY <1>6, QuietStart DEF Connect
  <2>2. calls + 1 \in Calls
    BY <1>6 DEF Connect, Calls, TypeOK
  <2> QED
    BY <1>3, <1>6, <2>1, <2>2, EnterInOrder DEF Connect, setting
<1>7. CASE Disconnect
  <2>1. \A d \in Calls \cup {User} : ~InFlight(d)
    BY <1>7, QuietStart DEF Disconnect
  <2>2. PICK stage \in {"closing", "stopping", "done"} : Shutdown(User, state, stage)
    BY <1>7, TeardownShutsDown DEF Disconnect
  <2>3. killswitch' = killswitch /\ wanted' = "disconnect" /\ pc[User] # "stopping"
    BY <1>7 DEF Disconnect, Teardown
  <2> QED
    BY <1>3, <2>1, <2>2, <2>3, ShutdownInOrder
<1>8. ASSUME NEW n \in Calls, NotOpened(n) \/ Refused(n) \/ Timeout(n)
      PROVE  Alone' /\ Clean' /\ Own' /\ ConnectedIsCoherent'
  BY <1>5, <1>8 DEF NotOpened, Refused, Timeout, InFlight
<1>9. ASSUME NEW n \in Calls, Opened(n)
      PROVE  Alone' /\ Clean' /\ Own' /\ ConnectedIsCoherent'
  <2>1. InFlight(n) /\ pc[n] = "transport"
    BY <1>9 DEF Opened, InFlight
  <2>2. /\ pc'[n] = "auth"
        /\ \A d \in Calls \cup {User} : d # n => pc'[d] = pc[d] /\ ~InFlight(d) /\ ~InFlight(d)'
        /\ Alone'
    BY <1>4, <1>9, <2>1, OthersStay DEF Opened
  <2>3. Own'
    <3>1. future'[n] = "pending" /\ conn'[n] = "open" /\ link' = n
      BY <1>3, <1>9, <2>1 DEF Opened, Own, TypeOK, setting
    <3>2. running' /\ state' = "AUTHENTICATING" /\ handshake' = n
      BY <1>3, <1>9, <2>1 DEF Opened, Own
    <3> QED
      BY <2>2, <3>1, <3>2 DEF Own, InFlight
  <2>4. Clean'
    <3>1. \A d \in Calls \cup {User} : pc'[d] \notin {"proxy", "stopping"} /\ pc[d] # "stopping"
      BY <2>1, <2>2 DEF InFlight
    <3>2. wanted' # "disconnect" /\ ~InFlight(User)'
      BY <1>0, <1>3, <1>9, <2>1, <2>2 DEF Opened, Clean
    <3> QED
      BY <1>3, <1>9, <3>1, <3>2 DEF Opened, Clean, DisconnectCleansUp, firewall
  <2> QED
    BY <1>9, <2>2, <2>3, <2>4 DEF Opened, ConnectedIsCoherent
<1>10. ASSUME NEW n \in Calls, Authenticated(n)
       PROVE  Alone' /\ Clean' /\ Own' /\ ConnectedIsCoherent'
  <2>1. InFlight(n) /\ pc[n] = "auth" /\ future[n] = "ok"
    BY <1>10 DEF Authenticated, InFlight
  <2>2. CASE PortBusy
    BY <1>5, <1>10, <2>1, <2>2 DEF Authenticated
  <2>3. CASE ~PortBusy
    <3>1. /\ pc'[n] = "proxy"
          /\ \A d \in Calls \cup {User} : d # n => pc'[d] = pc[d] /\ ~InFlight(d) /\ ~InFlight(d)'
          /\ Alone'
      BY <1>4, <1>10, <2>1, <2>3, OthersStay DEF Authenticated
    <3>2. \A d \in Calls \cup {User} : pc'[d] # "stopping" /\ pc[d] # "stopping"
      BY <2>1, <3>1 DEF InFlight
    <3>3. engaged = {}
      BY <1>3, <2>3, <3>2 DEF Clean, PortBusy, TypeOK
    <3>4. cipher' = n /\ proxy' = n
      BY <1>3, <1>10, <2>1, <2>3 DEF Authenticated, NewCipher, Own
    <3>5. Own'
      <4>1. /\ running' /\ state' = "AUTHENTICATING" /\ link' = n /\ handshake' = n
            /\ conn'[n] = "open"
        BY <1>3, <1>10, <2>1, <2>3 DEF Authenticated, Own
      <4> QED
        BY <3>1, <3>4, <4>1 DEF Own, InFlight
    <3>6. wanted' # "disconnect" /\ ~InFlight(User)'
      BY <1>0, <1>3, <1>10, <2>1, <3>1 DEF Authenticated, Clean
    <3>7. Clean'
      BY <1>3, <1>10, <2>3, <3>2, <3>3, <3>6
      DEF Authenticated, Clean, DisconnectCleansUp, firewall
    <3>8. state' # "CONNECTED"
      BY <1>3, <1>10, <2>1, <2>3 DEF Authenticated, Own
    <3> QED
      BY <3>1, <3>5, <3>7, <3>8 DEF ConnectedIsCoherent
  <2> QED
    BY <2>2, <2>3
<1>11. ASSUME NEW n \in Calls, Started(n)
       PROVE  Alone' /\ Clean' /\ Own' /\ ConnectedIsCoherent'
  <2>1. InFlight(n) /\ pc[n] = "proxy"
    BY <1>11 DEF Started, InFlight
  <2>2. /\ pc'[n] = "done"
        /\ \A d \in Calls \cup {User} : d # n => pc'[d] = pc[d] /\ ~InFlight(d) /\ ~InFlight(d)'
        /\ Alone'
    BY <1>4, <1>11, <2>1, OthersStay DEF Started
  <2>3. /\ engaged' = {n} /\ blocked' /\ killswitch' = n
        /\ gateway'[n] = "open" /\ systemProxy' = (os = "Windows")
    BY <1>3, <1>11, <2>1 DEF Started, Engage, Serving, Clean, TypeOK
  <2>4. \A d \in Calls \cup {User} : ~InFlight(d)'
    BY <2>2 DEF InFlight
  <2>5. wanted' # "disconnect"
    BY <1>3, <1>11, <2>1 DEF Started, Clean
  <2>6. \A d \in Calls \cup {User} : pc'[d] \notin {"proxy", "stopping"}
    BY <2>4 DEF InFlight
  <2>7. Clean'
    BY <2>3, <2>4, <2>5, <2>6 DEF Clean, DisconnectCleansUp
  <2>8. Own'
    BY <2>4 DEF Own, InFlight
  <2>9. ConnectedIsCoherent'
    BY <1>3, <1>11, <2>1, <2>3
    DEF Started, Own, ConnectedIsCoherent, setting, Calls, Nobody
  <2> QED
    BY <2>2, <2>7, <2>8, <2>9
<1>12. ASSUME NEW n \in Calls, Wake(n)
       PROVE  Alone' /\ Clean' /\ Own' /\ ConnectedIsCoherent'
  <2>1. CASE running /\ state \notin Busy
    <3>1. \A d \in Calls \cup {User} : ~InFlight(d)
      BY <1>12, <2>1, QuietStart DEF Wake
    <3>2. wanted' # "disconnect"
      BY <1>3, <1>12, <2>1 DEF Wake, StopIsHeeded
    <3> QED
      BY <1>3, <1>12, <2>1, <3>1, <3>2, EnterInOrder DEF Wake, setting
  <2>2. CASE ~(running /\ state \notin Busy)
    <3>1. /\ \A d \in Calls \cup {User} : d # n => pc'[d] = pc[d]
          /\ pc[n] = "sleeping" /\ pc'[n] = "done"
      BY <1>12, <2>2 DEF Wake, TypeOK
    <3>2. \A d \in Calls \cup {User} : pc'[d] = pc[d] \/ (~InFlight(d) /\ ~InFlight(d)')
      BY <3>1 DEF InFlight
    <3>3. \A d \in Calls \cup {User} :
            /\ InFlight(d)' <=> InFlight(d)
            /\ InFlight(d)' => pc'[d] = pc[d]
      BY <3>2 DEF InFlight
    <3>4. Alone'
      BY <1>3, <3>3 DEF Alone
    <3>5. Own'
      BY <1>3, <1>12, <2>2, <3>1 DEF Wake, Own, setting
    <3>6. pc'[User] = pc[User]
      BY <1>0, <3>1
    <3>7. Clean'
      <4>1. \A d \in Calls \cup {User} :
              (pc'[d] = "stopping" <=> pc[d] = "stopping") /\ (pc'[d] = "proxy" <=> pc[d] = "proxy")
        BY <3>1
      <4> QED
        BY <1>3, <1>12, <2>2, <3>3, <3>6, <4>1
        DEF Wake, Clean, DisconnectCleansUp, firewall
    <3>8. ConnectedIsCoherent'
      BY <1>2, <1>3, <1>12, <2>2, <3>6 DEF Wake, ConnectedIsCoherent, firewall, setting, counters
    <3> QED
      BY <3>4, <3>5, <3>7, <3>8
  <2> QED
    BY <2>1, <2>2
<1>13. ASSUME NEW n \in Calls, Lose(n)
       PROVE  Alone' /\ Clean' /\ Own' /\ ConnectedIsCoherent'
  <2>1. \A d \in Calls \cup {User} : ~InFlight(d)
    BY <1>13, QuietStart DEF Lose
  <2>2. \A d \in Calls \cup {User} : ~InFlight(d)'
    <3>1. CASE running /\ transport = "udp"
      <4>1. \A d \in Calls \cup {User} : pc'[d] = pc[d] \/ pc'[d] = "sleeping"
        BY <1>13, <3>1 DEF Lose, TypeOK
      <4> QED
        BY <2>1, <4>1 DEF InFlight
    <3>2. CASE ~(running /\ transport = "udp")
      BY <1>13, <2>1, <3>2 DEF Lose, InFlight
    <3> QED
      BY <3>1, <3>2
  <2>3. Alone' /\ Own'
    BY <2>2 DEF Alone, Own, InFlight
  <2>4. pc'[User] = pc[User] \/ (running /\ transport = "udp")
    BY <1>13 DEF Lose
  <2>5. pc'[User] = pc[User]
    <3>1. CASE running /\ transport = "udp"
      <4>1. calls + 1 # User
        BY <1>13, <3>1 DEF Lose, TypeOK, User
      <4> QED
        BY <1>13, <3>1, <4>1 DEF Lose, TypeOK
    <3> QED
      BY <2>4, <3>1
  <2>6. Clean'
    <3>1. \A d \in Calls \cup {User} :
            pc'[d] \notin {"proxy", "stopping"} /\ pc[d] \notin {"proxy", "stopping"}
      BY <2>1, <2>2 DEF InFlight
    <3> QED
      BY <1>3, <1>13, <2>2, <2>5, <3>1
      DEF Lose, Clean, DisconnectCleansUp, fields, firewall
  <2>7. ConnectedIsCoherent'
    <3>1. CASE running /\ transport = "udp"
      BY <1>13, <3>1 DEF Lose, ConnectedIsCoherent
    <3>2. CASE transport = "stealth"
      <4>1. losses' > 0
        BY <1>13 DEF Lose, TypeOK
      <4> QED
        BY <1>2, <1>3, <1>13, <2>5, <3>2, <4>1
        DEF Lose, ConnectedIsCoherent, fields, firewall, setting
    <3>3. CASE ~running
      BY <1>2, <1>3, <1>13, <2>5, <3>3 DEF Lose, ConnectedIsCoherent
    <3> QED
      BY <3>1, <3>2, <3>3 DEF TypeOK
  <2> QED
    BY <2>3, <2>6, <2>7
<1>14. ASSUME NEW n \in Calls, NEW intact \in BOOLEAN, Answer(n, intact)
       PROVE  Alone' /\ Clean' /\ Own' /\ ConnectedIsCoherent'
  <2>1. \A d \in Calls \cup {User} : InFlight(d)' <=> InFlight(d)
    BY <1>14 DEF Answer, InFlight
  <2>2. Alone' /\ Clean'
    BY <1>3, <1>14, <2>1 DEF Answer, Alone, Clean, DisconnectCleansUp, fields, firewall
  <2>3. ASSUME NEW m \in Calls, pc[m] = "auth", future'[m] = "ok" PROVE m \in completed'
    BY <1>3, <1>14, <2>3 DEF Answer, Own, TypeOK
  <2>4. Own'
    BY <1>3, <1>14, <2>3 DEF Answer, Own, fields, setting
  <2> QED
    BY <1>14, <2>2, <2>4 DEF Answer, ConnectedIsCoherent
<1>15. ASSUME NEW c \in Calls \cup {User}, Closed(c) \/ Stopped(c)
       PROVE  Alone' /\ Clean' /\ Own' /\ ConnectedIsCoherent'
  <2>1. PICK stage \in {"stopping", "done"} : Shutdown(c, state, stage)
    BY <1>15, ClosedShutsDown, StoppedShutsDown
  <2>2. /\ pc[c] \in {"closing", "stopping"} /\ InFlight(c)
        /\ killswitch' = killswitch /\ wanted' = wanted
    BY <1>15 DEF Closed, Stopped, InFlight, fields
  <2>3. c = User => wanted' = "disconnect"
    BY <1>3, <2>2 DEF Clean
  <2>4. c # User => state = "ERROR"
    BY <1>3, <2>2 DEF Own
  <2> QED
    BY <1>3, <1>4, <2>1, <2>2, <2>3, <2>4, ShutdownInOrder
<1>16. CASE UNCHANGED vars
  BY <1>3, <1>16
  DEF vars, Alone, Clean, Own, InFlight, DisconnectCleansUp, ConnectedIsCoherent
<1> QED
  BY <1>6, <1>7, <1>8, <1>9, <1>10, <1>11, <1>12, <1>13, <1>14, <1>15, <1>16 DEF Next, Coroutine

\* As long as no call begins during another, a disconnect the user waited for leaves neither
\* system proxy nor firewall rules behind, for any number of calls, losses and platforms.
THEOREM CleanedUp == Spec => []CleanWithoutOverlap
<1>1. InOrderInv => CleanWithoutOverlap
  BY DEF InOrderInv, Clean, CleanWithoutOverlap
<1> QED
  BY <1>1, InitTyped, TypedStep, InitInOrder, InOrderStep, PTL DEF Spec

\* CONNECTED means what it says: socket, keys, gateway and kill switch are those of one call.
THEOREM Coherence == Spec => []ConnectedIsCoherent
<1>1. InOrderInv => ConnectedIsCoherent
  BY DEF InOrderInv, ConnectedIsCoherent
<1> QED
  BY <1>1, InitTyped, TypedStep, InitInOrder, InOrderStep, PTL DEF Spec
====================================================================================
