# ShinVPN in TLA+

Specifications of [ShinVPN](../src/README.md), a user-space VPN in Python: a client that
opens a local proxy gateway and carries its traffic through an encrypted session over UDP
or a WebSocket, and a server that keeps the sessions, leases virtual addresses and dials
the remote hosts. The modules follow the code under `src/shinvpn/`; what a comment or a
document says of the code is used only as a claim to check.

Everything runs on asyncio: a handler runs without interruption up to its next `await`.
So an action here is the code between two awaits, and what may happen at an await is what
other actions do in between. The sending cipher has a lock for threads, which is modelled
as the code has it; no code in the repository calls it from a second thread.

## 1. The system

| Component | State it keeps | Operations | Talks to |
|---|---|---|---|
| **Packet cipher**, `crypto/cipher.py` | key, next number, window of received numbers (top number and bitmap) | `encrypt` (under a lock), `decrypt` (window, then tag) | client, server |
| **Handshake**, `crypto/handshake.py` | ephemeral keys, session id, the two ciphers | `create_initiation`, `process_initiation`, `create_response`, `process_response` | client, server |
| **Address pool**, `server/ip_pool.py` | session id -> address | `allocate`, `release`, `get_session_by_ip` | server |
| **Server**, `server/server.py` | sessions by id, by source address, by virtual address; allowed keys; per session the relayed connections | handshake, frames, proxy frames, WebSocket disconnect, janitor, `authorize_peer`, `stop` | transports, pool, cipher, remote hosts |
| **Client**, `client/client.py` | state, transport, handshake and its future, ciphers, gateway, kill switch | `connect`, `disconnect`, `_on_packet_received`, `_on_connection_lost`, `_reconnect`, speed test | transport, gateway, kill switch, GUI |
| **Proxy gateway**, `tunnel/proxy_tunnel.py` | the writer of each local connection | SOCKS and HTTP handlers, `feed_remote_data`, `close_connection`, `stop` | applications, client |
| **Transports**, `transport/` | sockets | send, receive, lost | client, server |
| **Kill switch, DNS shield**, `tunnel/` | `is_active`, rules of the firewall | `enable`, `disable` | client |
| **Ad filter**, `tunnel/adblock.py` | trie, Bloom filter, whitelist, cache of verdicts | `should_block`, rules and whitelist added and removed | gateway, GUI |
| **Profiles**, `crypto/profiles.py` | profiles, read from their file when the process starts | create, delete, usage, save, load | GUI, command line, `server.json` |
| **Process router**, `tunnel/process_router.py` | mode, selected applications, cached list of applications | `set_rules`, `apply_preset`, `should_route_process`, `scan_active_applications` | GUI |
| **Multi-hop**, `tunnel/multihop.py` | nodes and latencies | `find_optimal_hop_pair` | GUI |
| **GUI backend**, `gui/gui_app.py` | the active client, the embedded server, one `ClientConfig` for all clients | HTTP handlers | client, server, profiles, process router, `server.json` |
| **Command line**, `cli/main.py` | none | `profile-add` and others, each a process of its own | profiles, client, server |

### What is hard, and what correct means

* **Cipher.** The network repeats, reorders and damages; the window moves before the tag
  is verified. Correct: a nonce encrypts one
  payload, a payload is returned at most once, and the bitmap answers as a filter that
  remembers every number (edges of the shift included).
* **Handshake.** Datagrams are repeated and late, every exchange restarts the counters at
  0. Correct: the ends that think they are connected hold one key, a key is never used
  again from 0, a session exists only for an allowed client that asked.
* **Server sessions.** Four tables under three keys, changed in five places; disconnects
  that overtake handshakes; handshakes repeated from any address, which nothing
  recognises; two transports with one table of source addresses; `stop` suspended while
  handshakes go on. Correct: a session holds its lease until it is closed, an address that
  is leased leads to no other session, no lease leaks, everything is closed in the end.
* **Client.** `connect`, `disconnect` and `_reconnect` share all fields and stop at every
  await. Correct: CONNECTED means shielded and coherent; `disconnect` leaves a clean
  machine; the kill switch holds until the user says otherwise; no call hangs.
* **Relay.** Frames arrive while the server dials, closes come from four sides, UDP does
  not order. Correct: streams intact, nothing left behind, the application learns of the
  end.
* **Ad filter.** Three shortcuts (cache, Bloom filter, trie) must not change the answer
  that the rules give, at the cache's capacity too.
* **Desktop program.** Handlers overlap at two awaits (the embedded server starts, the old
  gateway closes), all clients share one configuration, and a task of `connect` outlives
  the handler that made it; three JSON files are written back whole by whoever read them;
  closing the window ends the process without a word. Correct: what is on the machine
  (port, firewall, system proxy) belongs to the active client, one embedded server runs,
  no device and no key is lost, and a list that is shown again follows the rules.

`PROJECT.json` lists every hazard with its line and the properties that cover it.

## 2. The modules

| Module | Models | Uses |
|---|---|---|
| `ReplayFilter` | abstract: a filter that remembers every number it let through | |
| `ShinCipher` | `ShinCipher.encrypt`/`decrypt`, `AntiReplayWindow`, threads, the network | implements `ReplayFilter` |
| `LeasePool` | abstract: sessions lease addresses, one each | |
| `IPPool` | `IPPool` | implements `LeasePool` |
| `Server` | the tables of `ShinVPNServer`, its tasks, janitor, `stop` | instantiates `IPPool`; its sessions implement `LeasePool` |
| `Handshake` | key exchange with symbolic keys, both ends, first payloads | |
| `Client` | `ShinVPNClient` over UDP or a WebSocket, with gateway, firewall and system proxy as far as it changes them | |
| `ProxyRelay` | gateway, proxy frames and the server's proxy handlers | |
| `AdPolicy` | abstract: the answer the rules demand | |
| `AdBlock` | `CyberShieldAdBlocker`: trie, Bloom filter, whitelist, cache | implements `AdPolicy` |
| `JsonFiles` | a JSON file: content, absent, or cut off in a write | |
| `Profiles` | `MultiDeviceProfileManager` in several processes, `server.json` | `JsonFiles` |
| `ProcessRouter` | `ProcessRoutingMatrix`: rules, their file, the list that is kept | `JsonFiles` |
| `GuiBackend` | `post_connect`, `post_disconnect`, the clients they make, the embedded server, the end of the process | `JsonFiles` |
| `Desktop` | the GUI process and a command line beside it | extends `GuiBackend`, instantiates `Profiles` and `ProcessRouter` |
| `*_proofs` | theorems about the module of that name | the module, `TLAPS` |
| `MC*` | constants for TLC (functions, symmetry) | the module |

How they read:

* **`ShinCipher`.** `encrypt` is four steps per thread: take the lock (`Acquire`), add 1
  to the counter (`Bump`), read it (`Choose`), encrypt and release (`Seal`). `wire` is the
  set of datagrams ever sent, so any of them may arrive any time, any number of times, or
  never; a damaged one shows any number and has a tag that fails. `Valid` and `NewBitmap`
  are the two halves of `check_and_update`; the bitmap is the set of the positions of its
  bits. `sealed`, `passed` and `delivered` are histories.
* **`IPPool`.** An address is its host number. `Lease` is what `allocate` returns: the
  lease it has, the preference when free, else what `Search` finds, the loop over
  `network.hosts()` as a recursive function of the host it is at.
* **`Server`.** One session id per connection attempt. A packet carries a session id and
  comes from an address, and any packet may come from any address: over UDP always, from
  an open WebSocket (`sockets`) also while `stop` waits. `tasks` is the queue of
  `_process_inbound_packet` tasks: a WebSocket disconnect is handled at once and so
  overtakes them. A `ClientSession` has a serial number, because a repeated handshake
  makes a new object for the same id. `GoStale` is the clock passing 60 seconds. `moved`
  is a history: the ids whose live session was replaced by a handshake from another
  address, after which the replaced one stays in `sessions_by_addr`.
* **`Handshake`.** A Diffie-Hellman result is the set of its two parties' keys, a chain
  of them the session key; only who owns a private key can form it. The network holds
  every message ever sent and can replace fields.
* **`Client`.** Each call of `connect` has a number, and a field that refers to an object
  holds the number of the call that made it. `pc` says at which await a call waits.
  `overlapped` is a history: some call began during another. A `StealthWSClient` is kept
  from the moment it begins to connect, so `link` may name a socket that is not there yet;
  `via` is the socket through which a HandshakeInit really went, and its answer comes back
  through that one. `disconnect` waits once more for a WebSocket (`closing`), before it
  switches the system proxy off, and stops whatever `proxy_tunnel` is by then.
* **`ProxyRelay`.** The n-th chunk of a connection is the number n. `up` and `down` are
  the frames under way; over UDP any of them may be taken or lost, over a WebSocket the
  first is taken.
* **`AdBlock`.** A domain is a model value with its parents (`Suffixes`) and the bits it
  sets in the Bloom filter; some share bits, so the filter has false positives.
* **`Profiles`.** The n-th keypair is n, the address 10.8.0.x is x, an id is the second and
  the count it is made of. `job` is what a process is about to write: between two steps of
  `create_profile` another process may write the same file, or this one may die and leave
  a file cut off (`Tear`). `promised`, `enrolled`, `sound` and `deleted` are histories.
* **`GuiBackend`.** Request r has a handler, at `at[r]`, and makes client r. The stages in
  `Running` have no await before the next one, so nothing else of the process runs
  (`LoopFree`). A client is what another object can meet of it: the port of its gateway,
  the rules of its kill switch, its task of `connect` (about to run, waiting for the
  answer, binding the gateway, stopping, sleeping before a reconnect); `Client` has the
  rest. The kill switch is on and the platform is Windows, where the GUI sets the system
  proxy and `netsh` removes rules by name. `overlapped` and `stranded` are histories of
  the two known ways in which the handlers lose track, so that `NothingOrphaned` can speak
  of everything else.
* **`ProcessRouter`.** Ages count ticks up to `_scan_ttl`, after which a list is made anew.
* **`Desktop`.** `GuiBackend` and `Profiles` write one `server.json`. The handlers of the
  profiles and of the split tunnel have no await: while one works nothing else of the GUI
  runs, but the command line does. `QuitGui` and `LaunchGui` end and start all parts of
  the process at once, and the files connect its lives.

Some definitions come in a second, wrong form, marked *Variant*: what a plausible slip in
that place would be. They are used by no specification; they show that the property named
beside them in `PROJECT.json` would notice.

## 3. What the runs show

| Run | Specification | Checks |
|---|---|---|
| `cipher` | `MCShinCipher` | `NonceNeverReused`, `DeliveredAtMostOnce`, `WindowMirrorsHistory`, refinement of `ReplayFilter` |
| `pool` | `IPPool` | `LookupIsUnique`, `RefusedOnlyWhenFull`, refinement of `LeasePool` |
| `server` | `MCServer` | `TablesAgree`, `AddrsAreLive`, `StopClosesEverything`, `VipIsStable`, refinement of `LeasePool`, `GoneIsForgotten` (liveness) |
| `handshake` | `MCHandshake` | `Agreement`, `SessionsAreAskedFor`, `NoncesStayFresh` |
| `client` | `Client` | `ConnectedIsShielded`, `ConnectedIsCoherent`, `CleanWithoutOverlap`, `ConnectSettles` (liveness) |
| `relay` | `ProxyRelay` | `StreamsIntactInOrder`, `NothingDisappears`, `EndedIsForgotten`, `EndIsTold` (liveness) |
| `adblock` | `MCAdBlock` | `CacheIsCurrent`, `BloomCoversRules`, refinement of `AdPolicy` |
| `desktop` | `MCDesktop` | `NothingOrphaned`, `OneEmbeddedServer`, `DevicesKept`, `PeersKept`, `ListingSettles` |

Every run also checks the type invariant of its module. Four runs are there for what TLC
refutes:

* **`handshake_keys`**, `KeysAgree`. A HandshakeInit that arrives twice makes the server
  derive new keys; the connected client keeps the first ones. From then on neither end
  reads the other, while the client says CONNECTED. What holds instead is `Agreement`:
  the client's keys are among those the server derived for that session.
* **`client_cleanup`**, `DisconnectCleansUp`. `disconnect` does not stop a `connect` that
  is suspended; that one goes on, starts its gateway, engages the kill switch and says
  CONNECTED. It holds when no call begins during another (`CleanWithoutOverlap`).
* **`client_killswitch`**, `KillSwitchHeld`. `docs/ARCHITECTURE.md` promises that the
  firewall stays closed while the client reconnects. `_reconnect` calls `connect`, whose
  new gateway finds the port taken by the old one; the exception handler disconnects and
  opens the firewall.
* **`desktop_daemon`**, `ServedWhenAnswered`. `post_connect` asks whether an embedded server
  was started, not whether it listens where the request goes: with one on the first port,
  or with a first start that failed because the port was taken, a request for a second
  local port starts nothing, is answered with success, and its client times out.

What the passing runs leave out is named in the property: `AddrsAreLive` exempts the
session ids in `moved`. For those the code does leave a replaced session behind: a
WebSocket disconnect at the old address then closes the session that lives elsewhere, and,
when that one was closed before and its virtual address leased again, takes the new
holder's entry out of `sessions_by_vip`. Nothing in the repository reads
`sessions_by_vip`, and nothing written promises that a client may change its address.
`TablesAgree`, `VipIsStable`, `StopClosesEverything`, `GoneIsForgotten` and the refinement
of `LeasePool` have no such exemption: the run repeats handshakes from both addresses.

The other exemptions: over UDP nothing orders or repeats the frames of a stream
(`StreamsIntactInOrder` speaks of the WebSocket); `DevicesKept` and
`PeersKept` speak of times in which one process at a time used the files and no write was
cut off (`sound`), and of profiles nobody deleted, because the code looks after none of
these; `NothingOrphaned` exempts what follows a client dropped while it starts
(`overlapped`), a disconnect that reads a changed `enable_system_proxy`, the end of the
process (`stranded`), and the gateway a reconnect leaks. `NothingOrphaned` does not say that the
active client keeps what it set up (a client it replaced, which times out later, switches the
system proxy off), and `DevicesKept` speaks of profiles: the fixed 10.8.0.2 with which the
GUI enters its own key, the address of the first profile too, is not among them.

### Bounds, and why they are enough

* `cipher`: a window of 3, numbers up to 5, two threads. The top can move by less than,
  exactly, and more than the window, and two numbers fall off its end; with 5 numbers each
  edge is met with every content of the bitmap. The theorems hold for any width.
* `pool`: five sessions and four usable hosts, so that somebody is refused in every state
  in which the pool is full; the server's address lies between the hosts, so that the
  search must step over it; a preference can be the server's, a foreign or a free address.
* `server`: three attempts, two source addresses, two addresses in the pool, so one
  attempt is refused while the others live; three HandshakeInits in all, each of any
  attempt and from either address, any number of other frames, one waiting task. Three are
  what it takes to replace a session from another address, close the new one, lease its
  virtual address to another client and then close the replaced one. That a stale close
  hits an id that registered once more takes five: the theorems cover it.
* `handshake`: two attempts of an allowed client and one of a stranger, three responses,
  so a session is answered twice and another one once; numbers up to 1.
* `client`: three calls of connect (the user's two, or the user's and a reconnect, and one
  more), two of disconnect, one broken socket; every pair of calls can overlap, and a
  third can start after both. Each transport on each platform, from the initial state.
* `relay`: one connection (the tables are indexed by the connection id and no handler
  relates two of them), three chunks each way: one buffered, one under way, one written.
* `adblock`: four names (a single label, a name below it, a sub-domain, a stranger), three
  Bloom bits with collisions, a cache of two, so that it evicts.
* `desktop`: three requests of any kind, so that two handlers overlap and a third comes
  after, or a profile is made while a connect waits; two profiles (two writers, two ids),
  two processes (the GUI and the command line, or one of them twice), one fault (a death
  in a write, a failed write), one broken transport. One local address, where a daemon of
  another process may listen: a remote one differs from it by not starting a server, which
  a second request does not do either. `desktop_daemon` has two local addresses and a
  remote one, and one GUI process. `TTL` is two ticks, the least that tells a list renewed
  by each question from one that runs out.

### Fairness

* `Server`: the event loop runs tasks, 60 seconds pass for a client that falls silent, the
  janitor runs every 15; while `stop` waits, the WebSocket server closes its connections (that is what
  `close()` does). Nothing is assumed of clients and network.
* `Client`: the event loop resumes a coroutine whose await is over, and timers fire
  (`wait_for` 6 s, `_reconnect` 2 s). Nothing is assumed of the user, the server's answer,
  the loss of a socket, the closing of a WebSocket, or the wait for the gateway to close
  (see the hazard on `wait_closed`).
* `ProxyRelay`: frames are delivered (used by the property only for a WebSocket), a dial
  ends within its 10 second timeout, a read on a closed socket returns, a handler whose
  connection was closed ends. Nothing is assumed of applications and remote hosts.

Deadlock is not checked where the system may stop: the bounds on calls, packets and
chunks end every behaviour of those runs.

## 4. What is proved

TLAPS checks the theorems of eight modules, for every value of the constants under the
named assumptions of the component's module. Every safety invariant and every action
property that a passing run checks is one of them; the run shows it on a small instance
and made sure of the inductive invariants before they were proved.

* **`ShinCipher_proofs`**: `TypeCorrect`, `NonceUniqueness`, `WindowIsExact`,
  `AtMostOnceDelivery`, `WindowRefinement`. Nonces (`SenderInv`): the lock is held exactly
  by the one thread inside `encrypt`, the number it is about to use is the counter, and no
  number above the counter, nor the one about to be used, has encrypted anything. Window
  (`WindowMirrorsHistory`, inductive as it stands): the top is the largest number let
  through and the bitmap its exact history within the window; a step that moves the top
  shifts both alike. At most once (`DeliveredInv`): what was delivered was let through,
  and what was let through is refused by the exact window.
* **`IPPool_proofs`**: `LeasesAreHosts`, `LookupUniqueness`, `RefusalMeansFull`,
  `PoolRefinement`. The invariant: leases are usable hosts and no two sessions share one.
  What the search finds takes two steps. `SearchEquation`: the recursive definition has a
  solution (the least free host from each place on), so the search obeys its equation.
  `SearchResult`: a host nearest to the end from which the search went wrong would have a
  successor from which it goes right, and its own round rules that out; so the search
  returns a free host, or none is free from where it began.
* **`Server_proofs`**: `TypeCorrect`, `TablesAlwaysAgree`, `AddrsAlwaysLive`,
  `VipStability`, `StopIsComplete`, `LeaseRefinement`. The invariant `Tables` is `TypeOK`,
  `TablesAgree`, `AddrsAreLive` and that no two attempts hold one address (`LeasesDiffer`).
  `StepEffect` says that every step leaves the tables alone, closes sessions that were
  found by id or by source address (`Closable`), or registers one. Closing takes the
  lease with the id, whichever session of the id it is, so a session never stays without
  its lease; it may take too much out of `byVip`, never leave too much for the holder of a
  lease. A registration overwrites what is under its virtual address, and the pool gives
  it one that nobody holds, or its own. Outside `moved` a session that is closed is the
  live one of its id (`ClosableSession`), so that nothing of it stays. The stable address
  and the refinement of `LeasePool` follow from `StepEffect` case by case. `StopInv` adds to
  the empty tables what keeps them empty: no waiting packet and no open WebSocket.
* **`AdBlock_proofs`**: `TypeCorrect`, `CacheAlwaysCurrent`, `BloomAlwaysCovers`,
  `PolicyRefinement`. Every change of rules or exemptions empties the cache, so what it
  holds is what a lookup finds; the Bloom filter holds the bits of every rule, so the fast
  path denies nothing; together every answer is the one of `AdPolicy`.

* **`Handshake_proofs`**: `TypeCorrect`, `AgreementHolds`, `SessionsAlwaysAskedFor`,
  `NonceFreshness`. Keys are terms, and `SecretsDiffer` and its like say that a term tells
  what it was made of: one attempt, one response. `Wire`: whatever the network did to a
  message, a tag that verifies is one an honest party made, for an attempt that was made
  and, in a response, for keys on record. So what a client holds was derived for it
  (`Held`), what the server holds was asked for (`Derived`, `Served`), and no two live
  ciphers share a key whose counter is behind what that key has encrypted (`Counted`):
  a repeated HandshakeInit draws a new response key, hence a new secret, and `connect` takes
  its ciphers once, so that a repeated response does not set a used one back.
* **`Client_proofs`**: `TypeCorrect`, `ShieldHolds`, `Coherence`, `CleanedUp`. The types
  need `Stages`, which tells from the await at which a call waits how far its gateway is.
  `ConnectedIsShielded` holds under any overlap: `Started` sets the state, the kill
  switch and the rules in one step, and whatever removes the rules has changed the state.
  The other two hold while no call begins during another; `InOrderInv` says then that one
  coroutine is in flight (`Alone`), that the kill switch in force is the one the client
  refers to (`Clean`), and that each field is the work of the call in flight (`Own`). That
  no reconnect begins after a disconnect rests on `StopIsHeeded`, which holds under any
  overlap.
* **`ProxyRelay_proofs`**: `TypeCorrect`, `StreamsHold`, `NothingLost`, `EndedForgotten`.
  Over a WebSocket `Line` says of each direction of a connection: the DATA frames under
  way carry the chunks after the last one the other end has, up to the last one sent,
  consecutive and in this order. `Protocol` keeps CONNECT before and CLOSE behind all of
  them, once each, so that no chunk arrives before its task is there or after it was told
  to end. `NothingDisappears` counts frames: `UnderwayIs` maps their positions on the wire
  one to one to the numbers of their chunks. `EndedForgotten`, for either transport,
  follows from the types and `Tables`: an entry of a table belongs to a task that dials
  or pipes.
* **`Desktop_proofs`**: `TypeCorrect`, `NothingStays`, `OneServer`, `PeersStay`,
  `DevicesStay`, `ListingHolds`, of the composed program, which makes them theorems about
  `GuiBackend`, `Profiles` and `ProcessRouter` as they run together. `Handlers`: one
  handler at a time runs between two awaits, and one that starts the server has set
  `is_running`, so a second one finds it set. `OnTrack`, unless `overlapped` or
  `stranded`: only the active client starts or has anything on the machine, nothing starts
  while a handler waits for a gateway to close, and nothing is left when the next client
  is made (`Tracked`); an open gateway is that of a client that is connected or
  connects again, rules in the firewall are those of the active client, and the system
  proxy points to its open gateway (`OnMachine`). `Peers`: whoever is about to write
  `server.json` read every key that was saved in it; for two writers in one process that
  is `LoopFree`, for two processes `sound`. `Promises`: in a copy no two profiles have one
  number and none a number above their count (`Numbered`), so the next one is free; a
  process knows all of the file, a profile is in the copy before the file and in the file
  before it is promised.

The assumptions are types and bounds of the constants (none ties a client to an address),
and these: key names of clients
and server differ, and a session id is not the mark of none (`NamesAssumption`); the mark of
no buffer is not a buffer; local and remote addresses are disjoint; the requests to the
split tunnel are records of a switch, a mode and a set of applications, what
`POST /api/processes/rules` accepts (`DesktopAssumption`).

Only model-checked: the three liveness properties (`GoneIsForgotten`, `ConnectSettles`,
`EndIsTold`), out of the prover's reach under fairness, and the four claims that do not hold.
No module declares a recursive operator; the one recursive function, `Search`, runs over an
interval, and what it finds is proved by the least place at which it could be wrong.

## 5. What is not modelled

* TUN adapters, routing tables, the commands of the kill switch: system calls whose
  results the code ignores. The client creates no TUN device.
* Byte layout of frames and obfuscation, the generation and encoding of keys: no state. A
  frame that does not parse is dropped, like one the network lost.
* The speed test, counters, telemetry and logs; the handlers of the GUI that only read.
* WebSockets under the GUI: `GuiBackend` has clients over UDP. Over a WebSocket a handler
  waits once more, in the same call of `disconnect`; `Client` has that await.
* Route selection: the GUI makes a pathfinder with built-in nodes for each question, so its
  answer is a constant; what would change it (`update_metrics`, `MultiHopTunnel`) is
  called by tests only.
* `init-profiles`, which overwrites `server.json` and `client.json`: after it nothing that was
  promised of the old files holds. The other commands call `connect` or `start` once.
* The keys the embedded server accepts: it reads them once, and its own client is always
  among them. A device made while it runs is refused until the next start.
* GUI front end, packaging.

## 6. Plan

Done: cipher, pool, server tables, handshake, client, relay, ad filter, and the desktop
program with profiles, split tunnel and GUI handlers, in that order, because each later
part relies on what the earlier one promises.

Every safety property of the passing runs is proved. Next:

1. What the modules assume of each other, as theorems: a step of the desktop program maps
   to a step or a stutter of `ProcessRouter`, and a client of `GuiBackend` moves as `Client`
   does where both model it.
2. The conditions of `OnTrack` and of `sound` made weaker where the code allows: which
   overlaps of handlers are harmless.
3. The claims that fail, under the condition that saves them: `KeysAgree` for sessions that
   were initiated once, `KillSwitchHeld` without a loss.

Runs stay at their present bounds.
