---------------------------------- MODULE IPPool ----------------------------------
(***************************************************************************)
(* The pool of virtual addresses of a server, src/shinvpn/server/ip_pool.py. *)
(* Addresses are integers: the subnet is FirstHost-1 .. LastHost+1, its two *)
(* ends are the network and broadcast addresses.  A session without an     *)
(* entry in _allocated is mapped to NoLease.                               *)
(***************************************************************************)
EXTENDS Integers

CONSTANTS
    Sessions,       \* session ids
    FirstHost,      \* the first and the last address of network.hosts()
    LastHost,
    ServerHost,     \* server_ip
    NoLease,        \* the session has no entry; a call that raised
    NoPreference    \* preferred_ip is None or is not an address

ASSUME HostsAssumption ==
    /\ FirstHost \in Nat /\ LastHost \in Nat
    /\ 0 < FirstHost /\ FirstHost <= LastHost
    /\ ServerHost \in FirstHost..LastHost
ASSUME NoLeaseAssumption == NoLease \notin Int /\ NoLease \notin Sessions
ASSUME NoPreferenceAssumption == NoPreference \notin Int

VARIABLE allocated  \* _allocated

\* The addresses of the subnet.
Network == (FirstHost - 1)..(LastHost + 1)
Hosts == FirstHost..LastHost
Reserved == {FirstHost - 1, LastHost + 1, ServerHost}

\* What a caller may ask for: an address of the subnet or none.  An address of another
\* subnet is treated as no preference.
Preferences == Network \cup {NoPreference}

Leased == {allocated[s] : s \in Sessions} \ {NoLease}

\* The search of allocate from a host on: the first host that is neither reserved nor
\* leased; NoLease when the hosts are used up.
Search[host \in FirstHost..(LastHost + 1)] ==
    IF host > LastHost THEN NoLease
    ELSE IF host \notin Reserved \cup Leased THEN host
    ELSE Search[host + 1]

----------------------------------------------------------------------------------
(* Variants of the code that the properties must reject *)

\* A session that already has an address is given another one.
LeaseAgain(s, preferred) ==
    IF preferred \in (Network \ Leased) \ Reserved THEN preferred
    ELSE Search[FirstHost]

\* Only the search skips the reserved addresses, not the preference.
LeaseReserved(s, preferred) ==
    IF allocated[s] # NoLease THEN allocated[s]
    ELSE IF preferred \in Network \ Leased THEN preferred
    ELSE Search[FirstHost]

\* Nobody asks whether the preferred address is taken.
LeaseTaken(s, preferred) ==
    IF allocated[s] # NoLease THEN allocated[s]
    ELSE IF preferred \in Network \ Reserved THEN preferred
    ELSE Search[FirstHost]

\* The search starts after the last address that was handed out, and never turns back.
LeaseOnwards(s, preferred) ==
    IF allocated[s] # NoLease THEN allocated[s]
    ELSE IF preferred \in (Network \ Leased) \ Reserved THEN preferred
    ELSE LET last == CHOOSE h \in Leased \cup {FirstHost - 1} :
                        \A g \in Leased \cup {FirstHost - 1} : g <= h
         IN  Search[last + 1]

----------------------------------------------------------------------------------
(* The operations *)

\* The address allocate(s, preferred) returns; NoLease when it raises.
Lease(s, preferred) ==
    IF allocated[s] # NoLease THEN allocated[s]
    ELSE IF preferred \in (Network \ Leased) \ Reserved THEN preferred
    ELSE Search[FirstHost]

\* allocate.  A call that raises leaves the pool alone.
Allocate(s, preferred) == allocated' = [allocated EXCEPT ![s] = Lease(s, preferred)]

\* release, for every session of a set: _close_session calls it for each session it closes.
Release(ss) == allocated' = [s \in Sessions |-> IF s \in ss THEN NoLease ELSE allocated[s]]

\* get_session_by_ip returns the first entry of the dictionary with the address: one of these.
SessionsByIp(ip) == {s \in Sessions : allocated[s] = ip}

Init == allocated = [s \in Sessions |-> NoLease]

Next ==
    \E s \in Sessions :
        \/ \E preferred \in Preferences : Allocate(s, preferred)
        \/ Release({s})

Spec == Init /\ [][Next]_allocated

----------------------------------------------------------------------------------
(* Properties *)

TypeOK == allocated \in [Sessions -> (Hosts \ Reserved) \cup {NoLease}]

\* An address identifies the session it is leased to, so get_session_by_ip's "first entry
\* that matches" is the only one.
LookupIsUnique ==
    \A s \in Sessions : allocated[s] # NoLease => SessionsByIp(allocated[s]) = {s}

\* allocate raises only when every address it may hand out is held by another session,
\* whatever address the caller asked for and in whatever order addresses came back: what
\* was released is found again, and a preference that cannot be met is no reason to refuse.
RefusedOnlyWhenFull ==
    \A s \in Sessions, preferred \in Preferences :
        Lease(s, preferred) = NoLease =>
            \A h \in Hosts \ Reserved : \E t \in Sessions \ {s} : allocated[t] = h

HolderOf(ip) ==
    IF SessionsByIp(ip) = {} THEN NoLease ELSE CHOOSE s \in SessionsByIp(ip) : TRUE

\* Every call of allocate and release is a grant, a return or nothing to the holders.
Leases == INSTANCE LeasePool WITH
    Holders <- Sessions, Addresses <- Hosts, Free <- NoLease,
    holder <- [v \in Hosts |-> HolderOf(v)]
PoolImplementsLeases == Leases!Spec
==================================================================================
