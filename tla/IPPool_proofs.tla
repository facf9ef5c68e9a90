------------------------------- MODULE IPPool_proofs -------------------------------
(***************************************************************************)
(* Proofs about IPPool, for every subnet and every set of sessions.        *)
(***************************************************************************)
EXTENDS IPPool, WellFoundedInduction, TLAPS

USE HostsAssumption, NoLeaseAssumption, NoPreferenceAssumption
    DEF Network, Hosts, Reserved

------------------------------------------------------------------------------------
(* What allocate returns *)

\* A set of naturals that is not empty has a least element: allocate's search over
\* network.hosts() ends at one.
LEMMA LeastElement ==
  ASSUME NEW T \in SUBSET Nat, T # {}
  PROVE  \E h \in T : \A g \in T : h <= g
<1>1. PICK h \in T : \A g \in T : ~(<<g, h>> \in OpToRel(<, Nat))
  BY NatLessThanWellFounded, WFMin
<1>2. ASSUME NEW g \in T PROVE h <= g
  <2>1. ~(g < h)
    BY <1>1 DEF OpToRel
  <2> QED
    BY <2>1
<1> QED
  BY <1>2

\* The places the search may be at: a host, or past the last one.
Places == FirstHost..(LastHost + 1)

\* The hosts that are neither reserved nor leased.
FreeHosts == (Hosts \ Reserved) \ Leased

\* One round of the search, when f is what the later rounds find.
Round(f) ==
    [host \in Places |->
        IF host > LastHost THEN NoLease
        ELSE IF host \notin Reserved \cup Leased THEN host
        ELSE f[host + 1]]

\* The loop over network.hosts() comes to an end, so the search obeys its own equation:
\* the least free host from each place on, or none, is a solution of it.
LEMMA SearchEquation == Search = Round(Search)
<1> DEFINE From(host) == {g \in FreeHosts : host <= g}
           Least(host) == CHOOSE h \in From(host) : \A g \in From(host) : h <= g
           found == [host \in Places |-> IF From(host) = {} THEN NoLease ELSE Least(host)]
<1>1. ASSUME NEW host \in Places, From(host) # {}
      PROVE  Least(host) \in From(host) /\ \A g \in From(host) : Least(host) <= g
  <2>1. From(host) \in SUBSET Nat
    BY DEF FreeHosts
  <2>2. \E h \in From(host) : \A g \in From(host) : h <= g
    BY <1>1, <2>1, LeastElement
  <2> QED
    BY <2>2
<1>2. ASSUME NEW host \in Places PROVE found[host] = Round(found)[host]
  <2>1. CASE host > LastHost
    <3>1. From(host) = {}
      BY <2>1 DEF FreeHosts, Places
    <3>2. found[host] = NoLease
      BY <3>1
    <3> QED
      BY <2>1, <3>2 DEF Round
  <2>2. CASE host <= LastHost /\ host \notin Reserved \cup Leased
    <3>1. host \in From(host)
      BY <2>2 DEF FreeHosts, Places
    <3>2. \A g \in From(host) : g \in Int
      BY DEF FreeHosts
    <3>3. Least(host) = host
      <4>1. Least(host) \in From(host) /\ Least(host) <= host
        BY <1>1, <3>1
      <4>2. host <= Least(host) /\ Least(host) \in Int /\ host \in Int
        BY <3>2, <4>1 DEF Places
      <4> QED
        BY <4>1, <4>2
    <3>4. found[host] = host
      BY <3>1, <3>3
    <3> HIDE DEF found
    <3>5. Round(found)[host] = host
      BY <2>2 DEF Round, Places
    <3> QED
      BY <3>4, <3>5
  <2>3. CASE host <= LastHost /\ host \in Reserved \cup Leased
    <3>1. host + 1 \in Places
      BY <2>3 DEF Places
    <3>2. host \notin FreeHosts
      BY <2>3 DEF FreeHosts
    <3>3. From(host) = From(host + 1)
      BY <3>2 DEF FreeHosts, Places
    <3>4. Least(host) = Least(host + 1)
      BY <3>3
    <3> HIDE DEF From, Least
    <3>5. found[host] = found[host + 1]
      BY <3>1, <3>3, <3>4
    <3> HIDE DEF found
    <3>6. Round(found)[host] = found[host + 1]
      BY <2>3 DEF Round, Places
    <3> QED
      BY <3>5, <3>6
  <2> QED
    BY <2>1, <2>2, <2>3 DEF Places
<1>3. found = Round(found)
  BY <1>2 DEF Round
<1>4. \E f : f = Round(f)
  BY <1>3
<1>5. Search = CHOOSE f : f = Round(f)
  BY DEF Search, Round, Places
<1> QED
  BY <1>4, <1>5

\* From wherever it starts, the search finds a free host, or raises and no host from there
\* on is free.
LEMMA SearchResult ==
  ASSUME NEW start \in Places
  PROVE  \/ Search[start] \in FreeHosts
         \/ Search[start] = NoLease /\ \A g \in FreeHosts : g < start
<1> DEFINE Right(host) == \/ Search[host] \in FreeHosts
                          \/ Search[host] = NoLease /\ \A g \in FreeHosts : g < host
           wrong == {n \in Nat : LastHost + 1 - n \in Places /\ ~Right(LastHost + 1 - n)}
<1>1. ASSUME NEW host \in Places
      PROVE  Search[host] = IF host > LastHost THEN NoLease
                            ELSE IF host \notin Reserved \cup Leased THEN host
                            ELSE Search[host + 1]
  BY SearchEquation DEF Round
<1>2. wrong = {}
  <2> SUFFICES ASSUME wrong # {} PROVE FALSE
    OBVIOUS
  <2>1. PICK n \in wrong : \A m \in wrong : n <= m
    BY LeastElement
  <2> DEFINE host == LastHost + 1 - n
  <2>2. n \in Nat /\ host \in Places /\ ~Right(host)
    BY <2>1
  <2>3. CASE n = 0
    <3>1. host > LastHost
      BY <2>2, <2>3
    <3>2. \A g \in FreeHosts : g < host
      BY <3>1, <2>3 DEF FreeHosts
    <3> QED
      BY <1>1, <2>2, <3>1, <3>2
  <2>4. CASE n # 0 /\ host \notin Reserved \cup Leased
    <3>1. host <= LastHost /\ ~(host > LastHost)
      BY <2>2, <2>4
    <3>2. Search[host] = host
      BY <1>1, <2>2, <2>4, <3>1
    <3>3. host \in FreeHosts
      BY <2>2, <2>4, <3>1 DEF FreeHosts, Places
    <3> QED
      BY <2>2, <3>2, <3>3
  <2>5. CASE n # 0 /\ host \in Reserved \cup Leased
    <3>1. host <= LastHost /\ ~(host > LastHost) /\ host + 1 \in Places
      BY <2>2, <2>5 DEF Places
    <3>2. Search[host] = Search[host + 1]
      BY <1>1, <2>2, <2>5, <3>1
    <3>3. n - 1 \in Nat /\ LastHost + 1 - (n - 1) = host + 1 /\ ~(n <= n - 1)
      BY <2>2, <2>5
    <3>4. n - 1 \notin wrong
      BY <2>1, <3>3
    <3>5. Right(host + 1)
      BY <3>1, <3>3, <3>4
    <3>6. host \notin FreeHosts
      BY <2>5 DEF FreeHosts
    <3>7. (\A g \in FreeHosts : g < host + 1) => \A g \in FreeHosts : g < host
      BY <2>2, <3>6 DEF FreeHosts, Places
    <3> QED
      BY <2>2, <3>2, <3>5, <3>7
  <2> QED
    BY <2>3, <2>4, <2>5
<1>3. LastHost + 1 - start \in Nat /\ LastHost + 1 - (LastHost + 1 - start) = start
  BY DEF Places
<1> QED
  BY <1>2, <1>3

\* allocate returns the address the session holds, or raises and no host is free, or
\* returns an address nobody holds and nobody may reserve.
LEMMA LeaseResult ==
  ASSUME NEW s \in Sessions, NEW preferred \in Preferences
  PROVE  \/ /\ allocated[s] # NoLease
            /\ Lease(s, preferred) = allocated[s]
         \/ /\ allocated[s] = NoLease
            /\ Lease(s, preferred) = NoLease
            /\ FreeHosts = {}
         \/ /\ allocated[s] = NoLease
            /\ Lease(s, preferred) \in FreeHosts
<1>1. CASE allocated[s] # NoLease
  BY <1>1 DEF Lease
<1>2. CASE allocated[s] = NoLease /\ preferred \in (Network \ Leased) \ Reserved
  BY <1>2 DEF Lease, FreeHosts
<1>3. CASE allocated[s] = NoLease /\ preferred \notin (Network \ Leased) \ Reserved
  <2>1. Lease(s, preferred) = Search[FirstHost]
    BY <1>3 DEF Lease
  <2>2. FirstHost \in Places
    BY DEF Places
  <2>3. (\A g \in FreeHosts : g < FirstHost) => FreeHosts = {}
    BY DEF FreeHosts
  <2> QED
    BY <1>3, <2>1, <2>2, <2>3, SearchResult
<1> QED
  BY <1>1, <1>2, <1>3

------------------------------------------------------------------------------------
(* The inductive invariant *)

\* No two sessions hold the same address.
LeasesDiffer ==
    \A s, t \in Sessions : allocated[s] # NoLease /\ allocated[s] = allocated[t] => s = t

PoolInv == TypeOK /\ LeasesDiffer

\* A step of the pool keeps addresses typed and apart.
LEMMA PoolStep == PoolInv /\ [Next]_allocated => PoolInv'
<1> SUFFICES ASSUME PoolInv, [Next]_allocated PROVE PoolInv'
  OBVIOUS
<1> USE DEF PoolInv
<1>1. ASSUME NEW s \in Sessions, NEW preferred \in Preferences, Allocate(s, preferred)
      PROVE  PoolInv'
  <2>1. CASE Lease(s, preferred) = allocated[s]
    <3>1. allocated' = allocated
      BY <1>1, <2>1 DEF Allocate, TypeOK
    <3> QED
      BY <3>1 DEF TypeOK, LeasesDiffer
  <2>2. CASE Lease(s, preferred) \in FreeHosts
    <3>1. Lease(s, preferred) \in Hosts \ Reserved
      BY <2>2 DEF FreeHosts
    <3>2. \A t \in Sessions : allocated[t] # Lease(s, preferred)
      BY <2>2 DEF FreeHosts, Leased
    <3>3. allocated' = [allocated EXCEPT ![s] = Lease(s, preferred)]
      BY <1>1 DEF Allocate
    <3> QED
      BY <3>1, <3>2, <3>3 DEF TypeOK, LeasesDiffer
  <2> QED
    BY <2>1, <2>2, LeaseResult
<1>2. ASSUME NEW s \in Sessions, Release({s}) PROVE PoolInv'
  BY <1>2 DEF Release, TypeOK, LeasesDiffer
<1>3. CASE UNCHANGED allocated
  BY <1>3 DEF TypeOK, LeasesDiffer
<1> QED
  BY <1>1, <1>2, <1>3 DEF Next

\* Addresses are typed and apart in every reachable state.
LEMMA PoolInvariant == Spec => []PoolInv
<1>1. Init => PoolInv
  BY DEF Init, PoolInv, TypeOK, LeasesDiffer
<1> QED
  BY <1>1, PoolStep, PTL DEF Spec

\* The pool never hands out a reserved address or one outside the subnet.
THEOREM LeasesAreHosts == Spec => []TypeOK
BY PoolInvariant, PTL DEF PoolInv

\* An address identifies its session, whatever the subnet and however many sessions.
THEOREM LookupUniqueness == Spec => []LookupIsUnique
<1>1. PoolInv => LookupIsUnique
  BY DEF PoolInv, LeasesDiffer, LookupIsUnique, SessionsByIp
<1> QED
  BY <1>1, PoolInvariant, PTL

\* allocate raises only when other sessions hold every address it may hand out, whatever
\* was leased and released before and whatever the caller asked for.
THEOREM RefusalMeansFull == Spec => []RefusedOnlyWhenFull
<1>1. PoolInv => RefusedOnlyWhenFull
  <2> SUFFICES ASSUME PoolInv, NEW s \in Sessions, NEW preferred \in Preferences,
                      Lease(s, preferred) = NoLease, NEW h \in Hosts \ Reserved
               PROVE  \E t \in Sessions \ {s} : allocated[t] = h
    BY DEF RefusedOnlyWhenFull
  <2>1. NoLease \notin FreeHosts /\ h # NoLease
    BY DEF FreeHosts
  <2>2. allocated[s] = NoLease /\ FreeHosts = {}
    BY <2>1, LeaseResult
  <2>3. h \in Leased
    BY <2>2 DEF FreeHosts
  <2>4. PICK t \in Sessions : allocated[t] = h
    BY <2>3 DEF Leased
  <2> QED
    BY <2>1, <2>2, <2>4
<1> QED
  BY <1>1, PoolInvariant, PTL

------------------------------------------------------------------------------------
(* The pool implements LeasePool *)


\* An address is held by the session it is allocated to.
LEMMA HolderIsAllocatee ==
  ASSUME PoolInv, NEW v \in Hosts
  PROVE  /\ HolderOf(v) \in Sessions \cup {NoLease}
         /\ \A s \in Sessions : HolderOf(v) = s <=> allocated[s] = v
<1>1. CASE SessionsByIp(v) = {}
  BY <1>1 DEF HolderOf, SessionsByIp
<1>2. CASE SessionsByIp(v) # {}
  <2>1. PICK t \in SessionsByIp(v) : HolderOf(v) = t
    BY <1>2 DEF HolderOf
  <2>2. t \in Sessions /\ allocated[t] = v
    BY <2>1 DEF SessionsByIp
  <2> QED
    BY <2>1, <2>2 DEF PoolInv, LeasesDiffer
<1> QED
  BY <1>1, <1>2

\* The same one step later.
LEMMA HolderIsAllocateeNext ==
  ASSUME PoolInv', NEW v \in Hosts
  PROVE  /\ HolderOf(v)' \in Sessions \cup {NoLease}
         /\ \A s \in Sessions : HolderOf(v)' = s <=> allocated'[s] = v
<1>1. CASE SessionsByIp(v)' = {}
  BY <1>1 DEF HolderOf, SessionsByIp
<1>2. CASE SessionsByIp(v)' # {}
  <2>1. PICK t \in SessionsByIp(v)' : HolderOf(v)' = t
    BY <1>2 DEF HolderOf
  <2>2. t \in Sessions /\ allocated'[t] = v
    BY <2>1 DEF SessionsByIp
  <2> QED
    BY <2>1, <2>2 DEF PoolInv, LeasesDiffer
<1> QED
  BY <1>1, <1>2

\* Every call of allocate and release is a grant, a return or nothing to the holders.
THEOREM PoolRefinement == Spec => PoolImplementsLeases
<1> DEFINE holder == [v \in Hosts |-> HolderOf(v)]
<1>1. Init => Leases!Init
  BY DEF Init, Leases!Init, HolderOf, SessionsByIp
<1>2. PoolInv /\ PoolInv' /\ [Next]_allocated => [Leases!Next]_holder
  <2> SUFFICES ASSUME PoolInv, PoolInv', [Next]_allocated
               PROVE  [Leases!Next]_holder
    OBVIOUS
  <2>1. ASSUME NEW s \in Sessions, NEW preferred \in Preferences, Allocate(s, preferred)
        PROVE  Leases!Next \/ allocated' = allocated
    <3>1. CASE Lease(s, preferred) = allocated[s]
      BY <2>1, <3>1 DEF Allocate, PoolInv, TypeOK
    <3>2. CASE allocated[s] = NoLease /\ Lease(s, preferred) \in FreeHosts
      <4>0. PICK v \in Hosts : v = Lease(s, preferred)
        BY <3>2 DEF FreeHosts
      <4>1. \A t \in Sessions : allocated[t] # v
        BY <3>2, <4>0 DEF FreeHosts, Leased
      <4>2. allocated' = [allocated EXCEPT ![s] = v]
        BY <2>1, <4>0 DEF Allocate
      <4>3. \A u \in Hosts : HolderOf(u) # s
        BY <3>2, HolderIsAllocatee
      <4>4. HolderOf(v) = NoLease
        BY <4>1, HolderIsAllocatee
      <4>5. HolderOf(v)' = s
        <5>1. allocated'[s] = v
          BY <4>2 DEF PoolInv, TypeOK
        <5> QED
          BY <5>1, HolderIsAllocateeNext
      <4>6. ASSUME NEW u \in Hosts, u # v PROVE HolderOf(u)' = HolderOf(u)
        <5>1. \A t \in Sessions : allocated'[t] = u <=> allocated[t] = u
          BY <3>2, <4>2, <4>6 DEF PoolInv, TypeOK
        <5> QED
          BY <5>1, HolderIsAllocatee, HolderIsAllocateeNext
      <4>7. holder' = [holder EXCEPT ![v] = s]
        BY <4>5, <4>6
      <4>8. Leases!Grant(s, v)
        BY <4>1, <4>3, <4>4, <4>7 DEF Leases!Grant, Leases!HoldsNone
      <4> QED
        BY <4>8 DEF Leases!Next
    <3> QED
      BY <3>1, <3>2, LeaseResult DEF PoolInv
  <2>2. ASSUME NEW s \in Sessions, Release({s}) PROVE Leases!Next
    <3>1. ASSUME NEW v \in Hosts
          PROVE  HolderOf(v)' = IF HolderOf(v) \in {s} THEN NoLease ELSE HolderOf(v)
      <4>1. \A t \in Sessions : allocated'[t] = v <=> t # s /\ allocated[t] = v
        BY <2>2 DEF Release
      <4> QED
        BY <4>1, HolderIsAllocatee, HolderIsAllocateeNext
    <3>2. Leases!Return({s})
      BY <3>1 DEF Leases!Return
    <3> QED
      BY <3>2 DEF Leases!Next
  <2>3. CASE allocated' = allocated
    BY <2>3 DEF HolderOf, SessionsByIp
  <2> QED
    BY <2>1, <2>2, <2>3 DEF Next
<1> QED
  BY <1>1, <1>2, PoolInvariant, PTL
  DEF Spec, PoolImplementsLeases, Leases!Spec
====================================================================================
