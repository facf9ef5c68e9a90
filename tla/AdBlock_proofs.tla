------------------------------ MODULE AdBlock_proofs ------------------------------
(***************************************************************************)
(* The filter answers as its rules say, for all domains, rules, bits and   *)
(* cache sizes.  The invariant has three parts: the types, the cache,      *)
(* whose entries are what a lookup would find now, and the Bloom filter,   *)
(* which knows every rule.                                                 *)
(***************************************************************************)
EXTENDS AdBlock, TLAPS

FilterInv == TypeOK /\ CacheIsCurrent /\ BloomCoversRules

\* The parts of CacheIsCurrent.
CurrentVerdicts(c) == \A i \in 1..Len(c) : c[i].blocked = Lookup(c[i].domain)
DistinctNames(c) == \A i, j \in 1..Len(c) : c[i].domain = c[j].domain => i = j

----------------------------------------------------------------------------------
(* The cache *)

\* move_to_end keeps every entry, once.
LEMMA ToEndKeeps ==
    ASSUME TypeOK, CacheIsCurrent, NEW i \in 1..Len(cache)
    PROVE  /\ ToEnd(i) \in Seq(Entry)
           /\ Len(ToEnd(i)) = Len(cache)
           /\ CurrentVerdicts(ToEnd(i))
           /\ DistinctNames(ToEnd(i))
<1> DEFINE n == Len(cache)
           from(j) == IF j < i THEN j ELSE IF j < n THEN j + 1 ELSE i
<1>1. cache \in Seq(Entry) /\ n \in Nat
  BY DEF TypeOK
<1>2. \A j \in 1..n : cache[j] \in Entry
  BY <1>1
<1>3. \A j \in 1..n : from(j) \in 1..n
  BY <1>1
<1>4. ToEnd(i) = [j \in 1..n |-> cache[from(j)]]
  BY <1>1 DEF ToEnd
<1>5. ToEnd(i) \in Seq(Entry) /\ Len(ToEnd(i)) = n
  <2>1. ToEnd(i) \in [1..n -> Entry]
    BY <1>2, <1>3, <1>4
  <2> QED
    BY <2>1, <1>1
<1>6. \A j \in 1..n : ToEnd(i)[j] = cache[from(j)]
  BY <1>4
<1>7. CurrentVerdicts(ToEnd(i))
  BY <1>3, <1>5, <1>6 DEF CurrentVerdicts, CacheIsCurrent
<1>8. \A j, k \in 1..n : from(j) = from(k) => j = k
  BY <1>1
<1>9. DistinctNames(ToEnd(i))
  <2> SUFFICES ASSUME NEW j \in 1..n, NEW k \in 1..n,
                      ToEnd(i)[j].domain = ToEnd(i)[k].domain
               PROVE  j = k
    BY <1>5 DEF DistinctNames
  <2>1. cache[from(j)].domain = cache[from(k)].domain
    BY <1>6
  <2>2. from(j) = from(k)
    BY <2>1, <1>3 DEF CacheIsCurrent
  <2> QED
    BY <2>2, <1>8
<1> QED
  BY <1>5, <1>7, <1>9

\* _cache_result keeps the cache within its capacity and its names distinct.
LEMMA CacheResultKeeps ==
    ASSUME TypeOK, CacheIsCurrent, NEW d \in Domains, Cached(d) = {},
           CacheResult([domain |-> d, blocked |-> Lookup(d)])
    PROVE  /\ cache' \in Seq(Entry)
           /\ Len(cache') <= Capacity
           /\ CurrentVerdicts(cache')
           /\ DistinctNames(cache')
<1> DEFINE entry == [domain |-> d, blocked |-> Lookup(d)]
           kept == IF Len(cache) >= Capacity THEN Tail(cache) ELSE cache
           shift == IF Len(cache) >= Capacity THEN 1 ELSE 0
<1>1. cache \in Seq(Entry) /\ Len(cache) \in Nat /\ Len(cache) <= Capacity
  BY DEF TypeOK
<1>2. Lookup(d) \in BOOLEAN
  BY DEF Lookup, Candidate, Match
<1>3. entry \in Entry
  BY <1>2 DEF Entry
<1>4. Len(cache) >= Capacity => cache # <<>>
  BY <1>1, CapacityAssumption
<1>5. /\ kept \in Seq(Entry)
      /\ Len(kept) = Len(cache) - shift
      /\ \A j \in 1..Len(kept) : kept[j] = cache[j + shift] /\ j + shift \in 1..Len(cache)
  BY <1>1, <1>4
<1>6. cache' = Append(kept, entry)
  BY DEF CacheResult
<1>7. /\ cache' \in Seq(Entry)
      /\ Len(cache') = Len(kept) + 1
      /\ cache'[Len(kept) + 1] = entry
      /\ \A j \in 1..Len(kept) : cache'[j] = kept[j]
  BY <1>3, <1>5, <1>6
<1>8. Len(kept) \in Nat /\ Len(kept) < Capacity
  BY <1>1, <1>5, CapacityAssumption
<1>9. \A j \in 1..Len(kept) : cache'[j].domain # d
  BY <1>5, <1>7 DEF Cached
<1>10. CurrentVerdicts(cache')
  <2> SUFFICES ASSUME NEW j \in 1..Len(cache')
               PROVE  cache'[j].blocked = Lookup(cache'[j].domain)
    BY DEF CurrentVerdicts
  <2>1. CASE j = Len(kept) + 1
    BY <2>1, <1>7
  <2>2. CASE j \in 1..Len(kept)
    <3>1. cache'[j] = cache[j + shift] /\ j + shift \in 1..Len(cache)
      BY <2>2, <1>5, <1>7
    <3> QED
      BY <3>1 DEF CacheIsCurrent
  <2> QED
    BY <2>1, <2>2, <1>7, <1>8
<1>11. DistinctNames(cache')
  <2> SUFFICES ASSUME NEW j \in 1..Len(cache'), NEW k \in 1..Len(cache'),
                      cache'[j].domain = cache'[k].domain
               PROVE  j = k
    BY DEF DistinctNames
  <2>1. CASE j \in 1..Len(kept) /\ k \in 1..Len(kept)
    <3>1. cache[j + shift].domain = cache[k + shift].domain
      BY <2>1, <1>5, <1>7
    <3>2. j + shift = k + shift
      BY <2>1, <3>1, <1>5 DEF CacheIsCurrent
    <3> QED
      BY <3>2, <1>8
  <2>2. CASE j = Len(kept) + 1 \/ k = Len(kept) + 1
    BY <2>2, <1>7, <1>8, <1>9
  <2> QED
    BY <2>1, <2>2, <1>7, <1>8
<1>12. Len(cache') <= Capacity
  BY <1>7, <1>8, CapacityAssumption
<1> QED
  BY <1>7, <1>10, <1>11, <1>12

----------------------------------------------------------------------------------
(* The invariant *)

\* A filter without rules satisfies the invariant.
LEMMA FilterInit == Init => FilterInv
<1> SUFFICES ASSUME Init PROVE FilterInv
  OBVIOUS
<1> USE DEF Init
<1>1. BitsOfAll(UNION {Suffixes[d] : d \in CoreRules}) \subseteq Bits
  BY BitsAssumption, SuffixesAssumption, CoreAssumption DEF BitsOfAll
<1>2. TypeOK
  BY <1>1, CoreAssumption, CapacityAssumption DEF TypeOK
<1>3. CacheIsCurrent
  BY DEF CacheIsCurrent
<1>4. BloomCoversRules
  BY SuffixesAssumption, CoreAssumption DEF BloomCoversRules, MayContain, BitsOfAll
<1> QED
  BY <1>2, <1>3, <1>4 DEF FilterInv

\* A change of the rules leaves an empty cache and tells the Bloom filter.
LEMMA RulesStep ==
    ASSUME FilterInv, NEW ds \in SUBSET Domains,
           AddRules(ds) \/ AddExempt(ds) \/ \E d \in Domains : RemoveExempt(d)
    PROVE  FilterInv'
<1>1. cache' = <<>> /\ enabled' = enabled /\ answer' = answer
  BY DEF AddRules, AddExempt, RemoveExempt
<1>2. /\ rules' \subseteq Domains /\ exempt' \subseteq Domains /\ bloom' \subseteq Bits
      /\ \A r \in rules' : BitsOf[r] \subseteq bloom'
  <2>1. CASE AddRules(ds)
    <3>1. BitsOfAll(ds \ exempt) \subseteq Bits
      BY BitsAssumption DEF BitsOfAll
    <3>2. \A r \in ds \ exempt : BitsOf[r] \subseteq BitsOfAll(ds \ exempt)
      BY DEF BitsOfAll
    <3>3. /\ rules' = rules \cup (ds \ exempt) /\ exempt' = exempt
          /\ bloom' = bloom \cup BitsOfAll(ds \ exempt)
      BY <2>1 DEF AddRules
    <3> QED
      BY <3>1, <3>2, <3>3 DEF FilterInv, TypeOK, BloomCoversRules, MayContain
  <2>2. CASE AddExempt(ds) \/ \E d \in Domains : RemoveExempt(d)
    <3>1. rules' = rules /\ bloom' = bloom /\ exempt' \subseteq exempt \cup Domains
      BY <2>2 DEF AddExempt, RemoveExempt
    <3> QED
      BY <3>1 DEF FilterInv, TypeOK, BloomCoversRules, MayContain
  <2> QED
    BY <2>1, <2>2
<1>3. TypeOK'
  BY <1>1, <1>2, CapacityAssumption DEF FilterInv, TypeOK
<1>4. CacheIsCurrent'
  BY <1>1 DEF CacheIsCurrent
<1>5. BloomCoversRules'
  BY <1>2 DEF BloomCoversRules, MayContain
<1> QED
  BY <1>3, <1>4, <1>5 DEF FilterInv

\* A step that leaves rules and bits alone changes what no lookup would find.
LEMMA SameRules ==
    ASSUME rules' = rules, bloom' = bloom
    PROVE  /\ \A d \in Domains : Lookup(d)' = Lookup(d)
           /\ BloomCoversRules => BloomCoversRules'
BY DEF Lookup, Candidate, Match, MayContain, BloomCoversRules

\* The new cache is as good as the old one.
LEMMA CacheStep ==
    ASSUME FilterInv, rules' = rules, bloom' = bloom, exempt' = exempt, enabled' = enabled,
           answer' \in Domains \X BOOLEAN, cache' \in Seq(Entry), Len(cache') <= Capacity,
           CurrentVerdicts(cache'), DistinctNames(cache')
    PROVE  FilterInv'
<1>1. TypeOK'
  BY DEF FilterInv, TypeOK
<1>2. \A j \in 1..Len(cache') : cache'[j].domain \in Domains
  <2> SUFFICES ASSUME NEW j \in 1..Len(cache') PROVE cache'[j].domain \in Domains
    OBVIOUS
  <2>1. cache'[j] \in Entry
    OBVIOUS
  <2> QED
    BY <2>1 DEF Entry
<1>3. CacheIsCurrent'
  BY <1>2, SameRules DEF CacheIsCurrent, CurrentVerdicts, DistinctNames
<1>4. BloomCoversRules'
  BY SameRules DEF FilterInv
<1> QED
  BY <1>1, <1>3, <1>4 DEF FilterInv

\* Neither does the switch.
LEMMA SameCache ==
    ASSUME FilterInv, enabled' \in BOOLEAN, UNCHANGED <<rules, bloom, exempt, cache, answer>>
    PROVE  FilterInv'
<1>1. TypeOK'
  BY DEF FilterInv, TypeOK
<1>2. \A j \in 1..Len(cache) : cache[j].domain \in Domains
  <2> SUFFICES ASSUME NEW j \in 1..Len(cache) PROVE cache[j].domain \in Domains
    OBVIOUS
  <2>1. cache[j] \in Entry
    BY DEF FilterInv, TypeOK
  <2> QED
    BY <2>1 DEF Entry
<1>3. CacheIsCurrent'
  BY <1>2, SameRules DEF FilterInv, CacheIsCurrent
<1>4. BloomCoversRules'
  BY SameRules DEF FilterInv
<1> QED
  BY <1>1, <1>3, <1>4 DEF FilterInv

\* Every change of rules, exemptions and switch, and every question, keeps it.
LEMMA FilterStep == FilterInv /\ [Next]_vars => FilterInv'
<1> SUFFICES ASSUME FilterInv, [Next]_vars PROVE FilterInv'
  OBVIOUS
<1>1. ASSUME NEW ds \in SUBSET Domains, AddRules(ds) \/ AddExempt(ds) PROVE FilterInv'
  BY <1>1, RulesStep
<1>2. ASSUME NEW d \in Domains, RemoveExempt(d) PROVE FilterInv'
  BY <1>2, RulesStep, {} \in SUBSET Domains
<1>3. ASSUME NEW d \in Domains, Pass(d) PROVE FilterInv'
  <2>1. CurrentVerdicts(cache) /\ DistinctNames(cache)
    BY DEF FilterInv, CacheIsCurrent, CurrentVerdicts, DistinctNames
  <2> QED
    BY <1>3, <2>1, CacheStep DEF Pass, FilterInv, TypeOK
<1>4. ASSUME NEW d \in Domains, Hit(d) PROVE FilterInv'
  <2>1. PICK i \in Cached(d) : cache' = ToEnd(i) /\ answer' = <<d, cache[i].blocked>>
    BY <1>4 DEF Hit
  <2>2. i \in 1..Len(cache) /\ cache[i] \in Entry
    BY <2>1 DEF Cached, FilterInv, TypeOK
  <2>3. answer' \in Domains \X BOOLEAN
    BY <2>1, <2>2 DEF Entry
  <2>4. /\ cache' \in Seq(Entry) /\ Len(cache') <= Capacity
        /\ CurrentVerdicts(cache') /\ DistinctNames(cache')
    BY <2>1, <2>2, ToEndKeeps DEF FilterInv, TypeOK
  <2> QED
    BY <1>4, <2>3, <2>4, CacheStep DEF Hit
<1>5. ASSUME NEW d \in Domains, Miss(d) PROVE FilterInv'
  <2>1. Lookup(d) \in BOOLEAN
    BY DEF Lookup, Candidate, Match
  <2>2. answer' \in Domains \X BOOLEAN
    BY <1>5, <2>1 DEF Miss
  <2>3. /\ cache' \in Seq(Entry) /\ Len(cache') <= Capacity
        /\ CurrentVerdicts(cache') /\ DistinctNames(cache')
    BY <1>5, CacheResultKeeps DEF Miss, FilterInv
  <2> QED
    BY <1>5, <2>2, <2>3, CacheStep DEF Miss
<1>6. CASE Toggle
  <2>1. enabled' \in BOOLEAN /\ UNCHANGED <<rules, bloom, exempt, cache, answer>>
    BY <1>6 DEF Toggle
  <2> QED
    BY <2>1, SameCache
<1>7. CASE UNCHANGED vars
  <2>1. enabled' \in BOOLEAN /\ UNCHANGED <<rules, bloom, exempt, cache, answer>>
    BY <1>7 DEF vars, FilterInv, TypeOK
  <2> QED
    BY <2>1, SameCache
<1> QED
  BY <1>1, <1>2, <1>3, <1>4, <1>5, <1>6, <1>7 DEF Next

\* So it holds of every state of the filter.
LEMMA FilterInvariant == Spec => []FilterInv
<1> QED
  BY FilterInit, FilterStep, PTL DEF Spec

\* The state of the filter stays in its types; the cache in its capacity (_cache_result).
THEOREM TypeCorrect == Spec => []TypeOK
<1>1. FilterInv => TypeOK
  BY DEF FilterInv
<1> QED
  BY <1>1, FilterInvariant, PTL

\* Whatever rules and exemptions come and go, a cached verdict is the current one.
THEOREM CacheAlwaysCurrent == Spec => []CacheIsCurrent
<1>1. FilterInv => CacheIsCurrent
  BY DEF FilterInv
<1> QED
  BY <1>1, FilterInvariant, PTL

\* The Bloom filter knows every rule.
THEOREM BloomAlwaysCovers == Spec => []BloomCoversRules
<1>1. FilterInv => BloomCoversRules
  BY DEF FilterInv
<1> QED
  BY <1>1, FilterInvariant, PTL

----------------------------------------------------------------------------------
(* The policy *)

\* What a lookup finds is between the rules of several labels and all rules.
LEMMA LookupFollowsRules ==
    ASSUME FilterInv, NEW d \in Domains
    PROVE  /\ Lookup(d) => Policy!HasRule(d)
           /\ Policy!HasLongRule(d) => Lookup(d)
<1>1. Lookup(d) => Policy!HasRule(d)
  BY DEF Lookup, Match, Policy!HasRule
<1>2. ASSUME Policy!HasLongRule(d) PROVE Lookup(d)
  <2>1. PICK s \in Suffixes[d] \cap rules : s \notin SingleLabel
    BY <1>2 DEF Policy!HasLongRule
  <2>2. MayContain(s)
    BY <2>1 DEF FilterInv, BloomCoversRules
  <2> QED
    BY <2>1, <2>2 DEF Lookup, Candidate, Match
<1> QED
  BY <1>1, <1>2

\* Every answer is one the policy allows, and the rules change as it says.
LEMMA PolicyStep == FilterInv /\ [Next]_vars => [Policy!Next]_(Policy!policyVars)
<1> SUFFICES ASSUME FilterInv, [Next]_vars PROVE [Policy!Next]_(Policy!policyVars)
  OBVIOUS
<1>1. ASSUME NEW ds \in SUBSET Domains, AddRules(ds) \/ AddExempt(ds) PROVE Policy!Next
  BY <1>1 DEF AddRules, AddExempt, Policy!Next, Policy!AddRules, Policy!AddExempt
<1>2. ASSUME NEW d \in Domains, RemoveExempt(d) PROVE Policy!Next
  BY <1>2 DEF RemoveExempt, Policy!Next, Policy!RemoveExempt
<1>3. ASSUME NEW d \in Domains, Pass(d) PROVE Policy!Next
  <2>1. Policy!Ask(d, FALSE)
    BY <1>3 DEF Pass, Policy!Ask, IsExempt, Policy!IsExempt
  <2> QED
    BY <2>1 DEF Policy!Next
<1>4. ASSUME NEW d \in Domains, Hit(d) PROVE Policy!Next
  <2>1. PICK i \in Cached(d) : answer' = <<d, cache[i].blocked>>
    BY <1>4 DEF Hit
  <2>2. i \in 1..Len(cache) /\ cache[i].domain = d /\ cache[i] \in Entry
    BY <2>1 DEF Cached, FilterInv, TypeOK
  <2>3. cache[i].blocked = Lookup(d) /\ cache[i].blocked \in BOOLEAN
    BY <2>2 DEF FilterInv, CacheIsCurrent, Entry
  <2>4. Policy!Ask(d, cache[i].blocked)
    BY <1>4, <2>1, <2>3, LookupFollowsRules DEF Hit, Policy!Ask, IsExempt, Policy!IsExempt
  <2> QED
    BY <2>3, <2>4 DEF Policy!Next
<1>5. ASSUME NEW d \in Domains, Miss(d) PROVE Policy!Next
  <2>1. Lookup(d) \in BOOLEAN
    BY DEF Lookup, Candidate, Match
  <2>2. Policy!Ask(d, Lookup(d))
    BY <1>5, LookupFollowsRules DEF Miss, Policy!Ask, IsExempt, Policy!IsExempt
  <2> QED
    BY <2>1, <2>2 DEF Policy!Next
<1>6. CASE Toggle
  BY <1>6 DEF Toggle, Policy!Next, Policy!Toggle
<1>7. CASE UNCHANGED vars
  BY <1>7 DEF vars, Policy!policyVars
<1> QED
  BY <1>1, <1>2, <1>3, <1>4, <1>5, <1>6, <1>7 DEF Next

\* should_block answers as the rules, the exemptions and the switch say, through the
\* cache, the Bloom filter and the trie: the filter implements AdPolicy.
THEOREM PolicyRefinement == Spec => PolicyImplemented
<1>1. Init => Policy!Init
  BY DEF Init, Policy!Init
<1> QED
  BY <1>1, FilterInvariant, PolicyStep, PTL DEF Spec, PolicyImplemented, Policy!Spec
==================================================================================
