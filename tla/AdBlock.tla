--------------------------------- MODULE AdBlock ---------------------------------
(***************************************************************************)
(* The ad and tracker filter, CyberShieldAdBlocker of                      *)
(* src/shinvpn/tunnel/adblock.py, which the proxy gateway asks before it   *)
(* opens a connection: a whitelist, a cache of verdicts that forgets the   *)
(* least recently used one, a Bloom filter and a trie of rules.            *)
(*                                                                         *)
(* Every entry point strips and lowers a name in the same way, so a domain *)
(* here is a normalized, not empty name; the trie is the set of names      *)
(* whose node is a leaf.  Counters and the log are left out.  Every call   *)
(* takes the lock, so that calls do not interleave.                        *)
(***************************************************************************)
EXTENDS Integers, Sequences

CONSTANTS
    Domains,      \* domain names
    Suffixes,     \* a name, its parent domain, and so on to its last label
    SingleLabel,  \* the names of one label
    CoreRules,    \* CORE_AD_AND_TRACKER_DOMAINS
    CoreExempt,   \* the whitelist of a new filter
    Bits,         \* the positions of the Bloom filter's bit array
    BitsOf,       \* _get_hashes: the positions of each name, shared with other names
    Capacity      \* _cache_capacity

ASSUME SuffixesAssumption ==
    /\ Suffixes \in [Domains -> SUBSET Domains]
    /\ \A d \in Domains : d \in Suffixes[d]
    /\ SingleLabel \subseteq Domains
ASSUME CoreAssumption == CoreRules \subseteq Domains /\ CoreExempt \subseteq Domains
ASSUME BitsAssumption == BitsOf \in [Domains -> SUBSET Bits]
ASSUME CapacityAssumption == Capacity \in Nat \ {0}

VARIABLES
    enabled,  \* enabled
    rules,    \* _trie: the names whose node is a leaf
    bloom,    \* _bloom: the bits that are set
    exempt,   \* _whitelist
    cache,    \* _lru_cache: names and verdicts, the least recently used first
    answer    \* history: the name asked for last and what should_block returned

vars == <<enabled, rules, bloom, exempt, cache, answer>>

Entry == [domain : Domains, blocked : BOOLEAN]

----------------------------------------------------------------------------------
(* Changes of the rules *)

BitsOfAll(ds) == UNION {BitsOf[d] : d \in ds}

\* Variants: the cache outlives the change; the Bloom filter is not told.
AddRulesKeepsCache(ds) ==
    /\ rules' = rules \cup (ds \ exempt)
    /\ bloom' = bloom \cup BitsOfAll(ds \ exempt)
    /\ UNCHANGED <<enabled, exempt, cache, answer>>
AddRulesTrieOnly(ds) ==
    /\ rules' = rules \cup (ds \ exempt)
    /\ cache' = <<>>
    /\ UNCHANGED <<enabled, bloom, exempt, answer>>

\* add_custom_rules: a name that is exempt itself is skipped.
AddRules(ds) ==
    /\ rules' = rules \cup (ds \ exempt)
    /\ bloom' = bloom \cup BitsOfAll(ds \ exempt)
    /\ cache' = <<>>
    /\ UNCHANGED <<enabled, exempt, answer>>

\* add_whitelist and remove_whitelist
AddExempt(ds) ==
    /\ exempt' = exempt \cup ds
    /\ cache' = <<>>
    /\ UNCHANGED <<enabled, rules, bloom, answer>>

RemoveExempt(d) ==
    /\ exempt' = exempt \ {d}
    /\ cache' = <<>>
    /\ UNCHANGED <<enabled, rules, bloom, answer>>

Toggle ==
    /\ enabled' = ~enabled
    /\ UNCHANGED <<rules, bloom, exempt, cache, answer>>

----------------------------------------------------------------------------------
(* should_block *)

IsExempt(d) == Suffixes[d] \cap exempt # {}

\* BloomFilter.contains
MayContain(d) == BitsOf[d] \subseteq bloom

\* The fast path asks for the name and its parents, but not for the last label.
Candidate(d) == \E s \in Suffixes[d] \ SingleLabel : MayContain(s)

\* ReverseDomainRadixTrie.match
Match(d) == Suffixes[d] \cap rules # {}

\* Variant: the fast path asks for the name only.
LookupExact(d) == MayContain(d) /\ Match(d)

\* What a lookup that misses the cache finds.
Lookup(d) == Candidate(d) /\ Match(d)

Cached(d) == {i \in 1..Len(cache) : cache[i].domain = d}

\* OrderedDict.move_to_end
ToEnd(i) ==
    [j \in 1..Len(cache) |->
        IF j < i THEN cache[j] ELSE IF j < Len(cache) THEN cache[j + 1] ELSE cache[i]]

\* _cache_result.  Variant: the cache is allowed one entry too many.
CacheResultLate(entry) ==
    cache' = Append(IF Len(cache) > Capacity THEN Tail(cache) ELSE cache, entry)
CacheResult(entry) ==
    cache' = Append(IF Len(cache) >= Capacity THEN Tail(cache) ELSE cache, entry)

\* The filter is off, or the name is exempt: not blocked, and nothing else happens.
Pass(d) ==
    /\ ~enabled \/ IsExempt(d)
    /\ answer' = <<d, FALSE>>
    /\ UNCHANGED <<enabled, rules, bloom, exempt, cache>>

Hit(d) ==
    /\ enabled /\ ~IsExempt(d)
    /\ \E i \in Cached(d) :
        /\ cache' = ToEnd(i)
        /\ answer' = <<d, cache[i].blocked>>
    /\ UNCHANGED <<enabled, rules, bloom, exempt>>

Miss(d) ==
    /\ enabled /\ ~IsExempt(d)
    /\ Cached(d) = {}
    /\ CacheResult([domain |-> d, blocked |-> Lookup(d)])
    /\ answer' = <<d, Lookup(d)>>
    /\ UNCHANGED <<enabled, rules, bloom, exempt>>

----------------------------------------------------------------------------------
(* The specification *)

\* _load_core_blocklists puts the parents of the core rules into the Bloom filter too.
Init ==
    /\ enabled = TRUE
    /\ rules = CoreRules
    /\ bloom = BitsOfAll(UNION {Suffixes[d] : d \in CoreRules})
    /\ exempt = CoreExempt
    /\ cache = <<>>
    /\ answer = <<>>

Next ==
    \/ \E ds \in SUBSET Domains : AddRules(ds) \/ AddExempt(ds)
    \/ \E d \in Domains : RemoveExempt(d) \/ Pass(d) \/ Hit(d) \/ Miss(d)
    \/ Toggle

Spec == Init /\ [][Next]_vars

----------------------------------------------------------------------------------
(* Properties *)

TypeOK ==
    /\ enabled \in BOOLEAN
    /\ rules \subseteq Domains
    /\ bloom \subseteq Bits
    /\ exempt \subseteq Domains
    /\ cache \in Seq(Entry)
    /\ Len(cache) <= Capacity
    /\ answer = <<>> \/ answer \in Domains \X BOOLEAN

\* A cached verdict is what a lookup would find now, and a name is cached once: no change
\* of the rules leaves an old verdict behind, and move_to_end loses and doubles none.
CacheIsCurrent ==
    /\ \A i \in 1..Len(cache) : cache[i].blocked = Lookup(cache[i].domain)
    /\ \A i, j \in 1..Len(cache) : cache[i].domain = cache[j].domain => i = j

\* The Bloom filter never denies a rule: it may be asked first.
BloomCoversRules == \A r \in rules : MayContain(r)

\* Through the cache and the fast path should_block answers as the rules say.
Policy == INSTANCE AdPolicy
PolicyImplemented == Policy!Spec
==================================================================================
