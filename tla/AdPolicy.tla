-------------------------------- MODULE AdPolicy --------------------------------
(***************************************************************************)
(* What the ad and tracker filter promises, without cache, Bloom filter or *)
(* trie: a name is blocked when it or a parent domain has a rule, unless   *)
(* it or a parent domain is exempt or the filter is off.  Of a rule for a  *)
(* single label nothing is promised.  AdBlock is shown to implement this   *)
(* module.                                                                 *)
(***************************************************************************)
CONSTANTS
    Domains,      \* domain names
    Suffixes,     \* a name, its parent domain, and so on to its last label
    SingleLabel,  \* the names of one label
    CoreRules,    \* the rules there are from the beginning
    CoreExempt    \* the exempt names there are from the beginning

VARIABLES
    enabled,  \* the filter is on
    rules,    \* the names that have a rule
    exempt,   \* the exempt names
    answer    \* the name asked for last and what the answer was

policyVars == <<enabled, rules, exempt, answer>>

IsExempt(d) == Suffixes[d] \cap exempt # {}
HasRule(d) == Suffixes[d] \cap rules # {}
HasLongRule(d) == (Suffixes[d] \cap rules) \ SingleLabel # {}

Init ==
    /\ enabled = TRUE
    /\ rules = CoreRules
    /\ exempt = CoreExempt
    /\ answer = <<>>

AddRules(ds) ==
    /\ rules' = rules \cup (ds \ exempt)
    /\ UNCHANGED <<enabled, exempt, answer>>

AddExempt(ds) ==
    /\ exempt' = exempt \cup ds
    /\ UNCHANGED <<enabled, rules, answer>>

RemoveExempt(d) ==
    /\ exempt' = exempt \ {d}
    /\ UNCHANGED <<enabled, rules, answer>>

Toggle ==
    /\ enabled' = ~enabled
    /\ UNCHANGED <<rules, exempt, answer>>

Ask(d, blocked) ==
    /\ blocked => enabled /\ ~IsExempt(d) /\ HasRule(d)
    /\ enabled /\ ~IsExempt(d) /\ HasLongRule(d) => blocked
    /\ answer' = <<d, blocked>>
    /\ UNCHANGED <<enabled, rules, exempt>>

Next ==
    \/ \E ds \in SUBSET Domains : AddRules(ds) \/ AddExempt(ds)
    \/ \E d \in Domains :
        \/ RemoveExempt(d)
        \/ \E blocked \in BOOLEAN : Ask(d, blocked)
    \/ Toggle

Spec == Init /\ [][Next]_policyVars
=================================================================================
