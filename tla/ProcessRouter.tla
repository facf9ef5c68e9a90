------------------------------ MODULE ProcessRouter ------------------------------
(***************************************************************************)
(* The rules of the split tunnel and the list of applications that is      *)
(* shown with them, ProcessRoutingMatrix of                                *)
(* src/shinvpn/tunnel/process_router.py.  A list is kept for _scan_ttl,    *)
(* and keeps the answers of should_route_process as of its making.         *)
(***************************************************************************)
EXTENDS Naturals, JsonFiles

CONSTANTS
    Apps,  \* the applications of the catalog, which are always listed
    Asked, \* the rules of the presets and of the requests
    TTL    \* _scan_ttl in ticks of the clock

VARIABLES
    rules,     \* enabled, mode and selected_apps
    rulesFile, \* split_tunnel.json
    cache,     \* _proc_cache: {}, or the set of one list, the applications with is_tunneled
    cacheAge,  \* ticks since _last_scan_time, at most TTL
    rulesAge   \* ticks since the rules changed, at most TTL

routerVars == <<rules, rulesFile, cache, cacheAge, rulesAge>>

Rules == [enabled : BOOLEAN, mode : {"INCLUSIVE", "EXCLUSIVE"}, selected : SUBSET Apps]
Defaults == [enabled |-> FALSE, mode |-> "INCLUSIVE", selected |-> {}]

\* mode.upper(), for the two modes.
Upper(mode) == IF mode \in {"exclusive", "EXCLUSIVE"} THEN "EXCLUSIVE" ELSE "INCLUSIVE"

ShouldRoute(a) ==
    rules.enabled => (a \in rules.selected <=> rules.mode = "EXCLUSIVE")
Scanned == {{a \in Apps : ShouldRoute(a)}}

Init ==
    /\ rules = Defaults
    /\ rulesFile = Absent
    /\ cache = {}
    /\ cacheAge = TTL /\ rulesAge = TTL

\* Variant: the mode is taken as it is written.
SetRulesAsWritten(r, saved) ==
    /\ rules' = r
    /\ rulesFile' = IF saved THEN Json(r) ELSE Torn
    /\ rulesAge' = 0
    /\ UNCHANGED <<cache, cacheAge>>

\* set_rules and apply_preset: the rules change at once and are saved, unless the write
\* fails; the list is kept.
SetRules(r, saved) ==
    /\ rules' = [r EXCEPT !.mode = Upper(@)]
    /\ rulesFile' = IF saved THEN Json(rules') ELSE Torn
    /\ rulesAge' = 0
    /\ UNCHANGED <<cache, cacheAge>>

\* Variant: a list that is shown again counts as new.
ScanRenews ==
    /\ cache' = IF cacheAge < TTL /\ cache # {} THEN cache ELSE Scanned
    /\ cacheAge' = 0
    /\ UNCHANGED <<rules, rulesFile, rulesAge>>

\* scan_active_applications.
Scan ==
    /\ IF cacheAge < TTL /\ cache # {}
       THEN UNCHANGED <<cache, cacheAge>>
       ELSE cache' = Scanned /\ cacheAge' = 0
    /\ UNCHANGED <<rules, rulesFile, rulesAge>>

\* The process starts anew: load_config, which keeps the defaults when the file is not
\* there or not JSON.
Load ==
    /\ rules' = IF rulesFile.is = "json" THEN rulesFile.has ELSE Defaults
    /\ cache' = {}
    /\ cacheAge' = TTL /\ rulesAge' = TTL
    /\ UNCHANGED rulesFile

Tick ==
    /\ cacheAge < TTL \/ rulesAge < TTL
    /\ cacheAge' = IF cacheAge < TTL THEN cacheAge + 1 ELSE TTL
    /\ rulesAge' = IF rulesAge < TTL THEN rulesAge + 1 ELSE TTL
    /\ UNCHANGED <<rules, rulesFile, cache>>

TypeOK ==
    /\ rules \in Rules
    /\ rulesFile.is \in {"json", "absent", "torn"}
    /\ cache \subseteq SUBSET Apps
    /\ cacheAge \in 0..TTL /\ rulesAge \in 0..TTL

\* Once the rules have stood for _scan_ttl, what is listed as tunnelled is what
\* should_route_process says, however often the list was asked for in the meantime.
ListingSettles ==
    rulesAge = TTL /\ cacheAge < TTL /\ cache # {} => cache = Scanned
==================================================================================
