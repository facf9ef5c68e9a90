-------------------------------- MODULE MCAdBlock --------------------------------
(* A top-level label, two names under it, and a name below the first of them.  The  *)
(* second name shares its bits with others; the cache holds two verdicts.           *)
EXTENDS AdBlock

CONSTANTS com, ads, sub, site

MCSuffixes ==
    [d \in Domains |-> CASE d = com  -> {com}
                         [] d = ads  -> {ads, com}
                         [] d = sub  -> {sub, ads, com}
                         [] d = site -> {site, com}]

MCBitsOf ==
    [d \in Domains |-> CASE d = com -> {1} [] d = ads -> {2} [] d = sub -> {3} [] d = site -> {1, 3}]
==================================================================================
