-------------------------------- MODULE LeasePool --------------------------------
(***************************************************************************)
(* What leasing virtual addresses promises: an address has at most one     *)
(* holder, a holder has at most one address, a granted address was free,   *)
(* and only the return of an address takes it from its holder.  IPPool and *)
(* the session tables of Server are both shown to implement this module.   *)
(***************************************************************************)
CONSTANTS Holders,   \* who may hold an address
          Addresses, \* the addresses there are
          Free       \* not a holder

VARIABLE holder      \* the holder of each address, or Free

HoldsNone(h) == \A v \in Addresses : holder[v] # h

Init == holder = [v \in Addresses |-> Free]

Grant(h, v) ==
    /\ HoldsNone(h)
    /\ holder[v] = Free
    /\ holder' = [holder EXCEPT ![v] = h]

\* Everything the given holders hold is free again.
Return(hs) == holder' = [v \in Addresses |-> IF holder[v] \in hs THEN Free ELSE holder[v]]

Next ==
    \/ \E h \in Holders, v \in Addresses : Grant(h, v)
    \/ \E hs \in SUBSET Holders : Return(hs)

Spec == Init /\ [][Next]_holder
==================================================================================
