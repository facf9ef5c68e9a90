------------------------------- MODULE MCHandshake -------------------------------
(* Two attempts of an allowed client and one of a stranger, two session ids.  The   *)
(* ids are alike, and so are the two attempts of the same client.                   *)
EXTENDS Handshake, TLC

CONSTANTS a1, a2, a3, c1, c2

MCClientOf == [a \in Attempts |-> IF a = a3 THEN c2 ELSE c1]

Alike ==
    {p @@ q : p \in Permutations({a1, a2}), q \in Permutations(Sids)}
==================================================================================
