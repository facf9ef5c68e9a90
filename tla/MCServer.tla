--------------------------------- MODULE MCServer ---------------------------------
(* Three attempts, two source addresses and two virtual addresses: the pool runs    *)
(* dry, and a handshake may come from, or be repeated from, either address, which   *)
(* two clients may use one after the other or together.                             *)
EXTENDS Server

CONSTANTS a1, a2, a3, x1, x2
==================================================================================
