------------------------------ MODULE MCShinCipher ------------------------------
(* Two threads share the sender's cipher; a window of 3 over numbers up to 5.      *)
EXTENDS ShinCipher, TLC

ThreadSymmetry == Permutations(Threads)
=================================================================================
