------------------------------ MODULE ReplayFilter ------------------------------
(***************************************************************************)
(* What an anti-replay filter promises, without a bitmap: it remembers     *)
(* every number it ever let through and lets a number through exactly when *)
(* it is not 0, is new, and is less than WindowSize behind the highest     *)
(* number let through so far.  ShinCipher is shown to implement this       *)
(* module: AntiReplayWindow of src/shinvpn/crypto/cipher.py keeps only a   *)
(* maximum and WindowSize bits.                                            *)
(***************************************************************************)
EXTENDS Integers

CONSTANTS WindowSize,  \* how far behind the highest number a late packet may be
          Seqs         \* the numbers that can be written in a header

VARIABLES seen,        \* every number let through so far
          verdict      \* whether the last number presented was let through

filterVars == <<seen, verdict>>

\* No number let through so far is WindowSize or more ahead of seq.
NotTooOld(seq) == \A m \in seen : m - seq < WindowSize

Fresh(seq) ==
    /\ seq # 0
    /\ seq \notin seen
    /\ NotTooOld(seq)

Init ==
    /\ seen = {}
    /\ verdict = FALSE

\* Present seq to the filter.
Present(seq) ==
    /\ verdict' = Fresh(seq)
    /\ seen' = IF Fresh(seq) THEN seen \cup {seq} ELSE seen

Next == \E seq \in Seqs : Present(seq)

Spec == Init /\ [][Next]_filterVars
=================================================================================
