------------------------------- MODULE ShinCipher -------------------------------
(***************************************************************************)
(* One direction of a session: the ShinCipher of the sending endpoint      *)
(* (encrypt), the datagrams in flight, and the ShinCipher of the receiving *)
(* endpoint (decrypt, which asks its AntiReplayWindow first).              *)
(* src/shinvpn/crypto/cipher.py.                                           *)
(*                                                                         *)
(* encrypt takes _tx_lock, so that several threads may call it (no code of *)
(* the repository calls it from a second one): its increment and its use   *)
(* of the number are separate steps here.  UDP may lose, repeat, delay and *)
(* damage datagrams: a datagram stays in `wire` for ever and may be        *)
(* received at any time, any number of times or never.  Keys and payloads  *)
(* are not in the model; AEAD verification is the bit `intact`.            *)
(***************************************************************************)
EXTENDS Integers

CONSTANTS
    Threads,     \* the threads that call encrypt
    NoThread,    \* not a thread: _tx_lock is free
    WindowSize,  \* window_size of the receiver's AntiReplayWindow (128 in the code)
    MaxSeq       \* bound: the highest number the sender uses

ASSUME ThreadsAssumption == NoThread \notin Threads
ASSUME WindowSizeAssumption == WindowSize \in Nat \ {0}
ASSUME MaxSeqAssumption == MaxSeq \in Nat

VARIABLES
    pc,        \* where each thread is in encrypt
    txLock,    \* the thread that holds _tx_lock
    txSeq,     \* _tx_seq
    chosen,    \* the local variable seq of each thread
    sealed,    \* history: how often each nonce was used to encrypt
    wire,      \* the datagrams sent, with those damaged on the way
    maxSeq,    \* max_seq of the receiver's window
    bitmap,    \* the positions of the bits set in its bitmap
    verdict,   \* what check_and_update returned last
    passed,    \* history: the numbers check_and_update returned True for
    delivered  \* history: how often the payload of each number was returned

senderVars == <<pc, txLock, txSeq, chosen, sealed>>
windowVars == <<maxSeq, bitmap, verdict, passed>>
vars == <<pc, txLock, txSeq, chosen, sealed, wire,
          maxSeq, bitmap, verdict, passed, delivered>>

---------------------------------------------------------------------------------
(* Values *)

SentSeqs == 1..MaxSeq

\* A header holds any 64-bit number, 0 included.
HeaderSeqs == 0..MaxSeq

\* intact: the AEAD tag verifies under the nonce built from seq.
Packet == [seq : HeaderSeqs, intact : BOOLEAN]

\* The bits a mask of WindowSize ones keeps.
Bits == 0..(WindowSize - 1)

---------------------------------------------------------------------------------
(* Variants of the code: each replaces the definition it is named after, in a run   *)
(* that must then find a property violated.                                         *)

\* The lock is not waited for.
AcquireUnlocked(t) ==
    /\ pc[t] = "idle"
    /\ txSeq < MaxSeq
    /\ txLock' = t
    /\ pc' = [pc EXCEPT ![t] = "number"]
    /\ UNCHANGED <<txSeq, chosen, sealed, wire, windowVars, delivered>>

\* The bitmap is shifted one place too few.
NewBitmapShort(diff) ==
    IF diff >= WindowSize THEN {0}
    ELSE ({b + diff - 1 : b \in bitmap} \cup {0}) \cap Bits

\* A jump of WindowSize - 1 forgets the one packet still inside the window.
NewBitmapCleared(diff) ==
    IF diff >= WindowSize - 1 THEN {0}
    ELSE ({b + diff : b \in bitmap} \cup {0}) \cap Bits

\* The result of the shift is not masked.
NewBitmapUnmasked(diff) == {b + diff : b \in bitmap} \cup {0}

\* The test for age is off by one.
ValidOneOlder(seq) ==
    /\ seq # 0
    /\ \/ seq > maxSeq
       \/ /\ maxSeq - seq <= WindowSize
          /\ (maxSeq - seq) \notin bitmap

---------------------------------------------------------------------------------
(* The sending endpoint: ShinCipher.encrypt *)

Acquire(t) ==
    /\ pc[t] = "idle"
    /\ txLock = NoThread
    /\ txSeq < MaxSeq
    /\ txLock' = t
    /\ pc' = [pc EXCEPT ![t] = "number"]
    /\ UNCHANGED <<txSeq, chosen, sealed, wire, windowVars, delivered>>

\* self._tx_seq += 1
Bump(t) ==
    /\ pc[t] = "number"
    /\ txSeq' = txSeq + 1
    /\ pc' = [pc EXCEPT ![t] = "choose"]
    /\ UNCHANGED <<txLock, chosen, sealed, wire, windowVars, delivered>>

\* seq = self._tx_seq
Choose(t) ==
    /\ pc[t] = "choose"
    /\ chosen' = [chosen EXCEPT ![t] = txSeq]
    /\ pc' = [pc EXCEPT ![t] = "seal"]
    /\ UNCHANGED <<txLock, txSeq, sealed, wire, windowVars, delivered>>

\* Encrypt under the nonce of seq, leave the lock and send the datagram.
Seal(t) ==
    /\ pc[t] = "seal"
    /\ sealed' = [sealed EXCEPT ![chosen[t]] = @ + 1]
    /\ wire' = wire \cup {[seq |-> chosen[t], intact |-> TRUE]}
    /\ txLock' = NoThread
    /\ pc' = [pc EXCEPT ![t] = "idle"]
    /\ UNCHANGED <<txSeq, chosen, windowVars, delivered>>

---------------------------------------------------------------------------------
(* The network damages a datagram: the header may then show any number *)

Damage(p, seq) ==
    /\ p.intact
    /\ wire' = wire \cup {[seq |-> seq, intact |-> FALSE]}
    /\ UNCHANGED <<senderVars, windowVars, delivered>>

---------------------------------------------------------------------------------
(* The receiving endpoint: AntiReplayWindow.check_and_update *)

\* The answer for seq.
Valid(seq) ==
    /\ seq # 0
    /\ \/ seq > maxSeq
       \/ /\ maxSeq - seq < WindowSize
          /\ (maxSeq - seq) \notin bitmap

\* ((bitmap << diff) | 1) under the mask; a single bit when nothing would be left.
NewBitmap(diff) ==
    IF diff >= WindowSize THEN {0}
    ELSE ({b + diff : b \in bitmap} \cup {0}) \cap Bits

CheckAndUpdate(seq) ==
    /\ verdict' = Valid(seq)
    /\ passed' = IF Valid(seq) THEN passed \cup {seq} ELSE passed
    /\ maxSeq' = IF Valid(seq) /\ seq > maxSeq THEN seq ELSE maxSeq
    /\ bitmap' = IF ~Valid(seq) THEN bitmap
                 ELSE IF seq > maxSeq THEN NewBitmap(seq - maxSeq)
                 ELSE bitmap \cup {maxSeq - seq}

\* decrypt: the window is updated before the tag is verified, so a damaged datagram
\* spends the number in its header; only an intact one returns a payload.
Decrypt(p) ==
    /\ CheckAndUpdate(p.seq)
    /\ delivered' = IF Valid(p.seq) /\ p.intact
                    THEN [delivered EXCEPT ![p.seq] = @ + 1]
                    ELSE delivered
    /\ UNCHANGED <<senderVars, wire>>

---------------------------------------------------------------------------------
(* The specification *)

Init ==
    /\ pc = [t \in Threads |-> "idle"]
    /\ txLock = NoThread
    /\ txSeq = 0
    /\ chosen = [t \in Threads |-> 0]
    /\ sealed = [s \in SentSeqs |-> 0]
    /\ wire = {}
    /\ maxSeq = 0
    /\ bitmap = {}
    /\ verdict = FALSE
    /\ passed = {}
    /\ delivered = [s \in SentSeqs |-> 0]

Next ==
    \/ \E t \in Threads : Acquire(t) \/ Bump(t) \/ Choose(t) \/ Seal(t)
    \/ \E p \in wire, seq \in HeaderSeqs : Damage(p, seq)
    \/ \E p \in wire : Decrypt(p)

Spec == Init /\ [][Next]_vars

---------------------------------------------------------------------------------
(* Properties *)

TypeOK ==
    /\ pc \in [Threads -> {"idle", "number", "choose", "seal"}]
    /\ txLock \in Threads \cup {NoThread}
    /\ txSeq \in 0..MaxSeq
    /\ chosen \in [Threads -> 0..MaxSeq]
    /\ sealed \in [SentSeqs -> Nat]
    /\ wire \subseteq Packet
    /\ maxSeq \in 0..MaxSeq
    /\ bitmap \subseteq Bits
    /\ verdict \in BOOLEAN
    /\ passed \subseteq SentSeqs
    /\ delivered \in [SentSeqs -> Nat]

\* "IVs never repeat within a session lifetime" (src/docs/PROTOCOL_SPEC.md, section 3):
\* however many threads call encrypt, no nonce encrypts two payloads.
NonceNeverReused == \A s \in SentSeqs : sealed[s] <= 1

\* Why: the lock is held exactly by the one thread inside encrypt, and the number that
\* thread is about to use was never used.
SenderInv ==
    /\ \A t \in Threads : pc[t] # "idle" <=> txLock = t
    /\ \A t \in Threads : pc[t] = "number" => txSeq < MaxSeq
    /\ \A t \in Threads : pc[t] \in {"choose", "seal"} => txSeq > 0 /\ sealed[txSeq] = 0
    /\ \A t \in Threads : pc[t] = "seal" => chosen[t] = txSeq
    /\ \A s \in SentSeqs : s > txSeq => sealed[s] = 0
    /\ NonceNeverReused

\* A payload is handed to the session at most once, however often the network repeats
\* its datagram, in whatever order, and whatever damaged datagrams come in between.
DeliveredAtMostOnce == \A s \in SentSeqs : delivered[s] <= 1

\* The bitmap is exact: bit d is set when, and only when, max_seq - d was let through,
\* and max_seq is the highest number let through.
WindowMirrorsHistory ==
    /\ bitmap = {d \in Bits : (maxSeq - d) \in passed}
    /\ \A s \in passed : s <= maxSeq
    /\ maxSeq # 0 => maxSeq \in passed

\* A payload was only ever returned for a number the window let through.
DeliveredInv ==
    /\ WindowMirrorsHistory
    /\ DeliveredAtMostOnce
    /\ \A s \in SentSeqs : delivered[s] > 0 => s \in passed

\* The window of a maximum and WindowSize bits answers as the filter that remembers
\* every number: it never lets a number through twice, and never refuses a new number
\* that is inside the window, the boundary at WindowSize - 1 included.
Filter == INSTANCE ReplayFilter WITH Seqs <- HeaderSeqs, seen <- passed
WindowImplementsFilter == Filter!Spec
=================================================================================
