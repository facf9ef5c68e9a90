---------------------------- MODULE ShinCipher_proofs ----------------------------
(***************************************************************************)
(* Proofs about ShinCipher, for every set of threads, every window size    *)
(* and every number of packets.                                            *)
(***************************************************************************)
EXTENDS ShinCipher, TLAPS

USE ThreadsAssumption, WindowSizeAssumption, MaxSeqAssumption
    DEF SentSeqs, HeaderSeqs, Packet, Bits

---------------------------------------------------------------------------------
(* The sending endpoint *)

SenderIInv == TypeOK /\ SenderInv

\* The first state has every thread outside encrypt and no nonce used.
LEMMA SenderInit == Init => SenderIInv
<1> SUFFICES ASSUME Init PROVE SenderIInv
  OBVIOUS
<1>1. TypeOK
  <2>1. /\ pc \in [Threads -> {"idle", "number", "choose", "seal"}]
        /\ chosen \in [Threads -> 0..MaxSeq]
    BY DEF Init
  <2>2. /\ sealed \in [SentSeqs -> Nat]
        /\ delivered \in [SentSeqs -> Nat]
    BY DEF Init
  <2>3. /\ wire \subseteq Packet
        /\ bitmap \subseteq Bits
        /\ passed \subseteq SentSeqs
        /\ verdict \in BOOLEAN
    BY DEF Init
  <2>4. txSeq \in 0..MaxSeq /\ maxSeq \in 0..MaxSeq /\ txLock \in Threads \cup {NoThread}
    BY DEF Init
  <2> QED
    BY <2>1, <2>2, <2>3, <2>4 DEF TypeOK
<1>2. SenderInv
  BY DEF Init, SenderInv, NonceNeverReused
<1> QED
  BY <1>1, <1>2 DEF SenderIInv

\* The window's new state keeps its type: the mask keeps the bitmap inside the window.
LEMMA CheckAndUpdateTypes ==
  ASSUME TypeOK, NEW seq \in HeaderSeqs, CheckAndUpdate(seq)
  PROVE  /\ maxSeq' \in 0..MaxSeq
         /\ bitmap' \subseteq Bits
         /\ verdict' \in BOOLEAN
         /\ passed' \subseteq SentSeqs
<1>1. /\ maxSeq' \in 0..MaxSeq
      /\ verdict' \in BOOLEAN
      /\ passed' \subseteq SentSeqs
  BY DEF TypeOK, CheckAndUpdate, Valid
<1>2. bitmap' \subseteq Bits
  <2>1. CASE ~Valid(seq)
    BY <2>1 DEF TypeOK, CheckAndUpdate
  <2>2. CASE Valid(seq) /\ seq > maxSeq
    BY <2>2 DEF TypeOK, CheckAndUpdate, NewBitmap
  <2>3. CASE Valid(seq) /\ ~(seq > maxSeq)
    BY <2>3 DEF TypeOK, CheckAndUpdate, Valid
  <2> QED
    BY <2>1, <2>2, <2>3
<1> QED
  BY <1>1, <1>2

\* Every step keeps the types and the reason no nonce is reused.
LEMMA SenderStep == SenderIInv /\ [Next]_vars => SenderIInv'
<1> SUFFICES ASSUME SenderIInv, [Next]_vars PROVE SenderIInv'
  OBVIOUS
<1> USE DEF SenderIInv
<1>1. ASSUME NEW t \in Threads, Acquire(t) PROVE SenderIInv'
  <2>1. TypeOK'
    BY <1>1 DEF TypeOK, Acquire, windowVars
  <2>2. SenderInv'
    BY <1>1 DEF TypeOK, SenderInv, NonceNeverReused, Acquire
  <2> QED
    BY <2>1, <2>2
<1>2. ASSUME NEW t \in Threads, Bump(t) PROVE SenderIInv'
  <2>1. TypeOK'
    BY <1>2 DEF TypeOK, SenderInv, Bump, windowVars
  <2>2. SenderInv'
    BY <1>2 DEF TypeOK, SenderInv, NonceNeverReused, Bump
  <2> QED
    BY <2>1, <2>2
<1>3. ASSUME NEW t \in Threads, Choose(t) PROVE SenderIInv'
  <2>1. TypeOK'
    BY <1>3 DEF TypeOK, Choose, windowVars
  <2>2. SenderInv'
    BY <1>3 DEF TypeOK, SenderInv, NonceNeverReused, Choose
  <2> QED
    BY <2>1, <2>2
<1>4. ASSUME NEW t \in Threads, Seal(t) PROVE SenderIInv'
  <2>1. chosen[t] \in SentSeqs /\ chosen[t] = txSeq
    BY <1>4 DEF TypeOK, SenderInv, Seal
  <2>2. TypeOK'
    <3>0. [seq |-> chosen[t], intact |-> TRUE] \in Packet
      BY <2>1
    <3>1. wire' \subseteq Packet
      BY <1>4, <3>0 DEF TypeOK, Seal
    <3>2. pc' \in [Threads -> {"idle", "number", "choose", "seal"}]
      BY <1>4 DEF TypeOK, Seal
    <3>3. sealed' \in [SentSeqs -> Nat]
      BY <1>4, <2>1 DEF TypeOK, Seal
    <3> QED
      BY <1>4, <3>1, <3>2, <3>3 DEF TypeOK, Seal, windowVars
  <2>3. SenderInv'
    BY <1>4, <2>1 DEF TypeOK, SenderInv, NonceNeverReused, Seal
  <2> QED
    BY <2>2, <2>3
<1>5. ASSUME NEW p \in wire, NEW seq \in HeaderSeqs, Damage(p, seq) PROVE SenderIInv'
  <2>1. TypeOK'
    <3>0. [seq |-> seq, intact |-> FALSE] \in Packet
      OBVIOUS
    <3>1. wire' \subseteq Packet
      BY <1>5, <3>0 DEF TypeOK, Damage
    <3> QED
      BY <1>5, <3>1 DEF TypeOK, Damage, senderVars, windowVars
  <2>2. SenderInv'
    BY <1>5 DEF TypeOK, SenderInv, NonceNeverReused, Damage, senderVars
  <2> QED
    BY <2>1, <2>2
<1>6. ASSUME NEW p \in wire, Decrypt(p) PROVE SenderIInv'
  <2>1. TypeOK'
    <3>1. p.seq \in HeaderSeqs /\ p.intact \in BOOLEAN
      BY DEF TypeOK
    <3>2. /\ maxSeq' \in 0..MaxSeq
          /\ bitmap' \subseteq Bits
          /\ verdict' \in BOOLEAN
          /\ passed' \subseteq SentSeqs
      BY <1>6, <3>1, CheckAndUpdateTypes DEF Decrypt
    <3>3. delivered' \in [SentSeqs -> Nat]
      <4>1. CASE Valid(p.seq) /\ p.intact
        <5>1. p.seq \in SentSeqs
          BY <4>1, <3>1 DEF Valid
        <5>2. delivered' = [delivered EXCEPT ![p.seq] = @ + 1]
          BY <1>6, <4>1 DEF Decrypt
        <5> QED
          BY <5>1, <5>2 DEF TypeOK
      <4>2. CASE ~(Valid(p.seq) /\ p.intact)
        BY <1>6, <4>2 DEF TypeOK, Decrypt
      <4> QED
        BY <4>1, <4>2
    <3> QED
      BY <1>6, <3>2, <3>3 DEF TypeOK, Decrypt, senderVars
  <2>2. SenderInv'
    BY <1>6 DEF TypeOK, SenderInv, NonceNeverReused, Decrypt, senderVars
  <2> QED
    BY <2>1, <2>2
<1>7. CASE UNCHANGED vars
  BY <1>7 DEF TypeOK, SenderInv, NonceNeverReused, vars
<1> QED
  BY <1>1, <1>2, <1>3, <1>4, <1>5, <1>6, <1>7 DEF Next

\* Both parts of the sender's inductive invariant hold in every reachable state.
LEMMA SenderInvariant == Spec => []SenderIInv
BY SenderInit, SenderStep, PTL DEF Spec

\* Every variable stays in its type; for the bitmap this is the mask of the code.
THEOREM TypeCorrect == Spec => []TypeOK
BY SenderInvariant, PTL DEF SenderIInv

\* However many threads share a cipher, no nonce ever encrypts two payloads.
THEOREM NonceUniqueness == Spec => []NonceNeverReused
BY SenderInvariant, PTL DEF SenderIInv, SenderInv

---------------------------------------------------------------------------------
(* The receiving endpoint *)

\* check_and_update's answer, read off max_seq and the bitmap, is the answer of the
\* filter that remembers every number.
LEMMA ValidIsFresh ==
  ASSUME TypeOK, WindowMirrorsHistory, NEW seq \in HeaderSeqs
  PROVE  Valid(seq) <=> Filter!Fresh(seq)
<1>1. CASE seq > maxSeq
  BY <1>1 DEF TypeOK, WindowMirrorsHistory, Valid, Filter!Fresh, Filter!NotTooOld
<1>2. CASE ~(seq > maxSeq) /\ seq # 0
  <2>1. maxSeq \in passed /\ \A s \in passed : s <= maxSeq
    BY <1>2 DEF TypeOK, WindowMirrorsHistory
  <2>2. Filter!NotTooOld(seq) <=> maxSeq - seq < WindowSize
    BY <2>1 DEF TypeOK, Filter!NotTooOld
  <2>3. ASSUME maxSeq - seq < WindowSize
        PROVE  (maxSeq - seq) \in bitmap <=> seq \in passed
    <3>1. (maxSeq - seq) \in Bits /\ maxSeq - (maxSeq - seq) = seq
      BY <1>2, <2>3 DEF TypeOK
    <3> QED
      BY <3>1 DEF WindowMirrorsHistory
  <2> QED
    BY <1>2, <2>2, <2>3 DEF Valid, Filter!Fresh
<1>3. CASE seq = 0
  BY <1>3 DEF Valid, Filter!Fresh
<1> QED
  BY <1>1, <1>2, <1>3

\* The shift keeps the bitmap exact: after a jump by diff, position d stands for the
\* number position d - diff stood for.
LEMMA ShiftIsExact ==
  ASSUME TypeOK, WindowMirrorsHistory, NEW seq \in HeaderSeqs, seq > maxSeq
  PROVE  NewBitmap(seq - maxSeq) = {d \in Bits : (seq - d) \in passed \cup {seq}}
<1> DEFINE diff == seq - maxSeq
           Target == {d \in Bits : (seq - d) \in passed \cup {seq}}
<1>0. diff \in Nat /\ diff > 0 /\ maxSeq \in Nat /\ \A s \in passed : s <= maxSeq
  BY DEF TypeOK, WindowMirrorsHistory
<1>1. 0 \in Target
  OBVIOUS
<1>2. ASSUME NEW d \in Bits, d # 0
      PROVE  d \in Target <=> d >= diff /\ (d - diff) \in bitmap
  <2>1. d \in Target <=> (seq - d) \in passed
    BY <1>2
  <2>2. seq - d = maxSeq - (d - diff)
    BY DEF TypeOK
  <2>3. ASSUME d >= diff PROVE (d - diff) \in bitmap <=> (seq - d) \in passed
    <3>1. d - diff \in Bits
      BY <1>0, <2>3
    <3> HIDE DEF diff
    <3> QED
      BY <3>1, <2>2 DEF WindowMirrorsHistory
  <2>4. ASSUME ~(d >= diff) PROVE (seq - d) \notin passed
    <3>1. seq - d > maxSeq
      BY <2>4 DEF TypeOK
    <3> QED
      BY <3>1, <1>0 DEF TypeOK
  <2> QED
    BY <2>1, <2>3, <2>4
<1>3. CASE diff >= WindowSize
  <2>1. \A d \in Bits : ~(d >= diff)
    BY <1>0, <1>3
  <2>2. Target = {0}
    BY <1>1, <1>2, <2>1
  <2> QED
    BY <1>3, <2>2 DEF NewBitmap
<1>4. CASE ~(diff >= WindowSize)
  <2> DEFINE Moved == {b + diff : b \in bitmap}
  <2>1. NewBitmap(diff) = (Moved \cup {0}) \cap Bits
    BY <1>4 DEF NewBitmap
  <2>2. ASSUME NEW d \in Bits
        PROVE  d \in Moved <=> d >= diff /\ (d - diff) \in bitmap
    BY <1>0 DEF TypeOK
  <2>3. ASSUME NEW d \in Bits PROVE d \in (Moved \cup {0}) \cap Bits <=> d \in Target
    BY <1>1, <1>2, <2>2, <2>3
  <2> HIDE DEF Moved, Target
  <2>4. Target \subseteq Bits
    BY DEF Target
  <2> QED
    BY <2>1, <2>3, <2>4 DEF Target
<1> QED
  BY <1>3, <1>4

\* check_and_update keeps the bitmap and max_seq exact.
LEMMA CheckAndUpdateIsExact ==
  ASSUME TypeOK, WindowMirrorsHistory, NEW seq \in HeaderSeqs, CheckAndUpdate(seq)
  PROVE  WindowMirrorsHistory'
<1>1. CASE ~Valid(seq)
  BY <1>1 DEF CheckAndUpdate, WindowMirrorsHistory
<1>2. CASE Valid(seq) /\ seq > maxSeq
  <2>1. /\ maxSeq' = seq
        /\ passed' = passed \cup {seq}
        /\ bitmap' = NewBitmap(seq - maxSeq)
    BY <1>2 DEF CheckAndUpdate
  <2>2. bitmap' = {d \in Bits : (maxSeq' - d) \in passed'}
    BY <1>2, <2>1, ShiftIsExact
  <2>3. \A s \in passed' : s <= maxSeq'
    BY <1>2, <2>1 DEF TypeOK, WindowMirrorsHistory
  <2> QED
    BY <2>1, <2>2, <2>3 DEF WindowMirrorsHistory
<1>3. CASE Valid(seq) /\ ~(seq > maxSeq)
  <2>1. /\ maxSeq' = maxSeq
        /\ passed' = passed \cup {seq}
        /\ bitmap' = bitmap \cup {maxSeq - seq}
    BY <1>3 DEF CheckAndUpdate
  <2>2. maxSeq - seq \in Bits
    BY <1>3 DEF TypeOK, Valid
  <2>3. \A d \in Bits : maxSeq - d = seq <=> d = maxSeq - seq
    BY DEF TypeOK
  <2>4. bitmap' = {d \in Bits : (maxSeq' - d) \in passed'}
    BY <2>1, <2>2, <2>3 DEF WindowMirrorsHistory
  <2> QED
    BY <1>3, <2>1, <2>4 DEF TypeOK, WindowMirrorsHistory
<1> QED
  BY <1>1, <1>2, <1>3

\* A step preserves what the window and the deliveries rest on.
LEMMA DeliveredStep == TypeOK /\ DeliveredInv /\ [Next]_vars => DeliveredInv'
<1> SUFFICES ASSUME TypeOK, DeliveredInv, [Next]_vars PROVE DeliveredInv'
  OBVIOUS
<1>1. ASSUME NEW p \in wire, Decrypt(p) PROVE DeliveredInv'
  <2>1. p.seq \in HeaderSeqs /\ p.intact \in BOOLEAN
    BY DEF TypeOK
  <2>2. WindowMirrorsHistory'
    BY <1>1, <2>1, CheckAndUpdateIsExact DEF DeliveredInv, Decrypt
  <2>3. CASE Valid(p.seq) /\ p.intact
    <3>1. p.seq \in SentSeqs /\ p.seq \notin passed
      BY <2>1, <2>3, ValidIsFresh DEF DeliveredInv, Filter!Fresh
    <3>2. delivered[p.seq] = 0
      BY <3>1 DEF TypeOK, DeliveredInv
    <3>3. /\ delivered' = [delivered EXCEPT ![p.seq] = @ + 1]
          /\ passed' = passed \cup {p.seq}
      BY <1>1, <2>3 DEF Decrypt, CheckAndUpdate
    <3> QED
      BY <2>2, <3>1, <3>2, <3>3 DEF TypeOK, DeliveredInv, DeliveredAtMostOnce
  <2>4. CASE ~(Valid(p.seq) /\ p.intact)
    <3>1. delivered' = delivered /\ passed \subseteq passed'
      BY <1>1, <2>4 DEF Decrypt, CheckAndUpdate
    <3> QED
      BY <2>2, <3>1 DEF DeliveredInv, DeliveredAtMostOnce
  <2> QED
    BY <2>3, <2>4
<1>2. CASE UNCHANGED <<windowVars, delivered>>
  BY <1>2 DEF DeliveredInv, DeliveredAtMostOnce, WindowMirrorsHistory, windowVars
<1>3. ASSUME NEW t \in Threads, Acquire(t) \/ Bump(t) \/ Choose(t) \/ Seal(t)
      PROVE  UNCHANGED <<windowVars, delivered>>
  BY <1>3 DEF Acquire, Bump, Choose, Seal
<1>4. ASSUME NEW p \in wire, NEW seq \in HeaderSeqs, Damage(p, seq)
      PROVE  UNCHANGED <<windowVars, delivered>>
  BY <1>4 DEF Damage
<1>5. CASE UNCHANGED vars
  BY <1>2, <1>5 DEF vars, windowVars
<1> QED
  BY <1>1, <1>2, <1>3, <1>4, <1>5 DEF Next

\* The first state has let nothing through.
LEMMA DeliveredInit == Init => DeliveredInv
BY DEF Init, DeliveredInv, WindowMirrorsHistory, DeliveredAtMostOnce

\* The window and the deliveries agree with the history in every reachable state.
LEMMA DeliveredInvariant == Spec => []DeliveredInv
<1>1. TypeOK /\ DeliveredInv /\ [Next]_vars => DeliveredInv'
  BY DeliveredStep
<1> QED
  BY <1>1, DeliveredInit, TypeCorrect, PTL DEF Spec

\* The bitmap is exact for every window size: it records which of the last WindowSize
\* numbers were let through.
THEOREM WindowIsExact == Spec => []WindowMirrorsHistory
BY DeliveredInvariant, PTL DEF DeliveredInv

\* However the network repeats, reorders, loses and damages datagrams, each payload is
\* handed on at most once.
THEOREM AtMostOnceDelivery == Spec => []DeliveredAtMostOnce
BY DeliveredInvariant, PTL DEF DeliveredInv

\* AntiReplayWindow implements the filter that remembers every number: each datagram
\* received is a Present step of the filter, every other step leaves it alone.
THEOREM WindowRefinement == Spec => WindowImplementsFilter
<1>1. Init => Filter!Init
  BY DEF Init, Filter!Init
<1>2. TypeOK /\ WindowMirrorsHistory /\ [Next]_vars => [Filter!Next]_(Filter!filterVars)
  <2> SUFFICES ASSUME TypeOK, WindowMirrorsHistory, [Next]_vars
               PROVE  [Filter!Next]_(Filter!filterVars)
    OBVIOUS
  <2>1. ASSUME NEW p \in wire, Decrypt(p) PROVE Filter!Next
    <3>1. p.seq \in HeaderSeqs
      BY DEF TypeOK
    <3>2. Filter!Present(p.seq)
      <4>1. Valid(p.seq) = Filter!Fresh(p.seq)
        <5>1. Valid(p.seq) \in BOOLEAN /\ Filter!Fresh(p.seq) \in BOOLEAN
          BY DEF Valid, Filter!Fresh
        <5> QED
          BY <3>1, <5>1, ValidIsFresh
      <4>2. verdict' = Valid(p.seq)
        BY <2>1 DEF Decrypt, CheckAndUpdate
      <4>3. passed' = IF Valid(p.seq) THEN passed \cup {p.seq} ELSE passed
        BY <2>1 DEF Decrypt, CheckAndUpdate
      <4> QED
        BY <4>1, <4>2, <4>3 DEF Filter!Present
    <3> QED
      BY <3>1, <3>2 DEF Filter!Next
  <2>2. CASE UNCHANGED windowVars
    BY <2>2 DEF windowVars, Filter!filterVars
  <2>3. ASSUME NEW t \in Threads, Acquire(t) \/ Bump(t) \/ Choose(t) \/ Seal(t)
        PROVE  UNCHANGED windowVars
    BY <2>3 DEF Acquire, Bump, Choose, Seal
  <2>4. ASSUME NEW p \in wire, NEW seq \in HeaderSeqs, Damage(p, seq)
        PROVE  UNCHANGED windowVars
    BY <2>4 DEF Damage
  <2>5. CASE UNCHANGED vars
    BY <2>2, <2>5 DEF vars, windowVars
  <2> QED
    BY <2>1, <2>2, <2>3, <2>4, <2>5 DEF Next
<1> QED
  BY <1>1, <1>2, TypeCorrect, WindowIsExact, PTL
  DEF Spec, WindowImplementsFilter, Filter!Spec
=================================================================================
