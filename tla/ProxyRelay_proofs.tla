---------------------------- MODULE ProxyRelay_proofs ----------------------------
(***************************************************************************)
(* Proofs about ProxyRelay, for any connections and numbers of chunks.     *)
(***************************************************************************)
EXTENDS ProxyRelay, FiniteSetTheorems, FunctionTheorems, SequenceTheorems, TLAPS

USE BoundsAssumption

------------------------------------------------------------------------------------
(* What is known of the frames under way *)

Frames == [kind : {"CONNECT", "DATA", "CLOSE"}, conn : Conns, chunk : 0..MaxChunks]

\* A wire of such frames, whose chunks are counted from 1.
Wired(wire) ==
    wire \in Seq(Frames) /\ \A i \in 1..Len(wire) : wire[i].kind = "DATA" => wire[i].chunk # 0

Types ==
    /\ transport \in {"udp", "stealth"} /\ transport \in Transports
    /\ app \in [Conns -> {"idle", "open", "closing", "closed"}]
    /\ sent \in [Conns -> 0..MaxChunks] /\ answered \in [Conns -> 0..MaxChunks]
    /\ fed \in [Conns -> Seq(Chunks)] /\ arrived \in [Conns -> Seq(Chunks)]
    /\ pending \in [Conns -> Seq(Chunks) \cup {NoBuffer}]
    /\ Wired(up) /\ Wired(down)
    /\ sessionOpen \in BOOLEAN
    /\ task \in [Conns -> {"none", "dialing", "piping", "done"}]
    /\ remote \in [Conns -> {"none", "open", "closed"}]
    /\ connecting \subseteq Conns /\ streams \subseteq Conns

\* The tables of the server and the tasks tell the same.
Tables ==
    /\ connecting = {c \in Conns : pending[c] # NoBuffer}
    /\ streams = {c \in Conns : remote[c] = "open"}
    /\ \A c \in connecting : task[c] = "dialing"
    /\ \A c \in streams : task[c] = "piping"

\* A connection is announced once, before anything of it happens at the server, and its
\* end is the last that is said of it.
Told(f) ==
    /\ app[f.conn] # "idle"
    /\ f.kind = "CONNECT" => task[f.conn] = "none"
    /\ f.kind = "CLOSE" => app[f.conn] = "closed"
Orderly(wire) ==
    \A i, j \in 1..Len(wire) : i < j /\ wire[i].conn = wire[j].conn =>
        wire[j].kind # "CONNECT" /\ wire[i].kind # "CLOSE"

Protocol ==
    /\ \A c \in Conns : app[c] = "idle" => task[c] = "none" /\ sent[c] = 0
    /\ \A i \in 1..Len(up) : Told(up[i])
    /\ Orderly(up)

\* The chunks of c on the wire are those from lo + 1 to hi, in order.
Line(wire, c, lo, hi) ==
    /\ lo \in 0..hi
    /\ \A i \in 1..Len(wire) : wire[i].kind = "DATA" /\ wire[i].conn = c =>
        wire[i].chunk \in lo + 1..hi
    /\ \A k \in lo + 1..hi : \E i \in 1..Len(wire) : wire[i] = Frame("DATA", c, k)
    /\ \A i, j \in 1..Len(wire) :
        i < j /\ wire[i].kind = "DATA" /\ wire[j].kind = "DATA" /\ wire[i].conn = c
              /\ wire[j].conn = c => wire[i].chunk < wire[j].chunk

Silent(wire, c) == \A i \in 1..Len(wire) : wire[i].conn # c
Announced(wire, c) == \E j \in 1..Len(wire) : wire[j] = Frame("CONNECT", c, 0)
AfterConnect(wire, c) ==
    \A i \in 1..Len(wire) : wire[i].kind = "DATA" /\ wire[i].conn = c =>
        \E j \in 1..i - 1 : wire[j] = Frame("CONNECT", c, 0)

\* Nothing more comes from the gateway about c.
Over(c) == app[c] = "closed" /\ Silent(up, c)

\* What the server has of the stream of c goes on with what is on the wire.
UpLine(c) ==
    /\ task[c] = "none" =>
        /\ Line(up, c, 0, sent[c])
        /\ app[c] = "open" => Announced(up, c)
        /\ AfterConnect(up, c)
    /\ c \in connecting => Line(up, c, Len(pending[c]), sent[c])
    /\ c \in streams => Over(c) \/ Line(up, c, Len(arrived[c]), sent[c])
    /\ task[c] = "dialing" /\ c \notin connecting => Over(c)

DownLine(c) == app[c] \in {"idle", "open"} => Line(down, c, Len(fed[c]), answered[c])

\* What has been written, and what waits to be, is a stream from its first chunk on.
Written(c) ==
    /\ InOrder(fed[c]) /\ InOrder(arrived[c])
    /\ pending[c] # NoBuffer => InOrder(pending[c])
    /\ task[c] \in {"none", "dialing"} => arrived[c] = <<>>

Ordered ==
    /\ \A i \in 1..Len(down) : app[down[i].conn] # "idle"
    /\ \A c \in Conns : Written(c) /\ DownLine(c) /\ (sessionOpen => UpLine(c))

Sequenced == transport = "stealth" => Ordered

Inv == Types /\ Tables /\ Protocol /\ Sequenced

------------------------------------------------------------------------------------
(* Sequences *)

\* What is left when one element is taken out.
LEMMA TakenOut ==
  ASSUME NEW S, NEW s \in Seq(S), NEW i \in 1..Len(s)
  PROVE  /\ RemoveAt(s, i) \in Seq(S)
         /\ Len(RemoveAt(s, i)) = Len(s) - 1
         /\ \A j \in 1..Len(s) - 1 : RemoveAt(s, i)[j] = IF j < i THEN s[j] ELSE s[j + 1]
<1> DEFINE front == SubSeq(s, 1, i - 1)
           rest == SubSeq(s, i + 1, Len(s))
<1>1. \A j \in 1..Len(s) : s[j] \in S
  BY ElementOfSeq
<1>2. Len(s) \in Nat
  BY LenProperties
<1>3. /\ front \in Seq(S) /\ Len(front) = i - 1
      /\ \A j \in 1..i - 1 : front[j] = s[j]
  BY <1>1, <1>2, SubSeqProperties
<1>4. /\ rest \in Seq(S) /\ Len(rest) = Len(s) - i
      /\ \A j \in 1..Len(s) - i : rest[j] = s[i + j]
  BY <1>1, <1>2, SubSeqProperties
<1>5. RemoveAt(s, i) = front \o rest
  BY DEF RemoveAt
<1> HIDE DEF front, rest
<1>6. /\ front \o rest \in Seq(S) /\ Len(front \o rest) = Len(s) - 1
      /\ \A j \in 1..Len(s) - 1 :
           (front \o rest)[j] = IF j <= i - 1 THEN front[j] ELSE rest[j - (i - 1)]
  <2>1. /\ front \o rest \in Seq(S) /\ Len(front \o rest) = Len(front) + Len(rest)
        /\ \A j \in 1..Len(front) + Len(rest) :
             (front \o rest)[j] = IF j <= Len(front) THEN front[j] ELSE rest[j - Len(front)]
    BY <1>3, <1>4, ConcatProperties
  <2>2. Len(front) + Len(rest) = Len(s) - 1
    BY <1>2, <1>3, <1>4
  <2> QED
    BY <1>3, <2>1, <2>2
<1>7. ASSUME NEW j \in 1..Len(s) - 1
      PROVE  (front \o rest)[j] = IF j < i THEN s[j] ELSE s[j + 1]
  <2>1. CASE j < i
    BY <1>2, <1>3, <1>6, <2>1
  <2>2. CASE ~(j < i)
    <3>1. j - (i - 1) \in 1..Len(s) - i /\ i + (j - (i - 1)) = j + 1
      BY <1>2, <2>2
    <3> QED
      BY <1>2, <1>4, <1>6, <2>2, <3>1
  <2> QED
    BY <2>1, <2>2
<1> QED
  BY <1>5, <1>6, <1>7

\* The chunks 1, 2, ... stay the chunks 1, 2, ... when the next one comes.
LEMMA NextInOrder ==
  ASSUME NEW s \in Seq(Chunks), InOrder(s), Len(s) + 1 \in Chunks
  PROVE  InOrder(Append(s, Len(s) + 1))
<1> DEFINE t == Append(s, Len(s) + 1)
<1>1. /\ t \in Seq(Chunks) /\ Len(t) = Len(s) + 1
      /\ \A i \in 1..Len(s) : t[i] = s[i]
      /\ t[Len(s) + 1] = Len(s) + 1
  BY AppendProperties
<1>2. \A i \in 1..Len(s) : s[i] = i
  BY DEF InOrder
<1>3. Len(s) \in Nat /\ t \in [1..Len(t) -> Chunks]
  BY <1>1, LenProperties
<1>4. \A i \in 1..Len(t) : t[i] = i
  BY <1>1, <1>2, <1>3
<1> HIDE DEF t
<1>5. InOrder(t)
  BY <1>3, <1>4 DEF InOrder
<1> QED
  BY <1>5 DEF t

------------------------------------------------------------------------------------
(* A wire that gets another frame *)

\* What is appended, and what was there.
LEMMA Appended ==
  ASSUME NEW w \in Seq(Frames), NEW f \in Frames
  PROVE  /\ Append(w, f) \in Seq(Frames) /\ Len(Append(w, f)) = Len(w) + 1
         /\ \A i \in 1..Len(w) : Append(w, f)[i] = w[i]
         /\ Append(w, f)[Len(w) + 1] = f
         /\ Len(w) \in Nat
BY AppendProperties, LenProperties

\* A frame of another connection, or one without a chunk, leaves the line of c as it was.
LEMMA LineAppended ==
  ASSUME NEW w \in Seq(Frames), NEW f \in Frames, NEW c, f.conn # c \/ f.kind # "DATA",
         NEW lo, NEW hi \in Nat, Line(w, c, lo, hi)
  PROVE  Line(Append(w, f), c, lo, hi)
<1> DEFINE v == Append(w, f)
<1>1. /\ Len(v) = Len(w) + 1 /\ Len(w) \in Nat
      /\ \A i \in 1..Len(w) : v[i] = w[i]
      /\ v[Len(w) + 1] = f
  BY Appended
<1> HIDE DEF v
<1>2. \A i \in 1..Len(v) : v[i].kind = "DATA" /\ v[i].conn = c => i \in 1..Len(w)
  BY <1>1
<1>3. \A i \in 1..Len(v) : v[i].kind = "DATA" /\ v[i].conn = c => v[i].chunk \in lo + 1..hi
  BY <1>1, <1>2 DEF Line
<1>4. \A k \in lo + 1..hi : \E i \in 1..Len(v) : v[i] = Frame("DATA", c, k)
  BY <1>1 DEF Line
<1>5. \A i, j \in 1..Len(v) :
        i < j /\ v[i].kind = "DATA" /\ v[j].kind = "DATA" /\ v[i].conn = c /\ v[j].conn = c
          => v[i].chunk < v[j].chunk
  BY <1>1, <1>2 DEF Line
<1> QED
  BY <1>3, <1>4, <1>5 DEF Line, v

\* The next chunk of c makes the line longer.
LEMMA LineLonger ==
  ASSUME NEW w \in Seq(Frames), NEW c, NEW lo, NEW hi \in Nat, Line(w, c, lo, hi),
         Frame("DATA", c, hi + 1) \in Frames
  PROVE  Line(Append(w, Frame("DATA", c, hi + 1)), c, lo, hi + 1)
<1> DEFINE f == Frame("DATA", c, hi + 1)
           v == Append(w, f)
<1>1. /\ Len(v) = Len(w) + 1 /\ Len(w) \in Nat
      /\ \A i \in 1..Len(w) : v[i] = w[i]
      /\ v[Len(w) + 1] = f
  BY Appended
<1>2. f.kind = "DATA" /\ f.conn = c /\ f.chunk = hi + 1
  BY DEF Frame
<1> HIDE DEF v
<1>3. \A i \in 1..Len(v) : v[i].kind = "DATA" /\ v[i].conn = c =>
        v[i].chunk \in lo + 1..hi + 1
  <2> HIDE DEF f
  <2> QED
    BY <1>1, <1>2 DEF Line
<1>4. ASSUME NEW k \in lo + 1..hi + 1
      PROVE  \E i \in 1..Len(v) : v[i] = Frame("DATA", c, k)
  <2>1. CASE k = hi + 1
    <3>1. Len(w) + 1 \in 1..Len(v)
      BY <1>1
    <3> QED
      BY <1>1, <2>1, <3>1
  <2>2. CASE k # hi + 1
    <3>1. k \in lo + 1..hi
      BY <2>2 DEF Line
    <3>2. PICK i \in 1..Len(w) : w[i] = Frame("DATA", c, k)
      BY <3>1 DEF Line
    <3>3. i \in 1..Len(v) /\ v[i] = w[i]
      BY <1>1
    <3> QED
      BY <3>2, <3>3
  <2> QED
    BY <2>1, <2>2
<1>5. \A i, j \in 1..Len(v) :
        i < j /\ v[i].kind = "DATA" /\ v[j].kind = "DATA" /\ v[i].conn = c /\ v[j].conn = c
          => v[i].chunk < v[j].chunk
  <2> HIDE DEF f
  <2> SUFFICES ASSUME NEW i \in 1..Len(v), NEW j \in 1..Len(v), i < j,
                      v[i].kind = "DATA", v[j].kind = "DATA", v[i].conn = c, v[j].conn = c
               PROVE  v[i].chunk < v[j].chunk
    OBVIOUS
  <2>1. i \in 1..Len(w) /\ v[i] = w[i] /\ w[i].chunk \in lo + 1..hi
    BY <1>1 DEF Line
  <2>2. CASE j = Len(w) + 1
    BY <1>1, <1>2, <2>1, <2>2 DEF Line
  <2>3. CASE j \in 1..Len(w)
    BY <1>1, <2>1, <2>3 DEF Line
  <2> QED
    BY <1>1, <2>2, <2>3
<1>6. lo \in 0..hi + 1
  BY DEF Line
<1> QED
  BY <1>3, <1>4, <1>5, <1>6 DEF Line, v

\* What a frame leaves of the announcement of c and its place before the chunks.
LEMMA ConnectAppended ==
  ASSUME NEW w \in Seq(Frames), NEW f \in Frames, NEW c
  PROVE  /\ Announced(w, c) => Announced(Append(w, f), c)
         /\ f = Frame("CONNECT", c, 0) => Announced(Append(w, f), c)
         /\ AfterConnect(w, c) /\ (f.conn # c \/ f.kind # "DATA" \/ Announced(w, c))
              => AfterConnect(Append(w, f), c)
         /\ Silent(w, c) /\ f.conn # c => Silent(Append(w, f), c)
<1> DEFINE v == Append(w, f)
<1>1. /\ Len(v) = Len(w) + 1 /\ Len(w) \in Nat
      /\ \A i \in 1..Len(w) : v[i] = w[i]
      /\ v[Len(w) + 1] = f
  BY Appended
<1> HIDE DEF v
<1>2. Announced(w, c) => Announced(v, c)
  BY <1>1 DEF Announced
<1>3. f = Frame("CONNECT", c, 0) => Announced(v, c)
  BY <1>1 DEF Announced
<1>4. ASSUME AfterConnect(w, c), f.conn # c \/ f.kind # "DATA" \/ Announced(w, c)
      PROVE  AfterConnect(v, c)
  <2> SUFFICES ASSUME NEW i \in 1..Len(v), v[i].kind = "DATA", v[i].conn = c
               PROVE  \E j \in 1..i - 1 : v[j] = Frame("CONNECT", c, 0)
    BY DEF AfterConnect
  <2>1. CASE i \in 1..Len(w)
    BY <1>1, <1>4, <2>1 DEF AfterConnect
  <2>2. CASE i = Len(w) + 1
    BY <1>1, <1>4, <2>2 DEF Announced
  <2> QED
    BY <1>1, <2>1, <2>2
<1>5. Silent(w, c) /\ f.conn # c => Silent(v, c)
  BY <1>1 DEF Silent
<1> QED
  BY <1>2, <1>3, <1>4, <1>5 DEF v

------------------------------------------------------------------------------------
(* A wire whose first frame is taken *)

\* What is left.
LEMMA Taken ==
  ASSUME NEW w \in Seq(Frames), 1 \in 1..Len(w)
  PROVE  /\ RemoveAt(w, 1) \in Seq(Frames) /\ Len(RemoveAt(w, 1)) = Len(w) - 1
         /\ \A i \in 1..Len(w) - 1 : RemoveAt(w, 1)[i] = w[i + 1]
         /\ Len(w) \in Nat
<1>1. Len(w) \in Nat
  BY LenProperties
<1>2. /\ RemoveAt(w, 1) \in Seq(Frames) /\ Len(RemoveAt(w, 1)) = Len(w) - 1
      /\ \A j \in 1..Len(w) - 1 : RemoveAt(w, 1)[j] = IF j < 1 THEN w[j] ELSE w[j + 1]
  BY TakenOut
<1> QED
  BY <1>1, <1>2

\* A frame of another connection, or one without a chunk, leaves the line of c as it was.
LEMMA LineTaken ==
  ASSUME NEW w \in Seq(Frames), 1 \in 1..Len(w), NEW c,
         w[1].conn # c \/ w[1].kind # "DATA",
         NEW lo, NEW hi \in Nat, Line(w, c, lo, hi)
  PROVE  Line(RemoveAt(w, 1), c, lo, hi)
<1> DEFINE v == RemoveAt(w, 1)
<1>1. /\ Len(v) = Len(w) - 1 /\ Len(w) \in Nat
      /\ \A i \in 1..Len(w) - 1 : v[i] = w[i + 1]
  BY Taken
<1> HIDE DEF v
<1>2. \A i \in 1..Len(v) : i + 1 \in 1..Len(w) /\ v[i] = w[i + 1]
  BY <1>1
<1>3. \A i \in 1..Len(v) : v[i].kind = "DATA" /\ v[i].conn = c => v[i].chunk \in lo + 1..hi
  BY <1>2 DEF Line
<1>4. ASSUME NEW k \in lo + 1..hi
      PROVE  \E i \in 1..Len(v) : v[i] = Frame("DATA", c, k)
  <2>1. PICK i \in 1..Len(w) : w[i] = Frame("DATA", c, k)
    BY DEF Line
  <2>2. w[i].kind = "DATA" /\ w[i].conn = c
    BY <2>1 DEF Frame
  <2>3. i - 1 \in 1..Len(v) /\ i = (i - 1) + 1
    BY <1>1, <2>2
  <2> QED
    BY <1>2, <2>1, <2>3
<1>5. \A i, j \in 1..Len(v) :
        i < j /\ v[i].kind = "DATA" /\ v[j].kind = "DATA" /\ v[i].conn = c /\ v[j].conn = c
          => v[i].chunk < v[j].chunk
  BY <1>2 DEF Line
<1> QED
  BY <1>3, <1>4, <1>5 DEF Line, v

\* The chunk of c at the head of the wire is the first of its line.
LEMMA LineShorter ==
  ASSUME NEW w \in Seq(Frames), 1 \in 1..Len(w), NEW c, w[1].conn = c, w[1].kind = "DATA",
         NEW lo, NEW hi \in Nat, Line(w, c, lo, hi)
  PROVE  w[1].chunk = lo + 1 /\ Line(RemoveAt(w, 1), c, lo + 1, hi)
<1> DEFINE v == RemoveAt(w, 1)
<1>1. /\ Len(v) = Len(w) - 1 /\ Len(w) \in Nat
      /\ \A i \in 1..Len(w) - 1 : v[i] = w[i + 1]
  BY Taken
<1> HIDE DEF v
<1>2. \A i \in 1..Len(v) : i + 1 \in 1..Len(w) /\ v[i] = w[i + 1]
  BY <1>1
<1>3. w[1].chunk \in lo + 1..hi /\ lo \in 0..hi
  BY DEF Line
<1>4. w[1].chunk = lo + 1
  <2>1. PICK i \in 1..Len(w) : w[i] = Frame("DATA", c, lo + 1)
    BY <1>3 DEF Line
  <2>2. w[i].kind = "DATA" /\ w[i].conn = c /\ w[i].chunk = lo + 1
    BY <2>1 DEF Frame
  <2>3. i = 1 \/ w[1].chunk < w[i].chunk
    BY <2>2 DEF Line
  <2> QED
    BY <1>3, <2>2, <2>3
<1>5. \A i \in 1..Len(v) : v[i].kind = "DATA" /\ v[i].conn = c =>
        v[i].chunk \in lo + 2..hi
  <2> SUFFICES ASSUME NEW i \in 1..Len(v), v[i].kind = "DATA", v[i].conn = c
               PROVE  v[i].chunk \in lo + 2..hi
    OBVIOUS
  <2>1. w[i + 1].chunk \in lo + 1..hi
    BY <1>2 DEF Line
  <2>2. w[1].chunk < w[i + 1].chunk
    BY <1>2 DEF Line
  <2> QED
    BY <1>2, <1>3, <1>4, <2>1, <2>2
<1>6. ASSUME NEW k \in lo + 2..hi
      PROVE  \E i \in 1..Len(v) : v[i] = Frame("DATA", c, k)
  <2>1. PICK i \in 1..Len(w) : w[i] = Frame("DATA", c, k)
    BY <1>3 DEF Line
  <2>2. w[i].chunk = k
    BY <2>1 DEF Frame
  <2>3. i # 1
    BY <1>3, <1>4, <2>2
  <2>4. i - 1 \in 1..Len(v) /\ i = (i - 1) + 1
    BY <1>1, <2>3
  <2> QED
    BY <1>2, <2>1, <2>4
<1>7. ASSUME NEW i \in 1..Len(v), NEW j \in 1..Len(v), i < j,
             v[i].kind = "DATA", v[j].kind = "DATA", v[i].conn = c, v[j].conn = c
      PROVE  v[i].chunk < v[j].chunk
  <2>1. i + 1 < j + 1 /\ i + 1 \in 1..Len(w) /\ j + 1 \in 1..Len(w)
    BY <1>1, <1>2, <1>7
  <2>2. /\ w[i + 1].kind = "DATA" /\ w[j + 1].kind = "DATA"
        /\ w[i + 1].conn = c /\ w[j + 1].conn = c
    BY <1>2, <1>7
  <2>3. w[i + 1].chunk < w[j + 1].chunk
    BY <2>1, <2>2 DEF Line
  <2> QED
    BY <1>2, <2>3
<1>8. lo + 1 \in 0..hi /\ (lo + 1) + 1 = lo + 2
  BY <1>3
<1>9. Line(v, c, lo + 1, hi)
  BY <1>5, <1>6, <1>7, <1>8 DEF Line
<1> QED
  BY <1>4, <1>9 DEF v

\* What the taking of a frame leaves of the announcement of c and its place.
LEMMA ConnectTaken ==
  ASSUME NEW w \in Seq(Frames), 1 \in 1..Len(w), NEW c
  PROVE  /\ Announced(w, c) /\ w[1] # Frame("CONNECT", c, 0) => Announced(RemoveAt(w, 1), c)
         /\ AfterConnect(w, c) /\ w[1] # Frame("CONNECT", c, 0)
              => AfterConnect(RemoveAt(w, 1), c)
         /\ Silent(w, c) => Silent(RemoveAt(w, 1), c)
<1> DEFINE v == RemoveAt(w, 1)
<1>1. /\ Len(v) = Len(w) - 1 /\ Len(w) \in Nat
      /\ \A i \in 1..Len(w) - 1 : v[i] = w[i + 1]
  BY Taken
<1> HIDE DEF v
<1>2. \A i \in 1..Len(v) : i + 1 \in 1..Len(w) /\ v[i] = w[i + 1]
  BY <1>1
<1>3. ASSUME NEW k \in 1..Len(w) + 1, NEW j \in 1..k - 1, j <= Len(w),
             w[j] = Frame("CONNECT", c, 0), w[1] # Frame("CONNECT", c, 0)
      PROVE  j - 1 \in 1..k - 2 /\ j - 1 \in 1..Len(v) /\ v[j - 1] = Frame("CONNECT", c, 0)
  <2>1. j # 1
    BY <1>3
  <2>2. j - 1 \in 1..k - 2 /\ j - 1 \in 1..Len(v) /\ (j - 1) + 1 = j
    BY <1>1, <1>3, <2>1
  <2> QED
    BY <1>2, <1>3, <2>2
<1>4. Announced(w, c) /\ w[1] # Frame("CONNECT", c, 0) => Announced(v, c)
  <2> SUFFICES ASSUME w[1] # Frame("CONNECT", c, 0),
                      NEW j \in 1..Len(w), w[j] = Frame("CONNECT", c, 0)
               PROVE  Announced(v, c)
    BY DEF Announced
  <2>1. Len(w) + 1 \in 1..Len(w) + 1 /\ j \in 1..(Len(w) + 1) - 1
    BY <1>1
  <2> QED
    BY <1>3, <2>1 DEF Announced
<1>5. AfterConnect(w, c) /\ w[1] # Frame("CONNECT", c, 0) => AfterConnect(v, c)
  <2> SUFFICES ASSUME AfterConnect(w, c), w[1] # Frame("CONNECT", c, 0),
                      NEW i \in 1..Len(v), v[i].kind = "DATA", v[i].conn = c
               PROVE  \E j \in 1..i - 1 : v[j] = Frame("CONNECT", c, 0)
    BY DEF AfterConnect
  <2>1. PICK j \in 1..(i + 1) - 1 : w[j] = Frame("CONNECT", c, 0)
    BY <1>2 DEF AfterConnect
  <2>2. i + 1 \in 1..Len(w) + 1 /\ j <= Len(w) /\ (i + 1) - 2 = i - 1
    BY <1>1
  <2>3. j - 1 \in 1..(i + 1) - 2 /\ v[j - 1] = Frame("CONNECT", c, 0)
    BY <1>3, <2>1, <2>2
  <2> QED
    BY <2>2, <2>3
<1>6. Silent(w, c) => Silent(v, c)
  BY <1>2 DEF Silent
<1> QED
  BY <1>4, <1>5, <1>6 DEF v

------------------------------------------------------------------------------------
(* The types *)

\* A frame of the relay is a frame.
LEMMA FrameTyped ==
  ASSUME NEW kind \in {"CONNECT", "DATA", "CLOSE"}, NEW c \in Conns, NEW n \in 0..MaxChunks
  PROVE  /\ Frame(kind, c, n) \in Frames
         /\ Frame(kind, c, n).kind = kind /\ Frame(kind, c, n).conn = c
         /\ Frame(kind, c, n).chunk = n
BY DEF Frame, Frames

\* A wire stays one when a frame is appended.
LEMMA WiredAppended ==
  ASSUME NEW w, Wired(w), NEW f \in Frames, f.kind = "DATA" => f.chunk # 0
  PROVE  Wired(Append(w, f))
<1>1. w \in Seq(Frames)
  BY DEF Wired
<1>2. /\ Append(w, f) \in Seq(Frames) /\ Len(Append(w, f)) = Len(w) + 1 /\ Len(w) \in Nat
      /\ \A i \in 1..Len(w) : Append(w, f)[i] = w[i]
      /\ Append(w, f)[Len(w) + 1] = f
  BY <1>1, Appended
<1>3. ASSUME NEW i \in 1..Len(w) + 1, Append(w, f)[i].kind = "DATA"
      PROVE  Append(w, f)[i].chunk # 0
  <2>1. i \in 1..Len(w) \/ i = Len(w) + 1
    BY <1>2
  <2> QED
    BY <1>2, <1>3, <2>1 DEF Wired
<1> QED
  BY <1>2, <1>3 DEF Wired

\* In particular with a frame of the relay.
LEMMA FrameAppended ==
  ASSUME NEW w, Wired(w), NEW kind \in {"CONNECT", "DATA", "CLOSE"}, NEW c \in Conns,
         NEW n \in 0..MaxChunks, kind = "DATA" => n # 0
  PROVE  Wired(Append(w, Frame(kind, c, n)))
<1> DEFINE f == Frame(kind, c, n)
<1>1. f \in Frames /\ f.kind = kind /\ f.chunk = n
  BY FrameTyped
<1> HIDE DEF f
<1>2. Wired(Append(w, f))
  BY <1>1, WiredAppended
<1> QED
  BY <1>2 DEF f

\* What is on a wire belongs to a connection.
LEMMA FrameOf ==
  ASSUME NEW w \in Seq(Frames), NEW i \in 1..Len(w)
  PROVE  w[i] \in Frames /\ w[i].conn \in Conns
<1>1. w[i] \in Frames
  BY ElementOfSeq
<1> QED
  BY <1>1 DEF Frames

\* Any frame can be taken.
LEMMA WiredTaken ==
  ASSUME NEW w, Wired(w), NEW i \in 1..Len(w)
  PROVE  /\ Wired(RemoveAt(w, i)) /\ w[i] \in Frames
         /\ \A j \in 1..Len(RemoveAt(w, i)) : \E k \in 1..Len(w) : RemoveAt(w, i)[j] = w[k]
<1>1. w \in Seq(Frames)
  BY DEF Wired
<1>2. /\ RemoveAt(w, i) \in Seq(Frames) /\ Len(RemoveAt(w, i)) = Len(w) - 1
      /\ \A j \in 1..Len(w) - 1 : RemoveAt(w, i)[j] = IF j < i THEN w[j] ELSE w[j + 1]
  BY <1>1, TakenOut
<1>3. Len(w) \in Nat /\ w[i] \in Frames
  BY <1>1, LenProperties, ElementOfSeq
<1>4. ASSUME NEW j \in 1..Len(w) - 1
      PROVE  \E k \in 1..Len(w) : RemoveAt(w, i)[j] = w[k]
  <2>1. j \in 1..Len(w) /\ j + 1 \in 1..Len(w)
    BY <1>3
  <2> QED
    BY <1>2, <2>1
<1>5. \A j \in 1..Len(w) - 1 : RemoveAt(w, i)[j].kind = "DATA" => RemoveAt(w, i)[j].chunk # 0
  BY <1>4 DEF Wired
<1> QED
  BY <1>2, <1>3, <1>4, <1>5 DEF Wired

\* Two frames at once are two frames one after the other.
LEMMA TwoAppended ==
  ASSUME NEW w \in Seq(Frames), NEW f \in Frames, NEW g \in Frames
  PROVE  w \o <<f, g>> = Append(Append(w, f), g)
<1>1. <<f>> \in Seq(Frames) /\ <<g>> \in Seq(Frames)
  OBVIOUS
<1>2. <<f, g>> \in Seq(Frames)
  OBVIOUS
<1>3. <<f>> \o <<g>> = <<f, g>>
  <2>1. /\ <<f>> \o <<g>> \in Seq(Frames) /\ Len(<<f>> \o <<g>>) = 2
        /\ \A i \in 1..2 : (<<f>> \o <<g>>)[i] = IF i <= 1 THEN <<f>>[i] ELSE <<g>>[i - 1]
    BY <1>1, ConcatProperties
  <2>2. \A i \in 1..2 : (<<f>> \o <<g>>)[i] = <<f, g>>[i]
    BY <2>1
  <2> QED
    BY <1>2, <2>1, <2>2, SeqEqual
<1>4. Append(w, f) = w \o <<f>> /\ Append(w, f) \in Seq(Frames)
  BY AppendIsConcat, AppendProperties
<1>5. Append(Append(w, f), g) = (w \o <<f>>) \o <<g>>
  BY <1>4, AppendIsConcat
<1>6. (w \o <<f>>) \o <<g>> = w \o (<<f>> \o <<g>>)
  BY <1>1, ConcatAssociative
<1> QED
  BY <1>5, <1>3, <1>6

\* Every step keeps the types.
LEMMA TypesStep ==
  ASSUME Inv, Next
  PROVE  Types'
<1> USE DEF clientVars, tableVars, remoteVars
<1>0. Types
  BY DEF Inv
<1>1. ASSUME NEW c \in Conns, Open(c)
      PROVE  Types'
  <2>1. Wired(up')
    BY <1>0, <1>1, FrameAppended DEF Types, Open
  <2> QED
    BY <1>0, <1>1, <2>1 DEF Types, Open, Wired
<1>2. ASSUME NEW c \in Conns, OpenHttp(c)
      PROVE  Types'
  <2>1. 1 \in 0..MaxChunks
    BY <1>0, <1>2 DEF Types, OpenHttp
  <2>2. up \in Seq(Frames)
    BY <1>0 DEF Types, Wired
  <2>3. up' = Append(Append(up, Frame("CONNECT", c, 0)), Frame("DATA", c, 1))
    BY <1>2, <2>1, <2>2, FrameTyped, TwoAppended DEF OpenHttp
  <2>4. PICK w : w = Append(up, Frame("CONNECT", c, 0))
    OBVIOUS
  <2>5. Wired(up')
    <3>1. Wired(w)
      BY <1>0, <2>4, FrameAppended DEF Types
    <3>2. Wired(Append(w, Frame("DATA", c, 1)))
      BY <2>1, <3>1, FrameAppended
    <3> QED
      BY <2>3, <2>4, <3>2
  <2> QED
    BY <1>0, <1>2, <2>1, <2>5 DEF Types, OpenHttp, Wired
<1>3. ASSUME NEW c \in Conns, Refuse(c) \/ HandlerEnds(c)
      PROVE  Types'
  <2>0. up' = Append(up, Frame("CLOSE", c, 0))
    BY <1>3 DEF Refuse, HandlerEnds
  <2>1. Wired(up')
    BY <1>0, <2>0, FrameAppended DEF Types
  <2> QED
    BY <1>0, <1>3, <2>1 DEF Types, Refuse, HandlerEnds, Wired
<1>4. ASSUME NEW c \in Conns, Send(c)
      PROVE  Types'
  <2>1. sent[c] + 1 \in 0..MaxChunks /\ sent[c] + 1 # 0
    BY <1>0, <1>4 DEF Types, Send
  <2>2. Wired(up')
    BY <1>0, <1>4, <2>1, FrameAppended DEF Types, Send
  <2> QED
    BY <1>0, <1>4, <2>1, <2>2 DEF Types, Send, Wired
<1>5. ASSUME NEW i \in 1..Len(down), ReceiveDown(i)
      PROVE  Types'
  <2>1. Wired(down') /\ down[i] \in Frames
    BY <1>0, <1>5, WiredTaken DEF Types, ReceiveDown
  <2>2. down[i].conn \in Conns /\ (down[i].kind = "DATA" => down[i].chunk \in Chunks)
    <3>1. down[i].conn \in Conns /\ down[i].chunk \in 0..MaxChunks
      BY <2>1 DEF Frames
    <3>2. down[i].kind = "DATA" => down[i].chunk # 0
      BY <1>0 DEF Types, Wired
    <3> QED
      BY <3>1, <3>2 DEF Chunks
  <2>3. app' \in [Conns -> {"idle", "open", "closing", "closed"}]
    BY <1>0, <1>5, <2>2 DEF Types, ReceiveDown
  <2>4. fed' \in [Conns -> Seq(Chunks)]
    BY <1>0, <1>5, <2>2, AppendProperties DEF Types, ReceiveDown
  <2> QED
    BY <1>0, <1>5, <2>1, <2>3, <2>4 DEF Types, ReceiveDown, Wired
<1>6. ASSUME NEW i \in 1..Len(up), ReceiveUp(i)
      PROVE  Types'
  <2>1. Wired(up') /\ up[i] \in Frames
    BY <1>0, <1>6, WiredTaken DEF Types, ReceiveUp
  <2>2. up[i].conn \in Conns /\ (up[i].kind = "DATA" => up[i].chunk \in Chunks)
    <3>1. up[i].conn \in Conns /\ up[i].chunk \in 0..MaxChunks
      BY <2>1 DEF Frames
    <3>2. up[i].kind = "DATA" => up[i].chunk # 0
      BY <1>0 DEF Types, Wired
    <3> QED
      BY <3>1, <3>2 DEF Chunks
  <2>3. UNCHANGED <<transport, clientVars, down, sessionOpen>>
    BY <1>6 DEF ReceiveUp
  <2>4. CASE UNCHANGED <<tableVars, remoteVars>>
    BY <1>0, <2>1, <2>3, <2>4 DEF Types, Wired
  <2>5. CASE ReceiveConnect(up[i])
    <3>1. <<>> \in Seq(Chunks)
      OBVIOUS
    <3> QED
      BY <1>0, <2>1, <2>2, <2>3, <2>5, <3>1 DEF Types, Wired, ReceiveConnect
  <2>6. CASE ReceiveData(up[i])
    <3>1. arrived' \in [Conns -> Seq(Chunks)]
      BY <1>0, <2>2, <2>6, AppendProperties DEF Types, ReceiveData
    <3>2. pending' \in [Conns -> Seq(Chunks) \cup {NoBuffer}]
      BY <1>0, <2>2, <2>6, AppendProperties DEF Types, ReceiveData
    <3> QED
      BY <1>0, <2>1, <2>3, <2>6, <3>1, <3>2 DEF Types, Wired, ReceiveData
  <2>7. CASE ReceiveClose(up[i])
    BY <1>0, <2>1, <2>2, <2>3, <2>7 DEF Types, Wired, ReceiveClose
  <2> QED
    BY <1>6, <2>4, <2>5, <2>6, <2>7 DEF ReceiveUp
<1>7. CASE CloseSession
  BY <1>0, <1>7 DEF Types, CloseSession, Wired
<1>8. ASSUME NEW c \in Conns, Dialed(c)
      PROVE  Types'
  <2>1. arrived' \in [Conns -> Seq(Chunks)]
    BY <1>0, <1>8, ConcatProperties DEF Types, Dialed, Flush
  <2> QED
    BY <1>0, <1>8, <2>1 DEF Types, Dialed, Wired
<1>9. ASSUME NEW c \in Conns, Pipe(c)
      PROVE  Types'
  <2>1. answered[c] + 1 \in 0..MaxChunks /\ answered[c] + 1 # 0
    BY <1>0, <1>9 DEF Types, Pipe
  <2>2. Wired(down')
    BY <1>0, <1>9, <2>1, FrameAppended DEF Types, Pipe
  <2> QED
    BY <1>0, <1>9, <2>1, <2>2 DEF Types, Pipe, Wired
<1>10. ASSUME NEW c \in Conns, TaskEnds(c)
       PROVE  Types'
  <2>1. Wired(down')
    BY <1>0, <1>10, FrameAppended DEF Types, TaskEnds
  <2> QED
    BY <1>0, <1>10, <2>1 DEF Types, TaskEnds, Wired
<1>11. ASSUME NEW i \in 1..Len(up), LoseUp(i)
       PROVE  Types'
  <2>1. Wired(up')
    BY <1>0, <1>11, WiredTaken DEF Types, LoseUp
  <2> QED
    BY <1>0, <1>11, <2>1 DEF Types, LoseUp, Wired
<1>12. ASSUME NEW i \in 1..Len(down), LoseDown(i)
       PROVE  Types'
  <2>1. Wired(down')
    BY <1>0, <1>12, WiredTaken DEF Types, LoseDown
  <2> QED
    BY <1>0, <1>12, <2>1 DEF Types, LoseDown, Wired
<1> QED
  BY <1>1, <1>2, <1>3, <1>4, <1>5, <1>6, <1>7, <1>8, <1>9, <1>10, <1>11, <1>12
     DEF Next, DeliverUp, DeliverDown, Deliverable, DialFails, RemoteCloses, ReadEnds

------------------------------------------------------------------------------------
(* The tables of the server *)

\* A step of the server changes the entries, the buffer and the socket of a connection
\* together.
LEMMA TablesStep ==
  ASSUME Inv, Next
  PROVE  Tables'
<1> USE DEF clientVars, tableVars, remoteVars
<1>0. Types /\ Tables /\ Protocol
  BY DEF Inv
<1>1. CASE UNCHANGED <<connecting, pending, streams, task, remote>>
  BY <1>0, <1>1 DEF Tables
<1>2. ASSUME NEW i \in 1..Len(up), ReceiveUp(i)
      PROVE  Tables'
  <2>1. up[i] \in Frames /\ Told(up[i])
    BY <1>0, WiredTaken DEF Types, Protocol
  <2>2. PICK f \in Frames : f = up[i]
    BY <2>1
  <2>3. f.conn \in Conns
    BY DEF Frames
  <2>4. CASE ReceiveConnect(f)
    <3>1. task[f.conn] = "none"
      BY <2>1, <2>2, <2>4 DEF ReceiveConnect, Told
    <3>2. f.conn \notin streams
      BY <1>0, <3>1 DEF Tables
    <3>3. pending' = [pending EXCEPT ![f.conn] = <<>>] /\ <<>> # NoBuffer
      <4>1. <<>> \in Seq(Nat)
        OBVIOUS
      <4> QED
        BY <2>4, <4>1 DEF ReceiveConnect
    <3>4. connecting' = {c \in Conns : pending'[c] # NoBuffer}
      BY <1>0, <2>3, <2>4, <3>3 DEF Types, Tables, ReceiveConnect
    <3> QED
      BY <1>0, <2>3, <2>4, <3>2, <3>4 DEF Types, Tables, ReceiveConnect
  <2>5. CASE ReceiveData(f)
    <3>1. ASSUME NEW c \in Conns
          PROVE  pending'[c] # NoBuffer <=> pending[c] # NoBuffer
      <4>1. CASE pending' = pending
        BY <4>1
      <4>2. CASE /\ pending[f.conn] # NoBuffer
                 /\ pending' = [pending EXCEPT ![f.conn] = Append(@, f.chunk)]
        <5>1. /\ pending[f.conn] \in Seq(Chunks) /\ f.chunk \in Nat
              /\ \A d \in Chunks : d \in Nat
          BY <1>0, <2>3, <4>2 DEF Types, Frames, Chunks
        <5>2. pending[f.conn] \in Seq(Nat)
          BY <5>1, SeqMonotonic
        <5>3. Append(pending[f.conn], f.chunk) # NoBuffer
          <6>1. Append(pending[f.conn], f.chunk) \in Seq(Nat)
            BY <5>1, <5>2, AppendProperties
          <6> QED
            BY <6>1
        <5> QED
          BY <1>0, <2>3, <4>2, <5>3 DEF Types
      <4> QED
        BY <2>5, <4>1, <4>2 DEF ReceiveData
    <3>2. UNCHANGED <<connecting, streams, task, remote>>
      BY <2>5 DEF ReceiveData
    <3> QED
      BY <1>0, <3>1, <3>2 DEF Tables
  <2>6. CASE ReceiveClose(f)
    <3>1. /\ connecting' = connecting \ {f.conn} /\ streams' = streams \ {f.conn}
          /\ pending' = [pending EXCEPT ![f.conn] = NoBuffer] /\ task' = task
      BY <2>6 DEF ReceiveClose
    <3>2. connecting' = {c \in Conns : pending'[c] # NoBuffer}
      BY <1>0, <3>1 DEF Types, Tables
    <3>3. ASSUME NEW c \in Conns
          PROVE  remote'[c] = "open" <=> remote[c] = "open" /\ c # f.conn
      BY <1>0, <2>3, <2>6 DEF Types, Tables, ReceiveClose
    <3> QED
      BY <1>0, <3>1, <3>2, <3>3 DEF Tables
  <2> QED
    BY <1>1, <1>2, <2>2, <2>4, <2>5, <2>6 DEF ReceiveUp
<1>3. CASE CloseSession
  BY <1>0, <1>3 DEF Types, Tables, CloseSession
<1>4. ASSUME NEW c \in Conns, Dialed(c)
      PROVE  Tables'
  BY <1>0, <1>4 DEF Types, Tables, Dialed
<1>5. ASSUME NEW c \in Conns, TaskEnds(c)
      PROVE  Tables'
  BY <1>0, <1>5 DEF Types, Tables, TaskEnds
<1>6. ASSUME NEW c \in Conns, Open(c) \/ OpenHttp(c) \/ Refuse(c) \/ Send(c) \/ HandlerEnds(c)
                              \/ Pipe(c)
      PROVE  UNCHANGED <<connecting, pending, streams, task, remote>>
  BY <1>6 DEF Open, OpenHttp, Refuse, Send, HandlerEnds, Pipe
<1>7. ASSUME NEW i, ReceiveDown(i) \/ LoseUp(i) \/ LoseDown(i)
      PROVE  UNCHANGED <<connecting, pending, streams, task, remote>>
  BY <1>7 DEF ReceiveDown, LoseUp, LoseDown
<1> QED
  BY <1>1, <1>2, <1>3, <1>4, <1>5, <1>6, <1>7
     DEF Next, DeliverUp, DeliverDown, Deliverable, DialFails, RemoteCloses, ReadEnds

------------------------------------------------------------------------------------
(* What is said of a connection, and in which order *)

\* A frame keeps the order of a wire if nothing after the end is said and the announcement
\* comes first.
LEMMA OrderlyAppended ==
  ASSUME NEW w \in Seq(Frames), Orderly(w), NEW f \in Frames,
         \/ Silent(w, f.conn)
         \/ f.kind # "CONNECT" /\ \A i \in 1..Len(w) : w[i].kind = "CLOSE" => w[i].conn # f.conn
  PROVE  Orderly(Append(w, f))
<1> DEFINE v == Append(w, f)
<1>1. /\ Len(v) = Len(w) + 1 /\ Len(w) \in Nat
      /\ \A i \in 1..Len(w) : v[i] = w[i]
      /\ v[Len(w) + 1] = f
  BY Appended
<1> HIDE DEF v
<1>2. ASSUME NEW i \in 1..Len(v), NEW j \in 1..Len(v), i < j, v[i].conn = v[j].conn
      PROVE  v[j].kind # "CONNECT" /\ v[i].kind # "CLOSE"
  <2>1. i \in 1..Len(w) /\ v[i] = w[i]
    BY <1>1, <1>2
  <2>2. CASE j \in 1..Len(w)
    BY <1>1, <1>2, <2>1, <2>2 DEF Orderly
  <2>3. CASE j = Len(w) + 1
    BY <1>1, <1>2, <2>1, <2>3 DEF Silent
  <2> QED
    BY <1>1, <2>2, <2>3
<1>3. Orderly(v)
  BY <1>2 DEF Orderly
<1> QED
  BY <1>3 DEF v

\* Taking a frame keeps the order of the others; after an announcement there is no other.
LEMMA OrderlyTaken ==
  ASSUME NEW w \in Seq(Frames), Orderly(w), NEW i \in 1..Len(w)
  PROVE  /\ Orderly(RemoveAt(w, i))
         /\ w[i].kind = "CONNECT" => \A j \in 1..Len(RemoveAt(w, i)) :
              RemoveAt(w, i)[j].kind = "CONNECT" => RemoveAt(w, i)[j].conn # w[i].conn
<1> DEFINE v == RemoveAt(w, i)
           at(j) == IF j < i THEN j ELSE j + 1
<1>1. /\ Len(v) = Len(w) - 1 /\ Len(w) \in Nat
      /\ \A j \in 1..Len(w) - 1 : v[j] = IF j < i THEN w[j] ELSE w[j + 1]
  BY TakenOut, LenProperties
<1> HIDE DEF v
<1>2. \A j \in 1..Len(v) : at(j) \in 1..Len(w) /\ at(j) # i /\ v[j] = w[at(j)]
  BY <1>1
<1>3. \A j, k \in 1..Len(v) : j < k => at(j) < at(k)
  BY <1>1
<1> HIDE DEF at
<1>4. ASSUME NEW j \in 1..Len(v), NEW k \in 1..Len(v), j < k, v[j].conn = v[k].conn
      PROVE  v[k].kind # "CONNECT" /\ v[j].kind # "CLOSE"
  <2>1. at(j) \in 1..Len(w) /\ at(k) \in 1..Len(w) /\ at(j) < at(k)
    BY <1>2, <1>3, <1>4
  <2>2. w[at(j)].conn = w[at(k)].conn
    BY <1>2, <1>4
  <2>3. w[at(k)].kind # "CONNECT" /\ w[at(j)].kind # "CLOSE"
    BY <2>1, <2>2 DEF Orderly
  <2> QED
    BY <1>2, <2>3
<1>5. Orderly(v)
  BY <1>4 DEF Orderly
<1>6. ASSUME w[i].kind = "CONNECT", NEW j \in 1..Len(v), v[j].kind = "CONNECT",
             v[j].conn = w[i].conn
      PROVE  FALSE
  <2>1. at(j) \in 1..Len(w) /\ at(j) # i /\ v[j] = w[at(j)]
    BY <1>2
  <2>2. at(j) < i \/ i < at(j)
    BY <1>1, <2>1
  <2> QED
    BY <1>6, <2>1, <2>2 DEF Orderly
<1> QED
  BY <1>5, <1>6 DEF v

\* The gateway has said nothing of an idle connection, and not the end of a live one.
LEMMA NotYetTold ==
  ASSUME Inv, NEW c \in Conns
  PROVE  /\ app[c] = "idle" => Silent(up, c)
         /\ app[c] # "closed" => \A i \in 1..Len(up) : up[i].kind = "CLOSE" => up[i].conn # c
BY DEF Inv, Protocol, Told, Silent

\* A step that appends one frame about c, or two, keeps the protocol.
LEMMA GatewayTells ==
  ASSUME Inv, NEW c \in Conns, NEW f \in Frames, NEW w \in Seq(Frames),
         f.conn = c, Told(f)', up' = Append(w, f),
         \A i \in 1..Len(w) : Told(w[i])',
         Orderly(w), Silent(w, c) \/ (f.kind # "CONNECT" /\ \A i \in 1..Len(w) :
                                       w[i].kind = "CLOSE" => w[i].conn # c),
         \A d \in Conns : app'[d] = "idle" => app[d] = "idle" /\ sent'[d] = sent[d],
         task' = task
  PROVE  Protocol'
<1>1. PICK v : v = Append(w, f)
  OBVIOUS
<1>2. /\ Len(v) = Len(w) + 1 /\ Len(w) \in Nat
      /\ \A i \in 1..Len(w) : v[i] = w[i]
      /\ v[Len(w) + 1] = f
  BY <1>1, Appended
<1>3. ASSUME NEW i \in 1..Len(v)
      PROVE  Told(v[i])'
  <2>1. CASE i \in 1..Len(w)
    <3>1. v[i] = w[i] /\ Told(w[i])'
      BY <1>2, <2>1
    <3> QED
      BY <3>1 DEF Told
  <2>2. CASE i = Len(w) + 1
    <3>1. v[i] = f
      BY <1>2, <2>2
    <3> QED
      BY <3>1 DEF Told
  <2> QED
    BY <1>2, <2>1, <2>2
<1>4. Orderly(v)
  BY <1>1, OrderlyAppended
<1>5. \A d \in Conns : app'[d] = "idle" => task'[d] = "none" /\ sent'[d] = 0
  BY DEF Inv, Protocol
<1> QED
  BY <1>1, <1>3, <1>4, <1>5 DEF Protocol, Told, Orderly

\* A step that takes a frame, or none, and does not make a connection idle.
LEMMA OthersTell ==
  ASSUME Inv, NEW v \in Seq(Frames), up' = v, Orderly(v),
         \A i \in 1..Len(v) : \E k \in 1..Len(up) : v[i] = up[k],
         \A d \in Conns : /\ app'[d] = "idle" => app[d] = "idle" /\ task'[d] = task[d]
                          /\ app[d] = "idle" => app'[d] = "idle"
                          /\ app[d] = "closed" => app'[d] = "closed",
         sent' = sent,
         \A i \in 1..Len(v) : v[i].kind = "CONNECT" => task'[v[i].conn] = task[v[i].conn],
         \A i \in 1..Len(v) : app'[v[i].conn] = "idle" => app[v[i].conn] = "idle"
  PROVE  Protocol'
<1>1. ASSUME NEW i \in 1..Len(v)
      PROVE  Told(v[i])'
  <2>1. Told(v[i]) /\ v[i].conn \in Conns
    BY FrameOf DEF Inv, Protocol
  <2> QED
    BY <2>1 DEF Told
<1>2. \A d \in Conns : app'[d] = "idle" => task'[d] = "none" /\ sent'[d] = 0
  BY DEF Inv, Protocol
<1> QED
  BY <1>1, <1>2 DEF Protocol, Told, Orderly

\* The gateway announces a connection once and says its end last; the server dials once.
LEMMA ProtocolStep ==
  ASSUME Inv, Next
  PROVE  Protocol'
<1> USE DEF clientVars, tableVars, remoteVars
<1>0. Types /\ Tables /\ Protocol /\ up \in Seq(Frames) /\ Orderly(up)
  BY DEF Inv, Types, Wired, Protocol
<1>1. ASSUME NEW c \in Conns, app'[c] # "idle", app[c] = "closed" => app'[c] = "closed",
             app' = [app EXCEPT ![c] = app'[c]], task' = task
      PROVE  /\ \A i \in 1..Len(up) : Told(up[i]) => \A w : w = up => Told(w[i])'
             /\ \A d \in Conns : app'[d] = "idle" => app[d] = "idle" /\ d # c
  <2>1. \A d \in Conns : /\ app[d] # "idle" => app'[d] # "idle"
                         /\ app[d] = "closed" => app'[d] = "closed"
    BY <1>0, <1>1 DEF Types
  <2>2. \A i \in 1..Len(up) : up[i].conn \in Conns
    BY <1>0, FrameOf
  <2> QED
    BY <1>0, <1>1, <2>1, <2>2 DEF Told, Types
<1>2. PICK w : w = up
  OBVIOUS
<1>3. ASSUME NEW c \in Conns, Open(c)
      PROVE  Protocol'
  <2>1. PICK f \in Frames : /\ f = Frame("CONNECT", c, 0) /\ f.kind = "CONNECT" /\ f.conn = c
    BY FrameTyped
  <2>2. /\ app'[c] = "open" /\ app' = [app EXCEPT ![c] = app'[c]] /\ task' = task
        /\ up' = Append(w, f) /\ app[c] = "idle" /\ sent' = sent
    BY <1>0, <1>2, <1>3, <2>1 DEF Types, Open
  <2>3. \A i \in 1..Len(w) : Told(w[i])'
    BY <1>0, <1>1, <1>2, <2>2 DEF Protocol
  <2>4. Told(f)'
    BY <1>0, <2>1, <2>2 DEF Told, Protocol
  <2> QED
    BY <1>0, <1>1, <1>2, <2>1, <2>2, <2>3, <2>4, NotYetTold, GatewayTells
<1>4. ASSUME NEW c \in Conns, OpenHttp(c)
      PROVE  Protocol'
  <2>1. PICK f \in Frames : /\ f = Frame("CONNECT", c, 0) /\ f.kind = "CONNECT" /\ f.conn = c
    BY FrameTyped
  <2>2. PICK g \in Frames : /\ g = Frame("DATA", c, 1) /\ g.kind = "DATA" /\ g.conn = c
    <3>1. 1 \in 0..MaxChunks
      BY <1>0, <1>4 DEF Types, OpenHttp
    <3> QED
      BY <3>1, FrameTyped
  <2>3. PICK v \in Seq(Frames) : v = Append(up, f)
    BY <1>0, Appended
  <2>4. /\ app'[c] = "open" /\ app' = [app EXCEPT ![c] = app'[c]] /\ task' = task
        /\ up' = Append(v, g) /\ app[c] = "idle"
        /\ \A d \in Conns \ {c} : sent'[d] = sent[d]
    BY <1>0, <1>4, <2>1, <2>2, <2>3, TwoAppended DEF Types, OpenHttp
  <2>5. Orderly(v)
    BY <1>0, <2>1, <2>3, <2>4, NotYetTold, OrderlyAppended
  <2>6. Told(f)' /\ Told(g)'
    BY <1>0, <2>1, <2>2, <2>4 DEF Told, Protocol
  <2>7. /\ Len(v) = Len(w) + 1 /\ Len(w) \in Nat
        /\ \A i \in 1..Len(w) : v[i] = w[i]
        /\ v[Len(w) + 1] = f
    BY <1>0, <1>2, <2>3, Appended
  <2>8. \A i \in 1..Len(w) : Told(w[i])'
    BY <1>0, <1>1, <1>2, <2>4 DEF Protocol
  <2>9. ASSUME NEW i \in 1..Len(v)
        PROVE  Told(v[i])' /\ (v[i].kind = "CLOSE" => v[i].conn # c)
    <3>1. CASE i \in 1..Len(w)
      <4>1. v[i] = w[i] /\ Told(w[i])' /\ w[i].conn # c
        BY <1>2, <2>4, <2>7, <2>8, <3>1, NotYetTold DEF Silent
      <4> QED
        BY <4>1 DEF Told
    <3>2. CASE i = Len(w) + 1
      <4>1. v[i] = f
        BY <2>7, <3>2
      <4> QED
        BY <2>1, <2>6, <4>1 DEF Told
    <3> QED
      BY <2>7, <3>1, <3>2
  <2> QED
    BY <1>1, <2>2, <2>4, <2>5, <2>6, <2>9, GatewayTells
<1>5. ASSUME NEW c \in Conns, Refuse(c) \/ HandlerEnds(c)
      PROVE  Protocol'
  <2>1. PICK f \in Frames : /\ f = Frame("CLOSE", c, 0) /\ f.kind = "CLOSE" /\ f.conn = c
    BY FrameTyped
  <2>2. /\ app'[c] = "closed" /\ app' = [app EXCEPT ![c] = app'[c]] /\ task' = task
        /\ up' = Append(w, f) /\ app[c] # "closed" /\ sent' = sent
    BY <1>0, <1>2, <1>5, <2>1 DEF Types, Refuse, HandlerEnds
  <2>3. \A i \in 1..Len(w) : Told(w[i])'
    BY <1>0, <1>1, <1>2, <2>2 DEF Protocol
  <2>4. Told(f)'
    BY <1>0, <2>1, <2>2 DEF Told, Protocol
  <2> QED
    BY <1>0, <1>1, <1>2, <2>1, <2>2, <2>3, <2>4, NotYetTold, GatewayTells
<1>6. ASSUME NEW c \in Conns, Send(c)
      PROVE  Protocol'
  <2>1. PICK f \in Frames : /\ f = Frame("DATA", c, sent[c] + 1) /\ f.kind = "DATA" /\ f.conn = c
    <3>1. sent[c] + 1 \in 0..MaxChunks
      BY <1>0, <1>6 DEF Types, Send
    <3> QED
      BY <3>1, FrameTyped
  <2>2. /\ app[c] = "open" /\ app' = app /\ task' = task
        /\ up' = Append(w, f) /\ app' = [app EXCEPT ![c] = app'[c]]
        /\ \A d \in Conns \ {c} : sent'[d] = sent[d]
    BY <1>0, <1>2, <1>6, <2>1 DEF Types, Send
  <2>3. \A i \in 1..Len(w) : Told(w[i])'
    BY <1>0, <1>1, <1>2, <2>2 DEF Protocol
  <2>4. Told(f)'
    BY <2>1, <2>2 DEF Told
  <2> QED
    BY <1>0, <1>1, <1>2, <2>1, <2>2, <2>3, <2>4, NotYetTold, GatewayTells
<1>7. ASSUME NEW i \in 1..Len(down), ReceiveDown(i)
      PROVE  Protocol'
  <2>1. /\ UNCHANGED <<up, sent, task>>
        /\ \A d \in Conns : app'[d] = app[d] \/ (app[d] = "open" /\ app'[d] = "closing")
    BY <1>0, <1>7 DEF Types, ReceiveDown
  <2>2. \A j \in 1..Len(w) : w[j].conn \in Conns
    BY <1>0, <1>2, FrameOf
  <2> QED
    BY <1>0, <1>2, <2>1, <2>2, OthersTell
<1>8. ASSUME NEW i \in 1..Len(up), up' = RemoveAt(up, i), UNCHANGED <<app, sent>>,
             \/ task' = task
             \/ up[i].kind = "CONNECT" /\ task' = [task EXCEPT ![up[i].conn] = "dialing"]
      PROVE  Protocol'
  <2>1. PICK v \in Seq(Frames) : v = RemoveAt(up, i)
    BY <1>0, TakenOut
  <2>2. /\ Orderly(v)
        /\ up[i].kind = "CONNECT" => \A j \in 1..Len(v) :
              v[j].kind = "CONNECT" => v[j].conn # up[i].conn
    BY <1>0, <2>1, OrderlyTaken
  <2>3. \A j \in 1..Len(v) : \E k \in 1..Len(up) : v[j] = up[k]
    <3>1. Wired(up)
      BY <1>0 DEF Types
    <3>2. \A j \in 1..Len(RemoveAt(up, i)) : \E k \in 1..Len(up) : RemoveAt(up, i)[j] = up[k]
      BY <3>1, WiredTaken
    <3> QED
      BY <2>1, <3>2
  <2>4. \A j \in 1..Len(v) : v[j].conn \in Conns
    BY FrameOf
  <2>5. up[i].conn \in Conns /\ app[up[i].conn] # "idle"
    BY <1>0, FrameOf DEF Protocol, Told
  <2>6. \A j \in 1..Len(v) : v[j].kind = "CONNECT" => task'[v[j].conn] = task[v[j].conn]
    <3>1. CASE task' = task
      BY <3>1
    <3>2. CASE up[i].kind = "CONNECT" /\ task' = [task EXCEPT ![up[i].conn] = "dialing"]
      BY <1>0, <2>2, <2>4, <3>2 DEF Types
    <3> QED
      BY <1>8, <3>1, <3>2
  <2>7. \A d \in Conns : app[d] = "idle" => task'[d] = task[d]
    BY <1>0, <1>8, <2>5 DEF Types
  <2>8. up' = v /\ app' = app /\ sent' = sent
    BY <1>8, <2>1
  <2> QED
    BY <1>0, <2>2, <2>3, <2>6, <2>7, <2>8, OthersTell
<1>9. ASSUME UNCHANGED <<app, sent, up>>,
             task' = task \/ \E c \in Conns : task[c] # "none" /\ task' = [task EXCEPT ![c] = task'[c]]
      PROVE  Protocol'
  <2>1. \A j \in 1..Len(w) : /\ w[j].conn \in Conns
                             /\ w[j].kind = "CONNECT" => task[w[j].conn] = "none"
    BY <1>0, <1>2, FrameOf DEF Protocol, Told
  <2>2. \A d \in Conns : app[d] = "idle" \/ task[d] = "none" => task'[d] = task[d]
    BY <1>0, <1>9 DEF Types, Protocol
  <2> QED
    BY <1>0, <1>2, <1>9, <2>1, <2>2, OthersTell
<1>10. ASSUME NEW i \in 1..Len(up), ReceiveUp(i) \/ LoseUp(i)
       PROVE  Protocol'
  <2>1. /\ up' = RemoveAt(up, i) /\ UNCHANGED <<app, sent>>
        /\ \/ task' = task
           \/ up[i].kind = "CONNECT" /\ task' = [task EXCEPT ![up[i].conn] = "dialing"]
    BY <1>10 DEF ReceiveUp, LoseUp, ReceiveConnect, ReceiveData, ReceiveClose
  <2> QED
    BY <1>8, <2>1
<1>11. ASSUME NEW c \in Conns, Dialed(c) \/ Pipe(c) \/ DialFails(c) \/ RemoteCloses(c) \/ ReadEnds(c)
       PROVE  Protocol'
  <2>1. /\ UNCHANGED <<app, sent, up>>
        /\ task' = task \/ (task[c] # "none" /\ task' = [task EXCEPT ![c] = task'[c]])
    BY <1>0, <1>11 DEF Types, Dialed, Pipe, DialFails, RemoteCloses, ReadEnds, TaskEnds
  <2> QED
    BY <1>9, <2>1
<1>12. ASSUME CloseSession \/ \E i \in 1..Len(down) : LoseDown(i)
       PROVE  Protocol'
  BY <1>9, <1>12 DEF CloseSession, LoseDown
<1> QED
  BY <1>3, <1>4, <1>5, <1>6, <1>7, <1>10, <1>11, <1>12
     DEF Next, DeliverUp, DeliverDown, Deliverable

------------------------------------------------------------------------------------
(* The streams over a WebSocket *)

\* A frame that is delivered over a WebSocket is the first.
LEMMA FirstDelivered ==
  ASSUME Inv, transport = "stealth"
  PROVE  /\ \A i \in Deliverable(up) : i = 1 /\ 1 \in 1..Len(up)
         /\ \A i \in Deliverable(down) : i = 1 /\ 1 \in 1..Len(down)
         /\ up \in Seq(Frames) /\ down \in Seq(Frames)
         /\ Ordered
BY DEF Deliverable, Inv, Sequenced, Types, Wired

\* What is written is a stream without a gap: the next chunk comes when it is due.
LEMMA WrittenStep ==
  ASSUME Inv, Next, transport = "stealth"
  PROVE  \A c \in Conns : Written(c)'
<1> USE DEF clientVars, tableVars, remoteVars
<1>0. /\ Types /\ Tables /\ Protocol /\ Ordered /\ \A c \in Conns : Written(c)
      /\ up \in Seq(Frames) /\ down \in Seq(Frames)
  BY FirstDelivered DEF Inv, Ordered
<1>1. CASE UNCHANGED <<fed, arrived, pending, task>>
  BY <1>0, <1>1 DEF Written
<1>2. ASSUME 1 \in 1..Len(down), ReceiveDown(1)
      PROVE  \A c \in Conns : Written(c)'
  <2>1. PICK f \in Frames : f = down[1] /\ f.conn \in Conns
    BY <1>0, <1>2, FrameOf
  <2>2. UNCHANGED <<arrived, pending, task>>
    BY <1>2 DEF ReceiveDown
  <2>3. CASE f.kind = "DATA" /\ app[f.conn] = "open"
    <3>1. fed' = [fed EXCEPT ![f.conn] = Append(@, f.chunk)]
      BY <1>2, <2>1, <2>3 DEF ReceiveDown
    <3>2. Line(down, f.conn, Len(fed[f.conn]), answered[f.conn]) /\ answered[f.conn] \in Nat
      BY <1>0, <2>1, <2>3 DEF Ordered, DownLine, Types
    <3>3. f.chunk = Len(fed[f.conn]) + 1
      BY <1>0, <1>2, <2>1, <2>3, <3>2, LineShorter
    <3>4. f.chunk \in Chunks
      <4>1. f.chunk # 0
        BY <1>0, <1>2, <2>1, <2>3 DEF Types, Wired
      <4> QED
        BY <4>1 DEF Frames, Chunks
    <3>5. fed[f.conn] \in Seq(Chunks) /\ InOrder(fed[f.conn])
      BY <1>0, <2>1 DEF Types, Written
    <3>6. InOrder(Append(fed[f.conn], f.chunk))
      BY <3>3, <3>4, <3>5, NextInOrder
    <3>7. \A c \in Conns : InOrder(fed'[c])
      BY <1>0, <3>1, <3>6 DEF Types, Written
    <3> QED
      BY <1>0, <2>2, <3>7 DEF Written
  <2>4. CASE ~(f.kind = "DATA" /\ app[f.conn] = "open")
    <3>1. fed' = fed
      BY <1>2, <2>1, <2>4 DEF ReceiveDown
    <3> QED
      BY <1>1, <2>2, <3>1
  <2> QED
    BY <2>3, <2>4
<1>3. ASSUME 1 \in 1..Len(up), ReceiveUp(1)
      PROVE  \A c \in Conns : Written(c)'
  <2>1. PICK f \in Frames : f = up[1] /\ f.conn \in Conns
    BY <1>0, <1>3, FrameOf
  <2>2. fed' = fed
    BY <1>3 DEF ReceiveUp
  <2>3. CASE UNCHANGED <<tableVars, remoteVars>>
    BY <1>1, <2>2, <2>3
  <2>4. CASE sessionOpen /\ ReceiveConnect(f)
    <3>1. task[f.conn] = "none"
      BY <1>0, <1>3, <2>1, <2>4 DEF Protocol, Told, ReceiveConnect
    <3>2. InOrder(<<>>)
      BY DEF InOrder
    <3>3. arrived[f.conn] = <<>>
      BY <1>0, <2>1, <3>1 DEF Written
    <3>4. /\ arrived' = arrived /\ pending' = [pending EXCEPT ![f.conn] = <<>>]
          /\ task' = [task EXCEPT ![f.conn] = "dialing"]
      BY <2>4 DEF ReceiveConnect
    <3> QED
      BY <1>0, <2>2, <3>2, <3>3, <3>4 DEF Types, Written
  <2>5. CASE sessionOpen /\ ReceiveData(f)
    <3>0. UpLine(f.conn) /\ sent[f.conn] \in Nat /\ f.kind = "DATA" /\ task' = task
      BY <1>0, <2>1, <2>5 DEF Ordered, Types, ReceiveData
    <3>1. f.chunk \in Chunks
      <4>1. f.chunk # 0
        BY <1>0, <1>3, <2>1, <3>0 DEF Types, Wired
      <4> QED
        BY <4>1 DEF Frames, Chunks
    <3>2. CASE f.conn \in streams
      <4>1. /\ remote[f.conn] = "open" /\ task[f.conn] = "piping"
            /\ arrived' = [arrived EXCEPT ![f.conn] = Append(@, f.chunk)] /\ pending' = pending
        BY <1>0, <2>5, <3>2 DEF Tables, ReceiveData
      <4>2. ~Over(f.conn)
        BY <1>3, <2>1 DEF Over, Silent
      <4>3. Line(up, f.conn, Len(arrived[f.conn]), sent[f.conn])
        BY <3>0, <3>2, <4>2 DEF UpLine
      <4>4. f.chunk = Len(arrived[f.conn]) + 1
        <5>1. up[1].conn = f.conn /\ up[1].kind = "DATA"
          BY <2>1, <3>0
        <5>2. up[1].chunk = Len(arrived[f.conn]) + 1
          BY <1>0, <1>3, <3>0, <4>3, <5>1, LineShorter
        <5> QED
          BY <2>1, <5>2
      <4>5. arrived[f.conn] \in Seq(Chunks) /\ InOrder(arrived[f.conn])
        BY <1>0, <2>1 DEF Types, Written
      <4>6. InOrder(Append(arrived[f.conn], f.chunk))
        BY <3>1, <4>4, <4>5, NextInOrder
      <4> QED
        BY <1>0, <2>2, <3>0, <4>1, <4>6 DEF Types, Written
    <3>3. CASE f.conn \notin streams /\ f.conn \in connecting
      <4>1. /\ pending[f.conn] # NoBuffer /\ arrived' = arrived
            /\ pending' = [pending EXCEPT ![f.conn] = Append(@, f.chunk)]
        BY <1>0, <2>5, <3>3 DEF Tables, ReceiveData
      <4>2. Line(up, f.conn, Len(pending[f.conn]), sent[f.conn])
        BY <3>0, <3>3 DEF UpLine
      <4>3. f.chunk = Len(pending[f.conn]) + 1
        <5>1. up[1].conn = f.conn /\ up[1].kind = "DATA"
          BY <2>1, <3>0
        <5>2. up[1].chunk = Len(pending[f.conn]) + 1
          BY <1>0, <1>3, <3>0, <4>2, <5>1, LineShorter
        <5> QED
          BY <2>1, <5>2
      <4>4. pending[f.conn] \in Seq(Chunks) /\ InOrder(pending[f.conn])
        BY <1>0, <2>1, <4>1 DEF Types, Written
      <4>5. InOrder(Append(pending[f.conn], f.chunk))
        BY <3>1, <4>3, <4>4, NextInOrder
      <4> QED
        BY <1>0, <2>2, <3>0, <4>1, <4>5 DEF Types, Written
    <3>4. CASE f.conn \notin streams /\ f.conn \notin connecting
      <4>1. UNCHANGED <<arrived, pending>>
        BY <2>5, <3>4 DEF ReceiveData
      <4> QED
        BY <1>1, <2>2, <3>0, <4>1
    <3> QED
      BY <3>2, <3>3, <3>4
  <2>6. CASE sessionOpen /\ ReceiveClose(f)
    <3>1. /\ arrived' = arrived /\ pending' = [pending EXCEPT ![f.conn] = NoBuffer]
          /\ task' = task
      BY <2>6 DEF ReceiveClose
    <3> QED
      BY <1>0, <2>2, <3>1 DEF Types, Written
  <2> QED
    BY <1>3, <2>1, <2>3, <2>4, <2>5, <2>6 DEF ReceiveUp
<1>4. ASSUME NEW c \in Conns, Dialed(c)
      PROVE  \A d \in Conns : Written(d)'
  <2>1. arrived[c] = <<>> /\ Written(c)
    BY <1>0, <1>4 DEF Dialed, Written
  <2>2. pending[c] # NoBuffer => <<>> \o pending[c] = pending[c]
    BY <1>0, ConcatEmptySeq DEF Types
  <2>3. InOrder(arrived'[c]) /\ \A d \in Conns \ {c} : arrived'[d] = arrived[d]
    BY <1>0, <1>4, <2>1, <2>2 DEF Types, Dialed, Flush, Written
  <2>4. /\ fed' = fed /\ pending' = [pending EXCEPT ![c] = NoBuffer]
        /\ task' = [task EXCEPT ![c] = "piping"]
    BY <1>4 DEF Dialed
  <2> QED
    BY <1>0, <2>3, <2>4 DEF Types, Written
<1>5. ASSUME NEW c \in Conns, TaskEnds(c)
      PROVE  \A d \in Conns : Written(d)'
  <2>1. /\ fed' = fed /\ arrived' = arrived /\ pending' = [pending EXCEPT ![c] = NoBuffer]
        /\ task' = [task EXCEPT ![c] = "done"]
    BY <1>5 DEF TaskEnds
  <2> QED
    BY <1>0, <2>1 DEF Types, Written
<1>6. ASSUME NEW c \in Conns, Open(c) \/ OpenHttp(c) \/ Refuse(c) \/ Send(c) \/ HandlerEnds(c)
                              \/ Pipe(c)
      PROVE  UNCHANGED <<fed, arrived, pending, task>>
  BY <1>6 DEF Open, OpenHttp, Refuse, Send, HandlerEnds, Pipe
<1>7. ASSUME NEW i, LoseUp(i) \/ LoseDown(i) \/ CloseSession
      PROVE  UNCHANGED <<fed, arrived, pending, task>>
  BY <1>7 DEF LoseUp, LoseDown, CloseSession
<1> QED
  BY <1>1, <1>2, <1>3, <1>4, <1>5, <1>6, <1>7, FirstDelivered
     DEF Next, DeliverUp, DeliverDown, DialFails, RemoteCloses, ReadEnds

\* What the application has, and what is on the way to it, is what the remote host sent.
LEMMA DownStep ==
  ASSUME Inv, Next, transport = "stealth"
  PROVE  /\ \A i \in 1..Len(down') : app'[down'[i].conn] # "idle"
         /\ \A c \in Conns : DownLine(c)'
<1> USE DEF clientVars, tableVars, remoteVars
<1> DEFINE Kept == /\ \A i \in 1..Len(down') : app'[down'[i].conn] # "idle"
                   /\ \A c \in Conns : DownLine(c)'
<1>0. /\ Types /\ Protocol /\ Ordered /\ down \in Seq(Frames)
      /\ \A i \in 1..Len(down) : down[i].conn \in Conns
  BY FirstDelivered, FrameOf DEF Inv
<1>1. ASSUME UNCHANGED <<down, fed, answered>>,
             \A d \in Conns : /\ app[d] # "idle" => app'[d] # "idle"
                              /\ app'[d] = "open" => app[d] \in {"idle", "open"}
      PROVE  Kept
  BY <1>0, <1>1 DEF Ordered, DownLine
<1>2. ASSUME 1 \in 1..Len(down), ReceiveDown(1)
      PROVE  Kept
  <2>1. PICK f \in Frames : f = down[1] /\ f.conn \in Conns
    BY <1>0, <1>2, FrameOf
  <2>2. /\ down' = RemoveAt(down, 1) /\ answered' = answered
        /\ \A d \in Conns : app'[d] = app[d] \/ (app[d] = "open" /\ app'[d] = "closing")
        /\ \A d \in Conns \ {f.conn} : fed'[d] = fed[d]
    BY <1>0, <1>2, <2>1 DEF Types, ReceiveDown
  <2>3. \A i \in 1..Len(down') : \E k \in 1..Len(down) : down'[i] = down[k]
    BY <1>0, <1>2, <2>2, WiredTaken DEF Types
  <2>4. \A i \in 1..Len(down') : app'[down'[i].conn] # "idle"
    BY <1>0, <2>2, <2>3 DEF Ordered
  <2>5. ASSUME NEW c \in Conns, app'[c] \in {"idle", "open"}
        PROVE  Line(down', c, Len(fed'[c]), answered'[c])
    <3>1. app[c] = app'[c] /\ Line(down, c, Len(fed[c]), answered[c]) /\ answered[c] \in Nat
      BY <1>0, <2>2, <2>5 DEF Ordered, DownLine, Types
    <3>2. CASE c = f.conn /\ f.kind = "DATA"
      <4>1. app[c] = "open"
        BY <1>0, <1>2, <2>1, <2>5, <3>1, <3>2 DEF Ordered
      <4>2. fed'[c] = Append(fed[c], f.chunk) /\ fed[c] \in Seq(Chunks)
        BY <1>0, <1>2, <2>1, <3>2, <4>1 DEF Types, ReceiveDown
      <4>3. Line(RemoveAt(down, 1), c, Len(fed[c]) + 1, answered[c])
        BY <1>0, <1>2, <2>1, <3>1, <3>2, LineShorter
      <4>4. Len(fed'[c]) = Len(fed[c]) + 1
        BY <4>2
      <4> QED
        BY <2>2, <4>3, <4>4
    <3>3. CASE c # f.conn \/ f.kind # "DATA"
      <4>1. fed'[c] = fed[c]
        BY <1>2, <2>1, <2>2, <3>3 DEF ReceiveDown
      <4>2. Line(RemoveAt(down, 1), c, Len(fed[c]), answered[c])
        BY <1>0, <1>2, <2>1, <3>1, <3>3, LineTaken
      <4> QED
        BY <2>2, <4>1, <4>2
    <3> QED
      BY <3>2, <3>3
  <2> QED
    BY <2>4, <2>5 DEF DownLine
<1>3. ASSUME NEW c \in Conns, NEW f \in Frames, f.conn = c, app[c] # "idle",
             down' = Append(down, f), UNCHANGED <<app, fed>>,
             \/ f.kind = "CLOSE" /\ answered' = answered
             \/ /\ f = Frame("DATA", c, answered[c] + 1)
                /\ answered' = [answered EXCEPT ![c] = @ + 1]
      PROVE  Kept
  <2>1. /\ Len(down') = Len(down) + 1 /\ Len(down) \in Nat
        /\ \A i \in 1..Len(down) : down'[i] = down[i]
        /\ down'[Len(down) + 1] = f
    BY <1>0, <1>3, Appended
  <2>2. \A i \in 1..Len(down') : app'[down'[i].conn] # "idle"
    BY <1>0, <1>3, <2>1 DEF Ordered
  <2>3. ASSUME NEW d \in Conns, app[d] \in {"idle", "open"}
        PROVE  Line(down', d, Len(fed[d]), answered'[d])
    <3>1. Line(down, d, Len(fed[d]), answered[d]) /\ answered[d] \in Nat
      BY <1>0, <2>3 DEF Ordered, DownLine, Types
    <3>2. CASE f.conn # d \/ f.kind # "DATA"
      <4>1. answered'[d] = answered[d]
        BY <1>0, <1>3, <3>2 DEF Frame, Types
      <4>2. Line(Append(down, f), d, Len(fed[d]), answered[d])
        BY <1>0, <3>1, <3>2, LineAppended
      <4> QED
        BY <1>3, <4>1, <4>2
    <3>3. CASE f.conn = d /\ f.kind = "DATA"
      <4>1. f = Frame("DATA", d, answered[d] + 1) /\ answered'[d] = answered[d] + 1
        BY <1>0, <1>3, <3>3 DEF Types
      <4>2. Line(Append(down, Frame("DATA", d, answered[d] + 1)), d, Len(fed[d]), answered[d] + 1)
        BY <1>0, <3>1, <4>1, LineLonger
      <4> QED
        BY <1>3, <4>1, <4>2
    <3> QED
      BY <3>2, <3>3
  <2> QED
    BY <1>3, <2>2, <2>3 DEF DownLine
<1>4. ASSUME NEW c \in Conns, Pipe(c)
      PROVE  Kept
  <2>1. PICK f \in Frames : f = Frame("DATA", c, answered[c] + 1) /\ f.conn = c
    <3>1. answered[c] + 1 \in 0..MaxChunks
      BY <1>0, <1>4 DEF Types, Pipe
    <3> QED
      BY <3>1, FrameTyped
  <2> QED
    BY <1>0, <1>3, <1>4, <2>1 DEF Pipe, Protocol
<1>5. ASSUME NEW c \in Conns, TaskEnds(c), task[c] # "none"
      PROVE  Kept
  <2>1. PICK f \in Frames : f = Frame("CLOSE", c, 0) /\ f.conn = c /\ f.kind = "CLOSE"
    BY FrameTyped
  <2> QED
    BY <1>0, <1>3, <1>5, <2>1 DEF TaskEnds, Protocol
<1>6. ASSUME NEW c \in Conns, Open(c) \/ OpenHttp(c) \/ Refuse(c) \/ Send(c) \/ HandlerEnds(c)
                              \/ Dialed(c)
      PROVE  Kept
  <2>1. /\ UNCHANGED <<down, fed, answered>>
        /\ \A d \in Conns : /\ app[d] # "idle" => app'[d] # "idle"
                            /\ app'[d] = "open" => app[d] \in {"idle", "open"}
    BY <1>0, <1>6 DEF Open, OpenHttp, Refuse, Send, HandlerEnds, Dialed, Types
  <2> QED
    BY <1>1, <2>1
<1>7. ASSUME NEW i, ReceiveUp(i) \/ CloseSession
      PROVE  UNCHANGED <<down, fed, answered, app>>
  BY <1>7 DEF ReceiveUp, CloseSession, ReceiveConnect, ReceiveData, ReceiveClose
<1>8. \A i : ~LoseUp(i) /\ ~LoseDown(i)
  BY DEF LoseUp, LoseDown
<1> HIDE DEF Kept
<1>9. ASSUME NEW c \in Conns,
             \/ Open(c) \/ OpenHttp(c) \/ Refuse(c) \/ Send(c) \/ HandlerEnds(c) \/ Dialed(c)
             \/ Pipe(c) \/ DialFails(c) \/ RemoteCloses(c) \/ ReadEnds(c)
      PROVE  Kept
  <2>1. DialFails(c) \/ RemoteCloses(c) \/ ReadEnds(c) => TaskEnds(c) /\ task[c] # "none"
    BY DEF DialFails, RemoteCloses, ReadEnds
  <2>2. CASE Open(c) \/ OpenHttp(c) \/ Refuse(c) \/ Send(c) \/ HandlerEnds(c) \/ Dialed(c)
    BY <1>6, <2>2
  <2>3. CASE Pipe(c)
    BY <1>4, <2>3
  <2>4. CASE TaskEnds(c) /\ task[c] # "none"
    BY <1>5, <2>4
  <2> QED
    BY <1>9, <2>1, <2>2, <2>3, <2>4
<1>10. ASSUME DeliverDown
       PROVE  Kept
  BY <1>2, <1>10, FirstDelivered DEF DeliverDown
<1>11. ASSUME DeliverUp \/ CloseSession
       PROVE  Kept
  <2>1. UNCHANGED <<down, fed, answered, app>>
    BY <1>7, <1>11 DEF DeliverUp
  <2> QED
    BY <1>1, <2>1
<1>12. Kept
  BY <1>8, <1>9, <1>10, <1>11 DEF Next
<1> QED
  BY <1>12 DEF Kept

\* One wire tells of c what another tells.
Passes(v, w, c) ==
    /\ \A lo, hi \in Nat : Line(w, c, lo, hi) => Line(v, c, lo, hi)
    /\ Announced(w, c) => Announced(v, c)
    /\ AfterConnect(w, c) => AfterConnect(v, c)
    /\ Silent(w, c) => Silent(v, c)

\* A frame of another connection that comes or goes does not matter.
LEMMA OthersPass ==
  ASSUME NEW w \in Seq(Frames), NEW c
  PROVE  /\ Passes(w, w, c)
         /\ \A f \in Frames : f.conn # c => Passes(Append(w, f), w, c)
         /\ 1 \in 1..Len(w) /\ w[1].conn # c => Passes(RemoveAt(w, 1), w, c)
<1>1. ASSUME NEW f \in Frames, f.conn # c
      PROVE  Passes(Append(w, f), w, c)
  <2>1. \A lo, hi \in Nat : Line(w, c, lo, hi) => Line(Append(w, f), c, lo, hi)
    BY <1>1, LineAppended
  <2> QED
    BY <1>1, <2>1, ConnectAppended DEF Passes
<1>2. ASSUME 1 \in 1..Len(w), w[1].conn # c
      PROVE  Passes(RemoveAt(w, 1), w, c)
  <2>1. \A lo, hi \in Nat : Line(w, c, lo, hi) => Line(RemoveAt(w, 1), c, lo, hi)
    BY <1>2, LineTaken
  <2>2. w[1] # Frame("CONNECT", c, 0)
    BY <1>2 DEF Frame
  <2> QED
    BY <1>2, <2>1, <2>2, ConnectTaken DEF Passes
<1> QED
  BY <1>1, <1>2 DEF Passes

\* A connection a step leaves alone goes on as it did.
LEMMA UpLineStays ==
  ASSUME Types, NEW c \in Conns, UpLine(c), Passes(up', up, c),
         app'[c] = "open" => app[c] = "open", app[c] = "closed" => app'[c] = "closed",
         sent'[c] = sent[c], pending'[c] = pending[c], arrived'[c] = arrived[c],
         task'[c] = task[c], c \in connecting' <=> c \in connecting,
         c \in streams' <=> c \in streams
  PROVE  UpLine(c)'
<1>1. /\ sent[c] \in Nat /\ Len(arrived[c]) \in Nat
      /\ c \in connecting /\ pending[c] # NoBuffer => Len(pending[c]) \in Nat
  BY LenProperties DEF Types
<1>2. Over(c) => Over(c)'
  BY DEF Over, Passes
<1>3. task[c] = "none" =>
        /\ Line(up', c, 0, sent'[c])
        /\ app'[c] = "open" => Announced(up', c)
        /\ AfterConnect(up', c)
  BY <1>1 DEF UpLine, Passes
<1>4. c \in connecting => Line(up', c, Len(pending[c]), sent[c])
  <2>1. c \in connecting => Len(pending[c]) \in Nat
    BY <1>1 DEF UpLine, Line
  <2> QED
    BY <1>1, <2>1 DEF UpLine, Passes
<1>5. c \in streams => Over(c)' \/ Line(up', c, Len(arrived[c]), sent[c])
  BY <1>1, <1>2 DEF UpLine, Passes
<1> QED
  BY <1>2, <1>3, <1>4, <1>5 DEF UpLine

\* A connection whose gateway has more to say goes on with the line it has.
LEMMA UpLineGoesOn ==
  ASSUME Types, Tables, NEW c \in Conns, UpLine(c), app[c] # "closed",
         \A lo \in Nat : Line(up, c, lo, sent[c]) => Line(up', c, lo, sent'[c]),
         task[c] = "none" /\ app'[c] = "open" => Announced(up', c),
         AfterConnect(up, c) /\ task[c] = "none" => AfterConnect(up', c),
         UNCHANGED <<pending, arrived, task, connecting, streams>>
  PROVE  UpLine(c)'
<1>1. /\ ~Over(c) /\ Len(arrived[c]) \in Nat
      /\ c \in connecting => Len(pending[c]) \in Nat
  <2>1. c \in connecting => pending[c] \in Seq(Chunks)
    BY DEF Types, Tables
  <2> QED
    BY <2>1, LenProperties DEF Types, Over
<1>2. task[c] = "none" => Line(up', c, 0, sent'[c])
  BY DEF UpLine
<1>3. c \in connecting => Line(up', c, Len(pending[c]), sent'[c])
  BY <1>1 DEF UpLine
<1>4. c \in streams => Line(up', c, Len(arrived[c]), sent'[c])
  BY <1>1 DEF UpLine
<1>5. task[c] = "dialing" => c \in connecting
  BY <1>1 DEF UpLine
<1> QED
  BY <1>2, <1>3, <1>4, <1>5 DEF UpLine

\* The gateway tells the server more of a connection.
LEMMA UpSent ==
  ASSUME Inv, transport = "stealth", sessionOpen, NEW c \in Conns,
         Open(c) \/ OpenHttp(c) \/ Refuse(c) \/ Send(c) \/ HandlerEnds(c)
  PROVE  \A d \in Conns : UpLine(d)'
<1> USE DEF clientVars, tableVars, remoteVars
<1>0. /\ Types /\ Tables /\ Protocol /\ up \in Seq(Frames) /\ \A d \in Conns : UpLine(d)
  BY FirstDelivered DEF Inv, Ordered
<1>1. /\ UNCHANGED <<pending, arrived, task, connecting, streams>> /\ app[c] # "closed"
      /\ \A d \in Conns \ {c} : app'[d] = app[d] /\ sent'[d] = sent[d]
      /\ sent[c] \in Nat /\ (app[c] = "idle" => task[c] = "none" /\ sent[c] = 0)
  <2>1. UNCHANGED <<pending, arrived, task, connecting, streams>>
    BY DEF Open, OpenHttp, Refuse, Send, HandlerEnds
  <2>2. app[c] # "closed"
    BY DEF Open, OpenHttp, Refuse, Send, HandlerEnds
  <2>3. \A d \in Conns \ {c} : app'[d] = app[d] /\ sent'[d] = sent[d]
    BY <1>0 DEF Open, OpenHttp, Refuse, Send, HandlerEnds, Types
  <2> QED
    BY <1>0, <2>1, <2>2, <2>3 DEF Types, Protocol
<1>2. ASSUME NEW f \in Frames, f.conn = c, up' = Append(up, f),
             \A lo \in Nat : Line(up, c, lo, sent[c]) => Line(up', c, lo, sent'[c]),
             task[c] = "none" /\ app'[c] = "open" => Announced(up', c),
             f.kind # "DATA" \/ (task[c] = "none" => Announced(up, c))
      PROVE  \A d \in Conns : UpLine(d)'
  <2>1. ASSUME NEW d \in Conns \ {c}
        PROVE  UpLine(d)'
    <3>1. Passes(up', up, d)
      BY <1>0, <1>2, OthersPass
    <3> QED
      BY <1>0, <1>1, <3>1, UpLineStays
  <2>2. AfterConnect(up, c) /\ task[c] = "none" => AfterConnect(up', c)
    BY <1>0, <1>2, ConnectAppended
  <2>3. UpLine(c)'
    BY <1>0, <1>1, <1>2, <2>2, UpLineGoesOn
  <2> QED
    BY <2>1, <2>3
<1>3. CASE Open(c)
  <2>1. PICK f \in Frames : f = Frame("CONNECT", c, 0) /\ f.kind = "CONNECT" /\ f.conn = c
    BY FrameTyped
  <2>2. up' = Append(up, f) /\ sent' = sent
    BY <1>3, <2>1 DEF Open
  <2>3. Announced(up', c)
    BY <1>0, <2>1, <2>2, ConnectAppended
  <2>4. \A lo \in Nat : Line(up, c, lo, sent[c]) => Line(up', c, lo, sent'[c])
    BY <1>0, <1>1, <2>1, <2>2, LineAppended
  <2> QED
    BY <1>2, <2>1, <2>2, <2>3, <2>4
<1>4. CASE Refuse(c) \/ HandlerEnds(c)
  <2>1. PICK f \in Frames : f = Frame("CLOSE", c, 0) /\ f.kind = "CLOSE" /\ f.conn = c
    BY FrameTyped
  <2>2. up' = Append(up, f) /\ sent' = sent /\ app'[c] = "closed"
    BY <1>0, <1>4, <2>1 DEF Refuse, HandlerEnds, Types
  <2>3. \A lo \in Nat : Line(up, c, lo, sent[c]) => Line(up', c, lo, sent'[c])
    BY <1>0, <1>1, <2>1, <2>2, LineAppended
  <2> QED
    BY <1>2, <2>1, <2>2, <2>3
<1>5. CASE Send(c)
  <2>1. PICK f \in Frames : f = Frame("DATA", c, sent[c] + 1) /\ f.conn = c
    <3>1. sent[c] + 1 \in 0..MaxChunks
      BY <1>0, <1>5 DEF Types, Send
    <3> QED
      BY <3>1, FrameTyped
  <2>2. up' = Append(up, f) /\ sent'[c] = sent[c] + 1 /\ app' = app /\ app[c] = "open"
    BY <1>0, <1>5, <2>1 DEF Send, Types
  <2>3. task[c] = "none" => Announced(up, c)
    BY <1>0, <2>2 DEF UpLine
  <2>4. task[c] = "none" => Announced(up', c)
    BY <1>0, <2>2, <2>3, ConnectAppended
  <2>5. ASSUME NEW lo \in Nat, Line(up, c, lo, sent[c])
        PROVE  Line(up', c, lo, sent'[c])
    <3>1. Line(Append(up, Frame("DATA", c, sent[c] + 1)), c, lo, sent[c] + 1)
      BY <1>0, <1>1, <2>1, <2>5, LineLonger
    <3> QED
      BY <2>1, <2>2, <3>1
  <2> QED
    BY <1>2, <2>1, <2>2, <2>3, <2>4, <2>5
<1>6. CASE OpenHttp(c)
  <2>1. PICK f \in Frames : f = Frame("CONNECT", c, 0) /\ f.kind = "CONNECT" /\ f.conn = c
    BY FrameTyped
  <2>2. PICK g \in Frames : g = Frame("DATA", c, 1) /\ g.conn = c
    <3>1. 1 \in 0..MaxChunks
      BY <1>0, <1>6 DEF Types, OpenHttp
    <3> QED
      BY <3>1, FrameTyped
  <2>3. PICK v \in Seq(Frames) : v = Append(up, f)
    BY <1>0, Appended
  <2>4. /\ up' = Append(v, g) /\ sent'[c] = 1 /\ sent[c] = 0 /\ task[c] = "none"
    BY <1>0, <1>1, <1>6, <2>1, <2>2, <2>3, TwoAppended DEF OpenHttp, Types
  <2>5. ASSUME NEW d \in Conns \ {c}
        PROVE  UpLine(d)'
    <3>1. Passes(v, up, d) /\ Passes(Append(v, g), v, d)
      BY <1>0, <2>1, <2>2, <2>3, OthersPass
    <3>2. Passes(up', up, d)
      BY <2>4, <3>1 DEF Passes
    <3> QED
      BY <1>0, <1>1, <3>2, UpLineStays
  <2>6. Announced(v, c) /\ Announced(up', c)
    BY <1>0, <2>1, <2>3, <2>4, ConnectAppended
  <2>7. AfterConnect(up, c) => AfterConnect(up', c)
    BY <1>0, <2>1, <2>3, <2>4, <2>6, ConnectAppended
  <2>8. ASSUME NEW lo \in Nat, Line(up, c, lo, sent[c])
        PROVE  Line(up', c, lo, sent'[c])
    <3>1. Line(v, c, lo, 0)
      <4>1. Line(Append(up, f), c, lo, sent[c])
        BY <1>0, <1>1, <2>1, <2>8, LineAppended
      <4> QED
        BY <2>3, <2>4, <4>1
    <3>2. 0 \in Nat /\ 0 + 1 = 1
      OBVIOUS
    <3>3. Line(Append(v, Frame("DATA", c, 0 + 1)), c, lo, 0 + 1)
      BY <2>2, <3>1, <3>2, LineLonger
    <3> QED
      BY <2>2, <2>4, <3>2, <3>3
  <2>9. UpLine(c)'
    BY <1>0, <1>1, <2>6, <2>7, <2>8, UpLineGoesOn
  <2> QED
    BY <2>5, <2>9
<1> QED
  BY <1>3, <1>4, <1>5, <1>6

\* The server takes the first frame: what it has grows by what the wire loses.
LEMMA UpReceived ==
  ASSUME Inv, transport = "stealth", sessionOpen, 1 \in 1..Len(up), ReceiveUp(1)
  PROVE  \A d \in Conns : UpLine(d)'
<1> USE DEF clientVars, tableVars, remoteVars
<1>0. /\ Types /\ Tables /\ Protocol /\ up \in Seq(Frames) /\ \A d \in Conns : UpLine(d)
  BY FirstDelivered DEF Inv, Ordered
<1>1. PICK c \in Conns, f \in Frames : f = up[1] /\ f.conn = c
  BY <1>0, FrameOf
<1>2. /\ up' = RemoveAt(up, 1) /\ UNCHANGED <<app, sent>>
      /\ ReceiveConnect(f) \/ ReceiveData(f) \/ ReceiveClose(f)
  BY <1>1 DEF ReceiveUp
<1>3. ASSUME NEW d \in Conns \ {c}
      PROVE  UpLine(d)'
  <2>1. Passes(up', up, d)
    BY <1>0, <1>1, <1>2, OthersPass
  <2>2. /\ pending'[d] = pending[d] /\ arrived'[d] = arrived[d] /\ task'[d] = task[d]
        /\ (d \in connecting' <=> d \in connecting) /\ (d \in streams' <=> d \in streams)
    BY <1>0, <1>1, <1>2 DEF Types, ReceiveConnect, ReceiveData, ReceiveClose
  <2> QED
    BY <1>0, <1>2, <2>1, <2>2, UpLineStays
<1>4. /\ sent[c] \in Nat /\ ~Over(c) /\ Told(f) /\ UpLine(c)
      /\ c \in connecting => c \notin streams
  BY <1>0, <1>1 DEF Types, Tables, Protocol, Over, Silent
<1>5. CASE ReceiveConnect(f)
  <2>1. /\ c \notin streams /\ Line(up, c, 0, sent[c]) /\ f.kind = "CONNECT"
    BY <1>0, <1>1, <1>4, <1>5 DEF Tables, Told, UpLine, ReceiveConnect
  <2>2. Line(up', c, 0, sent[c])
    BY <1>0, <1>1, <1>2, <1>4, <2>1, LineTaken
  <2>3. /\ pending'[c] = <<>> /\ c \in connecting' /\ c \notin streams' /\ task'[c] = "dialing"
    BY <1>0, <1>1, <1>5, <2>1 DEF Types, ReceiveConnect
  <2>4. Len(<<>>) = 0
    OBVIOUS
  <2>5. UpLine(c)'
    BY <1>2, <2>2, <2>3, <2>4 DEF UpLine
  <2> QED
    BY <1>3, <2>5
<1>6. CASE ReceiveData(f)
  <2>1. task[c] # "none"
    <3>1. up[1].kind = "DATA" /\ up[1].conn = c
      BY <1>1, <1>6 DEF ReceiveData
    <3> QED
      BY <1>4, <3>1 DEF UpLine, AfterConnect
  <2>2. UNCHANGED <<connecting, streams, task>> /\ up[1].kind = "DATA" /\ up[1].conn = c
    BY <1>1, <1>6 DEF ReceiveData
  <2>3. ASSUME c \in connecting
        PROVE  Line(up', c, Len(pending'[c]), sent[c])
    <3>1. pending'[c] = Append(pending[c], f.chunk) /\ pending[c] \in Seq(Chunks)
      BY <1>0, <1>1, <1>4, <1>6, <2>3 DEF Types, Tables, ReceiveData
    <3>2. Line(up, c, Len(pending[c]), sent[c])
      BY <1>4, <2>3 DEF UpLine
    <3>3. Line(up', c, Len(pending[c]) + 1, sent[c])
      BY <1>0, <1>2, <1>4, <2>2, <3>2, LineShorter
    <3>4. Len(pending'[c]) = Len(pending[c]) + 1
      BY <3>1
    <3> QED
      BY <3>3, <3>4
  <2>4. ASSUME c \in streams
        PROVE  Line(up', c, Len(arrived'[c]), sent[c])
    <3>1. arrived'[c] = Append(arrived[c], f.chunk) /\ arrived[c] \in Seq(Chunks)
      BY <1>0, <1>1, <1>6, <2>4 DEF Types, Tables, ReceiveData
    <3>2. Line(up, c, Len(arrived[c]), sent[c])
      BY <1>4, <2>4 DEF UpLine
    <3>3. Line(up', c, Len(arrived[c]) + 1, sent[c])
      BY <1>0, <1>2, <1>4, <2>2, <3>2, LineShorter
    <3>4. Len(arrived'[c]) = Len(arrived[c]) + 1
      BY <3>1
    <3> QED
      BY <3>3, <3>4
  <2>5. task[c] = "dialing" => c \in connecting
    BY <1>4 DEF UpLine
  <2>6. UpLine(c)'
    BY <1>2, <2>1, <2>2, <2>3, <2>4, <2>5 DEF UpLine
  <2> QED
    BY <1>3, <2>6
<1>7. CASE ReceiveClose(f)
  <2>1. /\ up[1].kind = "CLOSE" /\ up[1].conn = c /\ app[c] = "closed" /\ task' = task
        /\ c \notin connecting' /\ c \notin streams'
    BY <1>1, <1>4, <1>7 DEF ReceiveClose, Told
  <2>2. Silent(up', c)
    <3>1. /\ Len(up') = Len(up) - 1 /\ Len(up) \in Nat
          /\ \A i \in 1..Len(up) - 1 : up'[i] = up[i + 1]
      BY <1>0, <1>2, Taken
    <3>2. \A i \in 1..Len(up) - 1 : i + 1 \in 1..Len(up) /\ 1 < i + 1
      BY <3>1
    <3>3. \A i \in 1..Len(up) - 1 : up[i + 1].conn # c
      BY <1>0, <2>1, <3>2 DEF Protocol, Orderly
    <3> QED
      BY <3>1, <3>3 DEF Silent
  <2>3. task[c] = "none" => Line(up', c, 0, sent[c]) /\ AfterConnect(up', c)
    <3>1. ASSUME task[c] = "none"
          PROVE  Line(up', c, 0, sent[c])
      <4>1. Line(up, c, 0, sent[c])
        BY <1>4, <3>1 DEF UpLine
      <4> QED
        BY <1>0, <1>2, <1>4, <2>1, <4>1, LineTaken
    <3>2. AfterConnect(up', c)
      BY <2>2 DEF AfterConnect, Silent
    <3> QED
      BY <3>1, <3>2
  <2>4. Over(c)'
    BY <1>2, <2>1, <2>2 DEF Over
  <2>5. UpLine(c)'
    BY <1>2, <2>1, <2>3, <2>4 DEF UpLine
  <2> QED
    BY <1>3, <2>5
<1> QED
  BY <1>2, <1>5, <1>6, <1>7

\* The task that dials and pipes leaves the wire as it is.
LEMMA UpServed ==
  ASSUME Inv, transport = "stealth", sessionOpen, NEW c \in Conns, Dialed(c) \/ TaskEnds(c)
  PROVE  \A d \in Conns : UpLine(d)'
<1> USE DEF clientVars, tableVars, remoteVars
<1>0. /\ Types /\ Tables /\ up \in Seq(Frames) /\ \A d \in Conns : UpLine(d) /\ Written(d)
  BY FirstDelivered DEF Inv, Ordered
<1>1. UNCHANGED <<app, sent, up>>
  BY DEF Dialed, TaskEnds
<1>2. ASSUME NEW d \in Conns \ {c}
      PROVE  UpLine(d)'
  <2>1. Passes(up', up, d)
    BY <1>0, <1>1, OthersPass
  <2>2. /\ pending'[d] = pending[d] /\ task'[d] = task[d]
        /\ (d \in connecting' <=> d \in connecting) /\ (d \in streams' <=> d \in streams)
    <3>1. CASE Dialed(c)
      BY <1>0, <3>1 DEF Types, Dialed
    <3>2. CASE TaskEnds(c)
      BY <1>0, <3>2 DEF Types, TaskEnds
    <3> QED
      BY <3>1, <3>2
  <2>3. arrived'[d] = arrived[d]
    <3>1. arrived' = arrived \/ arrived' = [arrived EXCEPT ![c] = @ \o pending[c]]
      BY DEF Dialed, TaskEnds, Flush
    <3>2. arrived \in [Conns -> Seq(Chunks)] /\ d # c
      BY <1>0 DEF Types
    <3> QED
      BY <3>1, <3>2
  <2> QED
    BY <1>0, <1>1, <2>1, <2>2, <2>3, UpLineStays
<1>3. CASE Dialed(c)
  <2>1. /\ task[c] = "dialing" /\ task'[c] = "piping" /\ c \notin connecting' /\ c \in streams'
    BY <1>0, <1>3 DEF Types, Dialed
  <2>2. ASSUME c \in connecting
        PROVE  Line(up, c, Len(arrived'[c]), sent[c])
    <3>1. pending[c] \in Seq(Chunks) /\ arrived[c] = <<>>
      BY <1>0, <2>1, <2>2 DEF Types, Tables, Written
    <3>2. arrived'[c] = <<>> \o pending[c]
      BY <1>0, <1>3, <2>2, <3>1 DEF Types, Tables, Dialed, Flush
    <3>3. arrived'[c] = pending[c]
      BY <3>1, <3>2, ConcatEmptySeq
    <3> QED
      BY <1>0, <2>2, <3>3 DEF UpLine
  <2>3. c \notin connecting => Over(c)
    BY <1>0, <2>1 DEF UpLine
  <2>4. UpLine(c)'
    BY <1>1, <2>1, <2>2, <2>3 DEF UpLine, Over
  <2> QED
    BY <1>2, <2>4
<1>4. CASE TaskEnds(c)
  <2>1. task'[c] = "done" /\ c \notin connecting' /\ c \notin streams'
    BY <1>0, <1>4 DEF Types, TaskEnds
  <2>2. UpLine(c)'
    BY <2>1 DEF UpLine
  <2> QED
    BY <1>2, <2>2
<1> QED
  BY <1>3, <1>4

\* What the remote host has, what waits for it, and what is on the way to the server, is
\* what the application sent.
LEMMA UpStep ==
  ASSUME Inv, Next, transport = "stealth", sessionOpen'
  PROVE  \A c \in Conns : UpLine(c)'
<1> USE DEF clientVars, tableVars, remoteVars
<1>0. Types /\ Ordered /\ up \in Seq(Frames)
  BY FirstDelivered DEF Inv
<1>1. ASSUME NEW i, ReceiveUp(i)
      PROVE  sessionOpen
  BY <1>1 DEF ReceiveUp
<1>2. ASSUME NEW i, ReceiveDown(i)
      PROVE  \A d \in Conns : UpLine(d)'
  <2>1. /\ sessionOpen /\ UNCHANGED <<sent, up, connecting, streams, pending, arrived, task>>
        /\ \A d \in Conns : app'[d] = app[d] \/ (app[d] = "open" /\ app'[d] = "closing")
    BY <1>0, <1>2 DEF Types, ReceiveDown
  <2>2. ASSUME NEW d \in Conns
        PROVE  UpLine(d)'
    <3>1. UpLine(d) /\ Passes(up', up, d)
      BY <1>0, <2>1, OthersPass DEF Ordered
    <3> QED
      BY <1>0, <2>1, <3>1, UpLineStays
  <2> QED
    BY <2>2
<1>3. ASSUME NEW c \in Conns, Pipe(c)
      PROVE  \A d \in Conns : UpLine(d)'
  <2>1. sessionOpen /\ UNCHANGED <<app, sent, up, connecting, streams, pending, arrived, task>>
    BY <1>3 DEF Pipe
  <2>2. ASSUME NEW d \in Conns
        PROVE  UpLine(d)'
    <3>1. UpLine(d) /\ Passes(up', up, d)
      BY <1>0, <2>1, OthersPass DEF Ordered
    <3> QED
      BY <1>0, <2>1, <3>1, UpLineStays
  <2> QED
    BY <2>2
<1>4. ASSUME NEW c \in Conns,
             Open(c) \/ OpenHttp(c) \/ Refuse(c) \/ Send(c) \/ HandlerEnds(c)
      PROVE  \A d \in Conns : UpLine(d)'
  <2>1. sessionOpen
    BY <1>4 DEF Open, OpenHttp, Refuse, Send, HandlerEnds
  <2> QED
    BY <1>4, <2>1, UpSent
<1>5. ASSUME NEW c \in Conns, Dialed(c) \/ TaskEnds(c)
      PROVE  \A d \in Conns : UpLine(d)'
  <2>1. sessionOpen
    BY <1>5 DEF Dialed, TaskEnds
  <2> QED
    BY <1>5, <2>1, UpServed
<1>6. (\A i : ~LoseUp(i) /\ ~LoseDown(i)) /\ ~CloseSession
  BY DEF LoseUp, LoseDown, CloseSession
<1>7. ASSUME NEW c \in Conns,
             \/ Open(c) \/ OpenHttp(c) \/ Refuse(c) \/ Send(c) \/ HandlerEnds(c)
             \/ Dialed(c) \/ Pipe(c) \/ DialFails(c) \/ RemoteCloses(c) \/ ReadEnds(c)
      PROVE  \A d \in Conns : UpLine(d)'
  <2>1. DialFails(c) \/ RemoteCloses(c) \/ ReadEnds(c) => TaskEnds(c)
    BY DEF DialFails, RemoteCloses, ReadEnds
  <2> QED
    BY <1>3, <1>4, <1>5, <1>7, <2>1
<1>8. ASSUME DeliverDown
      PROVE  \A d \in Conns : UpLine(d)'
  BY <1>2, <1>8 DEF DeliverDown
<1>9. ASSUME DeliverUp
      PROVE  \A d \in Conns : UpLine(d)'
  <2>1. ReceiveUp(1) /\ 1 \in 1..Len(up)
    BY <1>9, FirstDelivered DEF DeliverUp
  <2> QED
    BY <1>1, <2>1, UpReceived
<1> QED
  BY <1>6, <1>7, <1>8, <1>9 DEF Next

\* Over a WebSocket every step keeps both directions of every connection in order.
LEMMA SequencedStep ==
  ASSUME Inv, Next
  PROVE  Sequenced'
<1> USE DEF clientVars, tableVars, remoteVars
<1>1. transport' = transport
  <2>1. ASSUME NEW c \in Conns,
               \/ Open(c) \/ OpenHttp(c) \/ Refuse(c) \/ Send(c) \/ HandlerEnds(c)
               \/ Dialed(c) \/ Pipe(c) \/ DialFails(c) \/ RemoteCloses(c) \/ ReadEnds(c)
        PROVE  transport' = transport
    BY <2>1 DEF Open, OpenHttp, Refuse, Send, HandlerEnds, Dialed, Pipe, DialFails,
                RemoteCloses, ReadEnds, TaskEnds
  <2>2. ASSUME NEW i, ReceiveUp(i) \/ ReceiveDown(i) \/ LoseUp(i) \/ LoseDown(i) \/ CloseSession
        PROVE  transport' = transport
    BY <2>2 DEF ReceiveUp, ReceiveDown, LoseUp, LoseDown, CloseSession
  <2> QED
    BY <2>1, <2>2 DEF Next, DeliverUp, DeliverDown
<1>2. ASSUME transport = "stealth"
      PROVE  Ordered'
  BY <1>2, WrittenStep, DownStep, UpStep DEF Ordered
<1> QED
  BY <1>1, <1>2 DEF Sequenced

------------------------------------------------------------------------------------
(* The invariant *)

\* No connection has begun.
LEMMA Initially ==
  ASSUME Init
  PROVE  Inv
<1>1. <<>> \in Seq(Frames) /\ <<>> \in Seq(Chunks) /\ Len(<<>>) = 0
  OBVIOUS
<1>2. Types
  <2>1. transport \in {"udp", "stealth"}
    BY TransportsAssumption DEF Init
  <2> QED
    BY <1>1, <2>1 DEF Init, Types, Wired
<1>3. Tables
  BY DEF Init, Tables
<1>4. Protocol
  BY <1>1 DEF Init, Protocol, Orderly
<1>5. \A c : Line(<<>>, c, 0, 0) /\ AfterConnect(<<>>, c)
  BY <1>1 DEF Line, AfterConnect
<1>6. InOrder(<<>>)
  BY <1>1 DEF InOrder
<1>7. ASSUME NEW c \in Conns
      PROVE  Written(c) /\ DownLine(c) /\ UpLine(c)
  BY <1>1, <1>5, <1>6 DEF Init, Written, DownLine, UpLine
<1>8. Ordered
  BY <1>1, <1>7 DEF Init, Ordered
<1> QED
  BY <1>2, <1>3, <1>4, <1>8 DEF Inv, Sequenced

\* The invariant holds in every reachable state.
LEMMA Invariance == Spec => []Inv
<1>1. Init => Inv
  BY Initially
<1>2. Inv /\ [Next]_vars => Inv'
  <2> SUFFICES ASSUME Inv, [Next]_vars
               PROVE  Inv'
    OBVIOUS
  <2>1. CASE Next
    BY <2>1, TypesStep, TablesStep, ProtocolStep, SequencedStep DEF Inv
  <2>2. CASE UNCHANGED vars
    <3>1. /\ UNCHANGED <<transport, app, sent, fed, up, down, sessionOpen, connecting>>
          /\ UNCHANGED <<pending, streams, task, remote, arrived, answered>>
      BY <2>2 DEF vars
    <3>2. Types'
      BY <3>1 DEF Inv, Types, Wired
    <3>3. Tables'
      BY <3>1 DEF Inv, Tables
    <3>4. Protocol'
      BY <3>1 DEF Inv, Protocol, Told, Orderly
    <3>5. Sequenced'
      BY <3>1 DEF Inv, Sequenced, Ordered, Written, DownLine, UpLine, Over
    <3> QED
      BY <3>2, <3>3, <3>4, <3>5 DEF Inv
  <2> QED
    BY <2>1, <2>2
<1> QED
  BY <1>1, <1>2, PTL DEF Spec

------------------------------------------------------------------------------------
(* What it says *)

\* Every variable keeps its type: in particular every entry of proxy_connecting belongs to
\* a task that dials, and every entry of proxy_streams to one that pipes over an open socket.
THEOREM TypeCorrect == Spec => []TypeOK
<1>1. Inv => TypeOK
  <2> SUFFICES ASSUME Inv
               PROVE  TypeOK
    OBVIOUS
  <2>1. Types /\ Tables
    BY DEF Inv
  <2>2. \A c \in Conns : Range(fed[c]) \subseteq Chunks /\ Range(arrived[c]) \subseteq Chunks
    BY <2>1, RangeOfSeq DEF Types
  <2>3. \A c \in Conns : pending[c] # NoBuffer => Range(pending[c]) \subseteq Chunks
    BY <2>1, RangeOfSeq DEF Types
  <2>4. \A f \in Range(up) \cup Range(down) : f \in Frames
    BY <2>1, RangeOfSeq DEF Types, Wired
  <2>5. \A f \in Range(up) \cup Range(down) : f.conn \in Conns /\ f.chunk \in 0..MaxChunks
    BY <2>4 DEF Frames
  <2>6. connecting \subseteq {c \in Conns : task[c] = "dialing"}
    BY <2>1 DEF Types, Tables
  <2>7. streams \subseteq {c \in Conns : task[c] = "piping" /\ remote[c] = "open"}
    BY <2>1 DEF Types, Tables
  <2> QED
    BY <2>1, <2>2, <2>3, <2>5, <2>6, <2>7 DEF Types, TypeOK
<1> QED
  BY <1>1, Invariance, PTL

\* Over a WebSocket both ends of every connection read what the other end wrote, from the
\* first chunk on and without a gap, whatever was sent while the server was dialling.
THEOREM StreamsHold == Spec => []StreamsIntactInOrder
<1>1. Inv => StreamsIntactInOrder
  BY DEF Inv, Sequenced, Ordered, Written, StreamsIntactInOrder
<1> QED
  BY <1>1, Invariance, PTL

\* The chunks from lo + 1 to hi are hi - lo frames.
LEMMA UnderwayIs ==
  ASSUME NEW w \in Seq(Frames), NEW c, NEW lo, NEW hi \in Nat, Line(w, c, lo, hi)
  PROVE  Underway(w, c) = hi - lo
<1> DEFINE D == {i \in 1..Len(w) : w[i].kind = "DATA" /\ w[i].conn = c}
           T == lo + 1..hi
           g == [i \in D |-> w[i].chunk]
<1>1. Len(w) \in Nat /\ lo \in Int /\ lo <= hi
  BY LenProperties DEF Line
<1>2. \A i \in D : g[i] \in T
  BY DEF Line
<1>3. \A i, j \in D : g[i] = g[j] => i = j
  <2>1. ASSUME NEW i \in D, NEW j \in D, i < j
        PROVE  g[i] # g[j]
    <3>1. g[i] \in Int /\ g[j] \in Int /\ g[i] < g[j]
      BY <1>1, <1>2, <2>1 DEF Line
    <3> QED
      BY <3>1
  <2>2. \A i, j \in D : i = j \/ i < j \/ j < i
    BY <1>1
  <2> HIDE DEF D, g
  <2> QED
    BY <2>1, <2>2
<1>4. \A k \in T : \E i \in D : g[i] = k
  <2> SUFFICES ASSUME NEW k \in T
               PROVE  \E i \in D : g[i] = k
    OBVIOUS
  <2>1. PICK i \in 1..Len(w) : w[i] = Frame("DATA", c, k)
    BY DEF Line
  <2>2. w[i].kind = "DATA" /\ w[i].conn = c /\ w[i].chunk = k
    BY <2>1 DEF Frame
  <2> QED
    BY <2>2
<1>5. IsFiniteSet(D)
  <2>1. IsFiniteSet(1..Len(w))
    BY <1>1, FS_Interval
  <2> QED
    BY <2>1, FS_Subset
<1>6. g \in Bijection(D, T)
  <2>1. g \in [D -> T]
    BY <1>2
  <2> QED
    BY <1>3, <1>4, <2>1, Fun_IsBij
<1>7. ExistsBijection(D, T)
  BY <1>6, Fun_ExistsBij
<1>8. Cardinality(D) = Cardinality(T)
  BY <1>5, <1>7, FS_Bijection
<1>9. Cardinality(T) = hi - lo
  <2>1. Cardinality(lo + 1..hi) = IF lo + 1 > hi THEN 0 ELSE hi - (lo + 1) + 1
    BY <1>1, FS_Interval
  <2> QED
    BY <1>1, <2>1
<1> QED
  BY <1>8, <1>9 DEF Underway

\* Over a WebSocket, while the session lives and the application has not ended, each chunk
\* is on its way, waits for the connection that is dialled, or was written.
THEOREM NothingLost == Spec => []NothingDisappears
<1>1. Inv => NothingDisappears
  <2> SUFFICES ASSUME Inv, transport = "stealth", sessionOpen, NEW c \in Conns, app[c] = "open"
               PROVE  /\ task[c] = "piping" /\ remote[c] = "open" =>
                           sent[c] = Len(arrived[c]) + Underway(up, c)
                      /\ task[c] = "dialing" => sent[c] = Len(pending[c]) + Underway(up, c)
                      /\ answered[c] = Len(fed[c]) + Underway(down, c)
    BY DEF NothingDisappears
  <2>1. /\ Types /\ Tables /\ UpLine(c) /\ DownLine(c) /\ ~Over(c)
        /\ up \in Seq(Frames) /\ down \in Seq(Frames)
        /\ sent[c] \in Nat /\ answered[c] \in Nat
    BY DEF Inv, Sequenced, Ordered, Over, Types, Wired
  <2>2. ASSUME task[c] = "piping", remote[c] = "open"
        PROVE  sent[c] = Len(arrived[c]) + Underway(up, c)
    <3>1. Line(up, c, Len(arrived[c]), sent[c])
      BY <2>1, <2>2 DEF Tables, UpLine
    <3>2. Underway(up, c) = sent[c] - Len(arrived[c])
      BY <2>1, <3>1, UnderwayIs
    <3> QED
      BY <2>1, <3>1, <3>2 DEF Line
  <2>3. ASSUME task[c] = "dialing"
        PROVE  sent[c] = Len(pending[c]) + Underway(up, c)
    <3>1. Line(up, c, Len(pending[c]), sent[c])
      BY <2>1, <2>3 DEF UpLine
    <3>2. Underway(up, c) = sent[c] - Len(pending[c])
      BY <2>1, <3>1, UnderwayIs
    <3> QED
      BY <2>1, <3>1, <3>2 DEF Line
  <2>4. answered[c] = Len(fed[c]) + Underway(down, c)
    <3>1. Line(down, c, Len(fed[c]), answered[c])
      BY <2>1 DEF DownLine
    <3>2. Underway(down, c) = answered[c] - Len(fed[c])
      BY <2>1, <3>1, UnderwayIs
    <3> QED
      BY <2>1, <3>1, <3>2 DEF Line
  <2> QED
    BY <2>2, <2>3, <2>4
<1> QED
  BY <1>1, Invariance, PTL

\* With either transport, a relay that ended left no socket, no buffer and no entry behind.
THEOREM EndedForgotten == Spec => []EndedIsForgotten
<1>1. Inv => EndedIsForgotten
  BY DEF Inv, Types, Tables, EndedIsForgotten
<1> QED
  BY <1>1, Invariance, PTL
====================================================================================
