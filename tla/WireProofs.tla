----------------------------- MODULE WireProofs -----------------------------
(***************************************************************************)
(* Safety of a connection (module Wire), for any number of goroutines on   *)
(* each side, any messages and any order of reading, writing and closing.  *)
(*                                                                         *)
(* The bytes on the wire have no boundaries.  The invariant says which     *)
(* they are: after what is left of the handshake, the length that the      *)
(* reader has taken already, the bytes that wait, and what the goroutine   *)
(* with the lock has yet to write are together the frames of the messages  *)
(* that were sent and not yet received.                                    *)
(***************************************************************************)
EXTENDS Wire, CodecProofs

-----------------------------------------------------------------------------
\* The invariant

Typed ==
  /\ version \in Versions
  /\ stage \in [Sides -> {"hello", "await", "accept", "open", "shut"}]
  /\ stage["client"] # "accept" /\ stage["server"] \notin {"hello", "await"}
  /\ wire \in [Sides -> Seq(Nat)]
  /\ pc \in [Writer -> {"idle", "lock", "body"}]
  /\ frame \in [Writer -> Seq(Nat)] /\ DOMAIN msg = Writer
  /\ rpc \in [Sides -> {"head", "body", "refused", "eof"}] /\ need \in [Sides -> Nat]
  /\ sent \in [Sides -> Seq(Fitting)] /\ received \in [Sides -> Seq(Fitting)]

\* A side that has not opened the connection has exchanged nothing.
Silent(s) ==
  /\ sent[s] = <<>> /\ received[s] = <<>> /\ rpc[s] = "head"
  /\ \A w \in Writer : w[1] = s => pc[w] = "idle"

Early == \A s \in Sides : stage[s] \in {"hello", "await", "accept"} => Silent(s)

Gate ==
  version # ProtocolVersion => \A s \in Sides : stage[s] # "open" /\ Silent(s)

\* The lock, and what a goroutine that has encoded its message holds.
Single ==
  \A v, w \in Writer : v[1] = w[1] /\ pc[v] = "body" /\ pc[w] = "body" => v = w

Encoded ==
  \A w \in Writer : pc[w] # "idle" => msg[w] \in Fitting /\ frame[w] = encode(msg[w])

\* Until the daemon has accepted, only the client's greeting is on the wire.
Greeting ==
  /\ stage["client"] = "hello" => /\ stage["server"] # "open"
                                  /\ wire["client"] = <<>> /\ wire["server"] = <<>>
  /\ stage["server"] = "accept" =>
       /\ stage["client"] # "open" /\ wire["server"] = <<>>
       /\ stage["client"] = "await" => wire["client"] = hello(version, Version)

Reading ==
  \A r \in Sides :
    /\ stage[r] = "open" => rpc[r] \in {"head", "body"}
    /\ rpc[r] = "body" => need[r] \in 1 .. FrameMax

\* The frames of the messages ms after the first n.
bytes(m) == be(Len(encode(m)), 4) \o encode(m)
Stream(ms, n) == FlattenSeq([i \in 1 .. Len(ms) - n |-> bytes(ms[n + i])])

Framing(h, rest, tail, ms, n) == n <= Len(ms) /\ h \o (rest \o tail) = Stream(ms, n)

\* The daemon's greeting, if it is still to be read; the length that is read
\* before the payload; what is still to be written of a frame.
greeting(r) == IF r = "client" /\ stage[r] = "await" THEN hello(ProtocolVersion, Version) ELSE <<>>
headOf(r) == IF rpc[r] = "body" THEN be(need[r], 4) ELSE <<>>
Rest(s, tail) ==
  \/ ~locked(s) /\ tail = <<>>
  \/ \E w \in Writer : w[1] = s /\ pc[w] = "body" /\ tail = frame[w]

\* What r reads.  On a broken connection the rest of a frame may never come.
Flow(r) ==
  \E rest, tail \in Seq(Nat) :
    /\ wire[peer(r)] = greeting(r) \o rest
    /\ Framing(headOf(r), rest, tail, sent[peer(r)], Len(received[r]))
    /\ up => Rest(peer(r), tail)

Linked == \A r \in Sides : stage[r] = "open" => Flow(r)

Awaiting ==
  stage["client"] = "await" =>
    \/ stage["server"] # "open" /\ wire["server"] = <<>>
    \/ stage["server"] = "shut" /\ version # ProtocolVersion /\ wire["server"] = hello(0, <<>>)
    \/ version = ProtocolVersion /\ Flow("client")

\* What has been received is what was sent first.
Ordered ==
  \A r \in Sides : /\ Len(received[r]) <= Len(sent[peer(r)])
                   /\ \A i \in 1 .. Len(received[r]) : received[r][i] = sent[peer(r)][i]

WireInv ==
  /\ Typed /\ Early /\ Gate /\ Single /\ Encoded /\ Greeting
  /\ Reading /\ Linked /\ Awaiting /\ Ordered

-----------------------------------------------------------------------------
\* Sequences of bytes

LEMMA Cancel ==
  ASSUME NEW a \in Seq(Nat), NEW b \in Seq(Nat), NEW x \in Seq(Nat), NEW y \in Seq(Nat),
         Len(a) = Len(b), a \o x = b \o y
  PROVE  a = b /\ x = y
<1>1. Len(a) + Len(x) = Len(b) + Len(y)
  <2>1. Len(a \o x) = Len(a) + Len(x) /\ Len(b \o y) = Len(b) + Len(y)
    BY ConcatNat
  <2>2. QED
    BY <2>1
<1>2. Len(x) = Len(y)
  BY <1>1
<1>3. \A i \in 1 .. Len(a) : (a \o x)[i] = a[i]
  BY ConcatFirst
<1>4. \A i \in 1 .. Len(b) : (b \o y)[i] = b[i]
  BY ConcatFirst
<1>5. \A i \in 1 .. Len(x) : (a \o x)[Len(a) + i] = x[i]
  BY ConcatSecond
<1>6. \A i \in 1 .. Len(y) : (b \o y)[Len(b) + i] = y[i]
  BY ConcatSecond
<1>7. \A i \in 1 .. Len(a) : a[i] = b[i]
  BY <1>3, <1>4
<1>8. \A i \in 1 .. Len(x) : x[i] = y[i]
  BY <1>2, <1>5, <1>6
<1>9. a = b
  BY <1>7, SeqEqual
<1>10. x = y
  BY <1>2, <1>8, SeqEqual
<1>11. QED
  BY <1>9, <1>10

LEMMA Assoc ==
  ASSUME NEW a \in Seq(Nat), NEW b \in Seq(Nat), NEW c \in Seq(Nat)
  PROVE  (a \o b) \o c = a \o (b \o c)
BY ConcatAssociative

LEMMA Longer ==
  ASSUME NEW a \in Seq(Nat), NEW b \in Seq(Nat), NEW c \in Seq(Nat), NEW x, x = a \o b
  PROVE  x \o c = a \o (b \o c)
<1>1. x \o c = (a \o b) \o c
  OBVIOUS
<1>2. (a \o b) \o c = a \o (b \o c)
  BY Assoc, Zenon
<1>3. QED
  BY <1>1, <1>2, Zenon

LEMMA NoBytes ==
  ASSUME NEW a \in Seq(Nat)
  PROVE  <<>> \o a = a /\ a \o <<>> = a /\ (Len(a) = 0 <=> a = <<>>)
OBVIOUS

LEMMA NotEmpty ==
  ASSUME NEW a \in Seq(Nat), NEW b \in Seq(Nat), Len(a) = 4
  PROVE  a \o b # <<>>
<1>1. Len(a \o b) = Len(a) + Len(b)
  BY ConcatNat, Zenon
<1>2. Len(a \o b) # 0
  <2>1. Len(b) \in Nat
    OBVIOUS
  <2>2. QED
    BY <1>1, <2>1
<1>3. QED
  BY <1>2

\* Two lengths at the start of the same bytes.
LEMMA FourBytes ==
  ASSUME NEW a \in Seq(Nat), NEW b \in Seq(Nat), NEW x \in Seq(Nat), NEW y \in Seq(Nat),
         Len(a) = 4, Len(b) = 4, a \o x = b \o y
  PROVE  a = b /\ x = y
<1>1. Len(a) = Len(b)
  OBVIOUS
<1>2. QED
  BY <1>1, Cancel, Zenon

\* A sequence is what is taken from its front and what is left.
LEMMA Split ==
  ASSUME NEW x \in Seq(Nat), NEW k \in 0 .. Len(x)
  PROVE  /\ SubSeq(x, 1, k) \in Seq(Nat) /\ Len(SubSeq(x, 1, k)) = k
         /\ SubSeq(x, k + 1, Len(x)) \in Seq(Nat)
         /\ Len(SubSeq(x, k + 1, Len(x))) = Len(x) - k
         /\ x = SubSeq(x, 1, k) \o SubSeq(x, k + 1, Len(x))
<1> DEFINE a == SubSeq(x, 1, k)
           b == SubSeq(x, k + 1, Len(x))
<1>1. a \in Seq(Nat) /\ Len(a) = k /\ \A i \in 1 .. k : a[i] = x[i]
  OBVIOUS
<1>2. b \in Seq(Nat) /\ Len(b) = Len(x) - k /\ \A i \in 1 .. Len(x) - k : b[i] = x[k + i]
  OBVIOUS
<1> HIDE DEF a, b
<1>3. a \o b \in Seq(Nat) /\ Len(a \o b) = Len(x)
  <2>1. a \o b \in Seq(Nat) /\ Len(a \o b) = Len(a) + Len(b)
    BY <1>1, <1>2, ConcatNat
  <2>2. Len(x) \in Nat
    OBVIOUS
  <2>3. Len(a) + Len(b) = Len(x)
    BY <1>1, <1>2, <2>2
  <2>4. QED
    BY <2>1, <2>3
<1>4. ASSUME NEW i \in 1 .. Len(x)
      PROVE  (a \o b)[i] = x[i]
  <2>1. CASE i <= k
    <3>1. i \in 1 .. Len(a) /\ i \in 1 .. k
      BY <1>1, <2>1
    <3>2. QED
      BY <1>1, <1>2, <3>1, ConcatFirst
  <2>2. CASE i > k
    <3> DEFINE j == i - k
               l == Len(x)
    <3>1. l \in Nat /\ j \in 1 .. l - k /\ k + j = i
      BY <2>2
    <3> HIDE DEF j
    <3>2. j \in 1 .. Len(b)
      BY <1>2, <3>1
    <3>3. (a \o b)[Len(a) + j] = b[j]
      BY <1>1, <1>2, <3>2, ConcatSecond
    <3>4. QED
      BY <1>1, <1>2, <3>1, <3>3
  <2>3. i <= k \/ i > k
    OBVIOUS
  <2>4. QED
    BY <2>1, <2>2, <2>3, Zenon
<1>5. a \o b = x
  BY <1>3, <1>4, SeqEqual
<1>6. QED
  BY <1>1, <1>2, <1>5 DEF a, b

LEMMA FourTaken ==
  ASSUME NEW a \in Seq(Nat), NEW rest \in Seq(Nat), Len(a) = 4
  PROVE  SubSeq(a \o rest, 5, Len(a \o rest)) = rest
<1> DEFINE b == a \o rest
           x == SubSeq(b, 1, 4)
           y == SubSeq(b, 5, Len(b))
<1>1. b \in Seq(Nat) /\ Len(b) = Len(a) + Len(rest)
  BY ConcatNat
<1> HIDE DEF b
<1>2. 4 \in 0 .. Len(b) /\ 4 + 1 = 5
  <2>1. Len(rest) \in Nat
    OBVIOUS
  <2>2. QED
    BY <1>1, <2>1
<1>3. x \in Seq(Nat) /\ Len(x) = 4 /\ y \in Seq(Nat) /\ b = x \o y
  <2>1. /\ x \in Seq(Nat) /\ Len(x) = 4
        /\ SubSeq(b, 4 + 1, Len(b)) \in Seq(Nat) /\ b = x \o SubSeq(b, 4 + 1, Len(b))
    BY <1>1, <1>2, Split, Zenon
  <2>2. QED
    BY <1>2, <2>1, Zenon
<1> HIDE DEF x, y
<1>4. x \o y = a \o rest
  BY <1>3 DEF b
<1>5. y = rest
  BY <1>3, <1>4, FourBytes
<1>6. QED
  BY <1>5 DEF y, b

\* FlattenSeq of one part more at the end.
LEMMA FlattenEnd ==
  ASSUME NEW n \in Nat, NEW s \in [1 .. n + 1 -> Seq(Nat)], NEW t \in [1 .. n -> Seq(Nat)],
         \A i \in 1 .. n : t[i] = s[i]
  PROVE  FlattenSeq(s) = FlattenSeq(t) \o s[n + 1]
<1>1. PICK g \in [0 .. n + 1 -> Seq(Nat)] :
        /\ g[0] = <<>> /\ g[n + 1] = FlattenSeq(s)
        /\ \A i \in 1 .. n + 1 : g[i] = g[i - 1] \o s[i]
  <2>1. n + 1 \in Nat
    OBVIOUS
  <2>2. QED
    BY <2>1, FlattenDef
<1>2. PICK h \in [0 .. n -> Seq(Nat)] :
        /\ h[0] = <<>> /\ h[n] = FlattenSeq(t)
        /\ \A i \in 1 .. n : h[i] = h[i - 1] \o t[i]
  BY FlattenDef
<1> DEFINE Same(k) == g[k] = h[k]
           T == {k \in Nat : k <= n => Same(k)}
<1>3. 0 \in T
  BY <1>1, <1>2
<1>4. ASSUME NEW k \in T
      PROVE  k + 1 \in T
  <2>1. SUFFICES ASSUME k + 1 <= n
                 PROVE  g[k + 1] = h[k + 1]
    OBVIOUS
  <2>2. k + 1 \in 1 .. n + 1 /\ k + 1 \in 1 .. n /\ (k + 1) - 1 = k /\ k <= n
    BY <2>1
  <2>3. g[k + 1] = g[k] \o s[k + 1]
    BY <1>1, <2>2
  <2>4. h[k + 1] = h[k] \o t[k + 1]
    BY <1>2, <2>2
  <2>5. QED
    BY <2>2, <2>3, <2>4
<1>5. \A k \in Nat : k \in T
  BY <1>3, <1>4, Induction
<1>6. g[n] = h[n]
  BY <1>5
<1>7. g[n + 1] = g[n] \o s[n + 1]
  <2>1. n + 1 \in 1 .. n + 1 /\ (n + 1) - 1 = n
    OBVIOUS
  <2>2. QED
    BY <1>1, <2>1
<1>8. QED
  BY <1>1, <1>2, <1>6, <1>7

\* FlattenSeq of one part more at the front.
LEMMA FlattenFront ==
  ASSUME NEW n \in Nat, NEW s \in [1 .. n + 1 -> Seq(Nat)], NEW t \in [1 .. n -> Seq(Nat)],
         \A i \in 1 .. n : t[i] = s[i + 1]
  PROVE  FlattenSeq(s) = s[1] \o FlattenSeq(t)
<1>1. PICK g \in [0 .. n + 1 -> Seq(Nat)] :
        /\ g[0] = <<>> /\ g[n + 1] = FlattenSeq(s)
        /\ \A i \in 1 .. n + 1 : g[i] = g[i - 1] \o s[i]
  <2>1. n + 1 \in Nat
    OBVIOUS
  <2>2. QED
    BY <2>1, FlattenDef
<1>2. PICK h \in [0 .. n -> Seq(Nat)] :
        /\ h[0] = <<>> /\ h[n] = FlattenSeq(t)
        /\ \A i \in 1 .. n : h[i] = h[i - 1] \o t[i]
  BY FlattenDef
<1> DEFINE Same(k) == g[k + 1] = s[1] \o h[k]
           T == {k \in Nat : k <= n => Same(k)}
<1> HIDE DEF Same
<1>3. 0 \in T
  <2>1. s[1] \in Seq(Nat) /\ 1 \in 1 .. n + 1 /\ 1 - 1 = 0
    OBVIOUS
  <2>2. g[1] = g[0] \o s[1]
    BY <1>1, <2>1
  <2>3. <<>> \o s[1] = s[1] /\ s[1] \o <<>> = s[1]
    BY <2>1, NoBytes
  <2>4. Same(0)
    BY <1>1, <1>2, <2>2, <2>3 DEF Same
  <2>5. QED
    BY <2>4
<1>4. ASSUME NEW k \in T
      PROVE  k + 1 \in T
  <2>1. SUFFICES ASSUME k + 1 <= n
                 PROVE  Same(k + 1)
    OBVIOUS
  <2>2. /\ k + 2 \in 1 .. n + 1 /\ k + 1 \in 1 .. n /\ (k + 1) - 1 = k /\ k <= n
        /\ (k + 2) - 1 = k + 1 /\ (k + 1) + 1 = k + 2 /\ k \in 0 .. n
    BY <2>1
  <2>3. g[k + 2] = g[k + 1] \o s[k + 2]
    BY <1>1, <2>2
  <2>4. h[k + 1] = h[k] \o t[k + 1] /\ t[k + 1] = s[k + 2]
    BY <1>2, <2>2
  <2>5. s[1] \in Seq(Nat) /\ h[k] \in Seq(Nat) /\ s[k + 2] \in Seq(Nat)
    BY <2>2
  <2>6. (s[1] \o h[k]) \o s[k + 2] = s[1] \o (h[k] \o s[k + 2])
    BY <2>5, Assoc
  <2>7. g[k + 1] = s[1] \o h[k]
    BY <2>2 DEF Same
  <2>8. QED
    BY <2>2, <2>3, <2>4, <2>6, <2>7 DEF Same
<1>5. \A k \in Nat : k \in T
  BY <1>3, <1>4, Induction
<1>6. g[n + 1] = s[1] \o h[n]
  <2>1. n \in T
    BY <1>5
  <2>2. n <= n
    OBVIOUS
  <2>3. Same(n)
    BY <2>1, <2>2
  <2>4. QED
    BY <2>3 DEF Same
<1>7. QED
  BY <1>1, <1>2, <1>6

-----------------------------------------------------------------------------
\* Streams of frames

LEMMA FittingMessage ==
  ASSUME NEW m \in Fitting
  PROVE  /\ isMessage(m) /\ fitsAll(m)
         /\ encode(m) \in Seq(Nat) /\ Len(encode(m)) \in Nat \ {0}
         /\ be(Len(encode(m)), 4) \in Seq(Nat) /\ Len(be(Len(encode(m)), 4)) = 4
         /\ bytes(m) \in Seq(Nat)
<1>1. isMessage(m) /\ fitsAll(m)
  BY WireAssumption DEF Fitting
<1> DEFINE e == encode(m)
           l == Len(e)
<1>2. e \in Seq(Nat) /\ l \in Nat \ {0}
  BY <1>1, EncodeType
<1> HIDE DEF l, e
<1>3. l \in Int
  BY <1>2
<1>4. be(l, 4) \in Seq(Nat) /\ Len(be(l, 4)) = 4
  BY <1>3, BeType
<1>5. be(l, 4) \o e \in Seq(Nat)
  BY <1>2, <1>4, ConcatNat
<1>6. QED
  BY <1>1, <1>2, <1>4, <1>5 DEF bytes, e, l

\* The parts of a stream.
LEMMA StreamType ==
  ASSUME NEW ms \in Seq(Fitting), NEW n \in 0 .. Len(ms)
  PROVE  /\ [i \in 1 .. Len(ms) - n |-> bytes(ms[n + i])] \in [1 .. Len(ms) - n -> Seq(Nat)]
         /\ Len(ms) - n \in Nat /\ Stream(ms, n) \in Seq(Nat)
<1> DEFINE l == Len(ms) - n
           s == [i \in 1 .. l |-> bytes(ms[n + i])]
<1>1. l \in Nat /\ \A i \in 1 .. l : n + i \in 1 .. Len(ms)
  OBVIOUS
<1>2. ASSUME NEW i \in 1 .. l
      PROVE  bytes(ms[n + i]) \in Seq(Nat)
  <2>1. ms[n + i] \in Fitting
    BY <1>1
  <2>2. QED
    BY <2>1, FittingMessage
<1>3. s \in [1 .. l -> Seq(Nat)]
  BY <1>2
<1> HIDE DEF s, l
<1>4. FlattenSeq(s) \in Seq(Nat)
  BY <1>1, <1>3, FlattenLen
<1>5. QED
  BY <1>1, <1>3, <1>4 DEF Stream, s, l

LEMMA StreamNone ==
  ASSUME NEW ms \in Seq(Fitting)
  PROVE  Stream(ms, Len(ms)) = <<>>
<1> DEFINE s == [i \in 1 .. 0 |-> bytes(ms[Len(ms) + i])]
<1>1. Stream(ms, Len(ms)) = FlattenSeq(s)
  <2>1. Len(ms) - Len(ms) = 0
    OBVIOUS
  <2>2. QED
    BY <2>1, Zenon DEF Stream
<1>2. s \in [1 .. 0 -> Seq(Nat)]
  OBVIOUS
<1> HIDE DEF s
<1>3. PICK g \in [0 .. 0 -> Seq(Nat)] : g[0] = <<>> /\ g[0] = FlattenSeq(s)
  BY <1>2, FlattenDef
<1>4. QED
  BY <1>1, <1>3

LEMMA StreamAppend ==
  ASSUME NEW ms \in Seq(Fitting), NEW n \in 0 .. Len(ms), NEW m \in Fitting
  PROVE  Stream(Append(ms, m), n) = Stream(ms, n) \o bytes(m)
<1> DEFINE l == Len(ms) - n
           t == [i \in 1 .. l |-> bytes(ms[n + i])]
           s == [i \in 1 .. l + 1 |-> bytes(Append(ms, m)[n + i])]
           a == Append(ms, m)
<1>1. t \in [1 .. l -> Seq(Nat)] /\ l \in Nat
  BY StreamType
<1>2. a \in Seq(Fitting) /\ Len(a) = Len(ms) + 1 /\ n \in 0 .. Len(a)
  OBVIOUS
<1>3. Len(a) - n = l + 1
  BY <1>2
<1>4. s \in [1 .. l + 1 -> Seq(Nat)]
  <2> HIDE DEF a, l
  <2>1. [i \in 1 .. Len(a) - n |-> bytes(a[n + i])] \in [1 .. Len(a) - n -> Seq(Nat)]
    BY <1>2, StreamType
  <2>2. QED
    BY <1>3, <2>1 DEF a
<1>5. ASSUME NEW i \in 1 .. l
      PROVE  t[i] = s[i]
  <2>1. n + i \in 1 .. Len(ms) /\ i \in 1 .. l + 1
    BY <1>1
  <2>2. Append(ms, m)[n + i] = ms[n + i]
    BY <2>1
  <2>3. QED
    BY <2>1, <2>2
<1>6. s[l + 1] = bytes(m)
  <2>1. n + (l + 1) = Len(ms) + 1 /\ l + 1 \in 1 .. l + 1
    BY <1>1
  <2>2. Append(ms, m)[Len(ms) + 1] = m
    OBVIOUS
  <2>3. QED
    BY <2>1, <2>2
<1>7. Stream(ms, n) = FlattenSeq(t)
  BY DEF Stream
<1>8. Stream(a, n) = FlattenSeq(s)
  BY <1>3, Zenon DEF Stream
<1> HIDE DEF s, t, l, a
<1>9. FlattenSeq(s) = FlattenSeq(t) \o s[l + 1]
  BY <1>1, <1>4, <1>5, FlattenEnd
<1>10. QED
  BY <1>6, <1>7, <1>8, <1>9 DEF a

LEMMA StreamFront ==
  ASSUME NEW ms \in Seq(Fitting), NEW n \in 0 .. Len(ms), n < Len(ms)
  PROVE  Stream(ms, n) = bytes(ms[n + 1]) \o Stream(ms, n + 1)
<1> DEFINE l == Len(ms) - (n + 1)
           s == [i \in 1 .. l + 1 |-> bytes(ms[n + i])]
           t == [i \in 1 .. l |-> bytes(ms[(n + 1) + i])]
<1>1. n + 1 \in 0 .. Len(ms) /\ l + 1 = Len(ms) - n
  OBVIOUS
<1>2. t \in [1 .. l -> Seq(Nat)] /\ l \in Nat
  BY <1>1, StreamType
<1>3. s \in [1 .. l + 1 -> Seq(Nat)]
  <2>1. [i \in 1 .. Len(ms) - n |-> bytes(ms[n + i])] \in [1 .. Len(ms) - n -> Seq(Nat)]
    BY StreamType
  <2> HIDE DEF l
  <2>2. QED
    BY <1>1, <2>1
<1>4. ASSUME NEW i \in 1 .. l
      PROVE  t[i] = s[i + 1]
  <2>1. i + 1 \in 1 .. l + 1 /\ n + (i + 1) = (n + 1) + i
    BY <1>2
  <2>2. QED
    BY <2>1
<1>5. s[1] = bytes(ms[n + 1])
  <2>1. 1 \in 1 .. l + 1
    BY <1>2
  <2>2. QED
    BY <2>1
<1>6. Stream(ms, n + 1) = FlattenSeq(t)
  BY DEF Stream
<1>7. Stream(ms, n) = FlattenSeq(s)
  BY <1>1, Zenon DEF Stream
<1> HIDE DEF s, t, l
<1>8. FlattenSeq(s) = s[1] \o FlattenSeq(t)
  BY <1>2, <1>3, <1>4, FlattenFront
<1>9. QED
  BY <1>5, <1>6, <1>7, <1>8

\* A stream that is not empty starts with the length of the next frame.
LEMMA StreamFirst ==
  ASSUME NEW ms \in Seq(Fitting), NEW n \in 0 .. Len(ms), Stream(ms, n) # <<>>
  PROVE  /\ n < Len(ms) /\ ms[n + 1] \in Fitting /\ n + 1 \in 0 .. Len(ms)
         /\ Stream(ms, n + 1) \in Seq(Nat)
         /\ Stream(ms, n) = be(Len(encode(ms[n + 1])), 4)
                              \o (encode(ms[n + 1]) \o Stream(ms, n + 1))
<1>1. n < Len(ms)
  BY StreamNone
<1>2. ms[n + 1] \in Fitting /\ n + 1 \in 0 .. Len(ms)
  BY <1>1
<1>3. Stream(ms, n + 1) \in Seq(Nat)
  BY <1>2, StreamType
<1> DEFINE m == ms[n + 1]
           h == be(Len(encode(m)), 4)
<1>4. h \in Seq(Nat) /\ encode(m) \in Seq(Nat)
  BY <1>2, FittingMessage
<1>5. Stream(ms, n) = (h \o encode(m)) \o Stream(ms, n + 1)
  BY <1>1, StreamFront DEF bytes
<1> HIDE DEF h, m
<1>6. Stream(ms, n) = h \o (encode(m) \o Stream(ms, n + 1))
  BY <1>3, <1>4, <1>5, Assoc
<1>7. QED
  BY <1>1, <1>2, <1>3, <1>6 DEF h, m

-----------------------------------------------------------------------------
\* What reading and writing do to the frames on the wire

LEMMA FramingType ==
  ASSUME NEW ms \in Seq(Fitting), NEW n \in Nat, NEW h \in Seq(Nat), NEW rest \in Seq(Nat),
         NEW tail \in Seq(Nat), Framing(h, rest, tail, ms, n)
  PROVE  n \in 0 .. Len(ms) /\ h \o (rest \o tail) = Stream(ms, n) /\ Stream(ms, n) \in Seq(Nat)
<1>1. n \in 0 .. Len(ms)
  BY DEF Framing
<1>2. QED
  BY <1>1, StreamType DEF Framing

\* Nothing was sent.
LEMMA FramingNone == Framing(<<>>, <<>>, <<>>, <<>>, 0)
<1>1. <<>> \in Seq(Fitting) /\ <<>> \in Seq(Nat) /\ Len(<<>>) = 0
  OBVIOUS
<1>2. Stream(<<>>, 0) = <<>>
  BY <1>1, StreamNone
<1>3. <<>> \o (<<>> \o <<>>) = <<>>
  BY <1>1, NoBytes
<1>4. QED
  BY <1>1, <1>2, <1>3 DEF Framing

\* ReadHeader: the first four bytes are the length of the next frame.
LEMMA FramingHeader ==
  ASSUME FramesCounted, NEW ms \in Seq(Fitting), NEW n \in Nat, NEW rest \in Seq(Nat),
         NEW tail \in Seq(Nat), Framing(<<>>, rest, tail, ms, n), Len(rest) >= 4
  PROVE  LET k == num(SubSeq(rest, 1, 4))
         IN /\ n < Len(ms) /\ ms[n + 1] \in Fitting /\ k = Len(encode(ms[n + 1]))
            /\ Framing(be(k, 4), SubSeq(rest, 5, Len(rest)), tail, ms, n)
<1> DEFINE a == SubSeq(rest, 1, 4)
           b == SubSeq(rest, 5, Len(rest))
           k == num(a)
<1>1. <<>> \in Seq(Nat)
  OBVIOUS
<1>2. n \in 0 .. Len(ms) /\ <<>> \o (rest \o tail) = Stream(ms, n) /\ Stream(ms, n) \in Seq(Nat)
  BY <1>1, FramingType
<1>3. rest \o tail = Stream(ms, n)
  <2>1. rest \o tail \in Seq(Nat)
    BY ConcatNat
  <2>2. QED
    BY <1>2, <2>1, NoBytes
<1>4. a \in Seq(Nat) /\ Len(a) = 4 /\ b \in Seq(Nat) /\ rest = a \o b
  <2>1. 4 \in 0 .. Len(rest) /\ 4 + 1 = 5
    OBVIOUS
  <2>2. QED
    BY <2>1, Split
<1> HIDE DEF a, b
<1>5. Stream(ms, n) = a \o (b \o tail) /\ b \o tail \in Seq(Nat)
  <2>1. (a \o b) \o tail = a \o (b \o tail)
    BY <1>4, Assoc, Zenon
  <2>2. b \o tail \in Seq(Nat)
    BY <1>4, ConcatNat, Zenon
  <2>3. QED
    BY <1>3, <1>4, <2>1, <2>2, Zenon
<1> DEFINE z == b \o tail
<1> HIDE DEF z
<1>6. Stream(ms, n) = a \o z /\ z \in Seq(Nat)
  BY <1>5 DEF z
<1>7. Stream(ms, n) # <<>>
  BY <1>4, <1>6, NotEmpty
<1> DEFINE m == ms[n + 1]
           e == encode(m)
           l == Len(e)
           c == be(l, 4)
<1>8. /\ n < Len(ms) /\ m \in Fitting /\ Stream(ms, n + 1) \in Seq(Nat)
      /\ Stream(ms, n) = c \o (e \o Stream(ms, n + 1))
  BY <1>2, <1>7, StreamFirst
<1>9. e \in Seq(Nat) /\ l \in Nat /\ c \in Seq(Nat) /\ Len(c) = 4 /\ l < U32
  BY <1>8, FittingMessage DEF FramesCounted
<1> HIDE DEF m, e, l, c
<1>10. a = c
  <2>1. e \o Stream(ms, n + 1) \in Seq(Nat)
    BY <1>8, <1>9, ConcatNat
  <2> DEFINE y == e \o Stream(ms, n + 1)
  <2> HIDE DEF y
  <2>2. y \in Seq(Nat) /\ a \o z = c \o y
    BY <1>8, <1>6, <2>1 DEF y
  <2>3. QED
    BY <1>4, <1>9, <1>6, <2>2, FourBytes
<1>11. k = l
  <2>1. U32 \in Nat
    BY CodecAssumption DEF U32
  <2>2. l \in Int /\ l \in 0 .. U32 - 1
    BY <1>9, <2>1
  <2>3. num(be(l, 4)) = l
    BY <2>2, NumBe
  <2>4. QED
    BY <1>10, <2>3 DEF c
<1>12. Framing(be(k, 4), b, tail, ms, n)
  <2>1. n <= Len(ms)
    BY <1>2
  <2>2. be(k, 4) = a
    BY <1>10, <1>11 DEF c
  <2>3. QED
    BY <1>5, <2>1, <2>2 DEF Framing
<1>13. QED
  BY <1>8, <1>11, <1>12 DEF a, b, m, e, l

\* With a length read, the next frame is the one that it is the length of.
LEMMA FramingNext ==
  ASSUME FramesCounted, NEW ms \in Seq(Fitting), NEW n \in Nat, NEW rest \in Seq(Nat),
         NEW tail \in Seq(Nat), NEW k \in 1 .. FrameMax, Framing(be(k, 4), rest, tail, ms, n)
  PROVE  /\ n < Len(ms) /\ ms[n + 1] \in Fitting /\ n + 1 \in 0 .. Len(ms)
         /\ k = Len(encode(ms[n + 1])) /\ Stream(ms, n + 1) \in Seq(Nat)
         /\ rest \o tail = encode(ms[n + 1]) \o Stream(ms, n + 1)
<1> DEFINE h == be(k, 4)
<1>1. k \in Int /\ k \in 0 .. U32 - 1
  BY CodecAssumption DEF U32
<1>2. h \in Seq(Nat) /\ Len(h) = 4 /\ num(h) = k
  BY <1>1, BeType, NumBe
<1>3. Framing(h, rest, tail, ms, n)
  OBVIOUS
<1> HIDE DEF h
<1>4. n \in 0 .. Len(ms) /\ h \o (rest \o tail) = Stream(ms, n)
  <2>1. h \in Seq(Nat)
    BY <1>2
  <2>2. QED
    BY <1>3, <2>1, FramingType, ZenonT(30)
<1>5. rest \o tail \in Seq(Nat)
  BY ConcatNat
<1> DEFINE z == rest \o tail
<1> HIDE DEF z
<1>6. Stream(ms, n) = h \o z /\ z \in Seq(Nat)
  BY <1>4, <1>5 DEF z
<1>7. Stream(ms, n) # <<>>
  BY <1>2, <1>6, NotEmpty
<1> DEFINE m == ms[n + 1]
           e == encode(m)
           l == Len(e)
           c == be(l, 4)
<1>8. /\ n < Len(ms) /\ m \in Fitting /\ Stream(ms, n + 1) \in Seq(Nat) /\ n + 1 \in 0 .. Len(ms)
      /\ Stream(ms, n) = c \o (e \o Stream(ms, n + 1))
  BY <1>4, <1>7, StreamFirst
<1>9. e \in Seq(Nat) /\ l \in Nat /\ c \in Seq(Nat) /\ Len(c) = 4 /\ l < U32
  BY <1>8, FittingMessage DEF FramesCounted
<1> HIDE DEF m, e, l, c
<1>10. e \o Stream(ms, n + 1) \in Seq(Nat)
  BY <1>8, <1>9, ConcatNat
<1>11. h = c /\ rest \o tail = e \o Stream(ms, n + 1)
  <2>1. h = c /\ z = e \o Stream(ms, n + 1)
    <3> DEFINE y == e \o Stream(ms, n + 1)
    <3> HIDE DEF y
    <3>1. y \in Seq(Nat) /\ h \o z = c \o y
      BY <1>8, <1>10, <1>6 DEF y
    <3>2. h = c /\ z = y
      <4>1. h \in Seq(Nat) /\ c \in Seq(Nat) /\ Len(h) = 4 /\ Len(c) = 4 /\ z \in Seq(Nat)
        BY <1>2, <1>9, <1>6
      <4>2. \A p, q \in Seq(Nat) : h \o p = c \o q => h = c /\ p = q
        BY <4>1, FourBytes
      <4>3. QED
        BY <3>1, <4>1, <4>2
    <3>3. QED
      BY <3>2 DEF y
  <2>2. QED
    BY <2>1 DEF z
<1>12. k = l
  <2>1. U32 \in Nat
    BY CodecAssumption DEF U32
  <2>2. l \in Int /\ l \in 0 .. U32 - 1
    BY <1>9, <2>1
  <2>3. num(be(l, 4)) = l
    BY <2>2, NumBe
  <2>4. QED
    BY <1>2, <1>11, <2>3 DEF c
<1>13. QED
  BY <1>8, <1>11, <1>12 DEF m, e, l

\* ReadBody: as many bytes are that frame, and the ones after it the stream of
\* the messages after it.
LEMMA FramingBody ==
  ASSUME FramesCounted, NEW ms \in Seq(Fitting), NEW n \in Nat, NEW rest \in Seq(Nat),
         NEW tail \in Seq(Nat), NEW k \in 1 .. FrameMax, Framing(be(k, 4), rest, tail, ms, n),
         Len(rest) >= k
  PROVE  /\ n < Len(ms) /\ ms[n + 1] \in Fitting
         /\ SubSeq(rest, 1, k) = encode(ms[n + 1]) /\ Len(encode(ms[n + 1])) <= FrameMax
         /\ Framing(<<>>, SubSeq(rest, k + 1, Len(rest)), tail, ms, n + 1)
<1> DEFINE m == ms[n + 1]
           e == encode(m)
           a == SubSeq(rest, 1, k)
           b == SubSeq(rest, k + 1, Len(rest))
<1>1. /\ n < Len(ms) /\ m \in Fitting /\ n + 1 \in 0 .. Len(ms)
      /\ k = Len(e) /\ Stream(ms, n + 1) \in Seq(Nat)
      /\ rest \o tail = e \o Stream(ms, n + 1)
  BY FramingNext
<1>2. e \in Seq(Nat)
  BY <1>1, FittingMessage
<1>3. a \in Seq(Nat) /\ Len(a) = k /\ b \in Seq(Nat) /\ rest = a \o b
  <2>1. k \in 0 .. Len(rest)
    OBVIOUS
  <2>2. QED
    BY <2>1, Split
<1> HIDE DEF m, e, a, b
<1>4. a \o (b \o tail) = e \o Stream(ms, n + 1) /\ b \o tail \in Seq(Nat)
  <2>1. (a \o b) \o tail = a \o (b \o tail)
    BY <1>3, Assoc, Zenon
  <2>2. b \o tail \in Seq(Nat)
    BY <1>3, ConcatNat, Zenon
  <2>3. QED
    BY <1>1, <1>3, <2>1, <2>2, Zenon
<1>5. a = e /\ b \o tail = Stream(ms, n + 1)
  <2>1. Len(a) = Len(e)
    BY <1>1, <1>3
  <2> DEFINE x == b \o tail
             y == Stream(ms, n + 1)
  <2> HIDE DEF x, y
  <2>2. x \in Seq(Nat) /\ y \in Seq(Nat) /\ a \o x = e \o y
    BY <1>1, <1>4 DEF x, y
  <2>3. a = e /\ x = y
    BY <1>2, <1>3, <2>1, <2>2, Cancel
  <2>4. QED
    BY <2>3 DEF x, y
<1>6. Framing(<<>>, b, tail, ms, n + 1)
  <2>1. <<>> \o (b \o tail) = b \o tail
    BY <1>4, NoBytes
  <2>2. n + 1 <= Len(ms)
    BY <1>1
  <2>3. QED
    BY <1>5, <2>1, <2>2 DEF Framing
<1>7. QED
  BY <1>1, <1>5, <1>6 DEF a, b, m, e

\* WriteHeader: the lock was free, so nothing was owed.
LEMMA FramingSend ==
  ASSUME NEW ms \in Seq(Fitting), NEW n \in Nat, NEW h \in Seq(Nat), NEW rest \in Seq(Nat),
         Framing(h, rest, <<>>, ms, n), NEW m \in Fitting
  PROVE  Framing(h, rest \o be(Len(encode(m)), 4), encode(m), Append(ms, m), n)
<1> DEFINE c == be(Len(encode(m)), 4)
           e == encode(m)
<1>1. c \in Seq(Nat) /\ e \in Seq(Nat)
  BY FittingMessage
<1>2. bytes(m) = c \o e
  BY DEF bytes
<1> HIDE DEF c, e
<1>3. n \in 0 .. Len(ms) /\ h \o (rest \o <<>>) = Stream(ms, n) /\ rest \o <<>> = rest
  <2>1. <<>> \in Seq(Nat)
    OBVIOUS
  <2>2. n \in 0 .. Len(ms) /\ h \o (rest \o <<>>) = Stream(ms, n)
    BY <2>1, FramingType, ZenonT(60)
  <2>3. QED
    BY <2>2, NoBytes, ZenonT(60)
<1>4. Stream(Append(ms, m), n) = (h \o rest) \o (c \o e)
  BY <1>2, <1>3, StreamAppend
<1>5. (rest \o c) \o e = rest \o (c \o e) /\ c \o e \in Seq(Nat)
  BY <1>1, Assoc, ConcatNat
<1>6. (h \o rest) \o (c \o e) = h \o (rest \o (c \o e))
  BY <1>5, Assoc
<1>7. n <= Len(Append(ms, m))
  BY <1>3
<1>8. QED
  BY <1>4, <1>5, <1>6, <1>7 DEF Framing, c, e

\* WriteBody.
LEMMA FramingRest ==
  ASSUME NEW ms, NEW n \in Nat, NEW h \in Seq(Nat), NEW rest \in Seq(Nat),
         NEW tail \in Seq(Nat), Framing(h, rest, tail, ms, n)
  PROVE  Framing(h, rest \o tail, <<>>, ms, n)
<1>1. rest \o tail \in Seq(Nat)
  BY ConcatNat
<1>2. (rest \o tail) \o <<>> = rest \o tail
  BY <1>1, NoBytes
<1>3. QED
  BY <1>2 DEF Framing

\* A reader that waits though nothing is owed has read everything.
LEMMA FramingSettled ==
  ASSUME FramesCounted, NEW ms \in Seq(Fitting), NEW n \in Nat, NEW rest \in Seq(Nat)
  PROVE  /\ Framing(<<>>, rest, <<>>, ms, n) /\ Len(rest) < 4 => n = Len(ms) /\ rest = <<>>
         /\ \A k \in 1 .. FrameMax : Framing(be(k, 4), rest, <<>>, ms, n) => Len(rest) >= k
<1>1. <<>> \in Seq(Nat)
  OBVIOUS
<1>2. rest \o <<>> = rest /\ <<>> \o rest = rest
  BY NoBytes
<1>3. ASSUME Framing(<<>>, rest, <<>>, ms, n), Len(rest) < 4
      PROVE  n = Len(ms) /\ rest = <<>>
  <2>1. n \in 0 .. Len(ms) /\ rest = Stream(ms, n)
    <3>1. n \in 0 .. Len(ms) /\ <<>> \o (rest \o <<>>) = Stream(ms, n)
      BY <1>1, <1>3, FramingType, Zenon
    <3>2. QED
      BY <1>2, <3>1, Zenon
  <2>2. ~(n < Len(ms))
    <3>1. SUFFICES ASSUME n < Len(ms)
                   PROVE  FALSE
      OBVIOUS
    <3> DEFINE x == bytes(ms[n + 1])
               y == Stream(ms, n + 1)
               m == ms[n + 1]
    <3>2. rest = x \o y
      BY <2>1, <3>1, StreamFront
    <3>3. m \in Fitting /\ n + 1 \in 0 .. Len(ms)
      BY <2>1, <3>1
    <3>4. y \in Seq(Nat)
      BY <3>3, StreamType
    <3> DEFINE c == be(Len(encode(m)), 4)
               e == encode(m)
    <3>5. c \in Seq(Nat) /\ Len(c) = 4 /\ e \in Seq(Nat) /\ x = c \o e /\ x \in Seq(Nat)
      BY <3>3, FittingMessage DEF bytes
    <3> HIDE DEF c, e, x, y, m
    <3>6. Len(x) = 4 + Len(e) /\ Len(rest) = Len(x) + Len(y)
      <4>1. Len(c \o e) = Len(c) + Len(e)
        BY <3>5, ConcatNat, Zenon
      <4>2. Len(x \o y) = Len(x) + Len(y)
        BY <3>4, <3>5, ConcatNat, Zenon
      <4>3. QED
        BY <3>2, <3>5, <4>1, <4>2, Zenon
    <3>7. Len(e) \in Nat /\ Len(y) \in Nat
      BY <3>4, <3>5
    <3>8. QED
      BY <1>3, <3>6, <3>7
  <2>3. n = Len(ms)
    BY <2>1, <2>2
  <2>4. QED
    BY <2>1, <2>3, StreamNone
<1>4. ASSUME NEW k \in 1 .. FrameMax, Framing(be(k, 4), rest, <<>>, ms, n)
      PROVE  Len(rest) >= k
  <2> DEFINE e == encode(ms[n + 1])
             y == Stream(ms, n + 1)
  <2>1. ms[n + 1] \in Fitting /\ k = Len(e) /\ y \in Seq(Nat) /\ rest \o <<>> = e \o y
    BY <1>1, <1>4, FramingNext
  <2>2. e \in Seq(Nat)
    BY <2>1, FittingMessage
  <2> HIDE DEF e, y
  <2>3. Len(rest) = Len(e) + Len(y)
    BY <1>2, <2>1, <2>2, ConcatNat
  <2>4. Len(e) \in Nat /\ Len(y) \in Nat
    BY <2>1, <2>2
  <2>5. QED
    BY <2>1, <2>3, <2>4
<1>5. QED
  BY <1>3, <1>4

-----------------------------------------------------------------------------
\* The handshake

LEMMA Peers ==
  /\ peer("client") = "server" /\ peer("server") = "client" /\ Sides = {"client", "server"}
  /\ \A s \in Sides : peer(s) \in Sides /\ peer(s) # s /\ peer(peer(s)) = s
BY DEF peer, Sides

\* The greeting of a side: its version, and a revision of one byte.
LEMMA HelloBytes ==
  ASSUME NEW v \in 0 .. Base - 1
  PROVE  LET g == hello(v, Version)
             z == hello(0, <<>>)
         IN /\ g \in Seq(Nat) /\ Len(g) = 4 /\ g[1] = v /\ g[2] = 0 /\ g[3] = 1
            /\ z \in Seq(Nat) /\ z[1] = 0
<1>1. Base \in Nat /\ Base >= 2
  BY CodecAssumption
<1>2. low(v) = v /\ low(0) = 0 /\ low(1) = 1 /\ shift(1) = 0 /\ shift(0) = 0
  <2>1. \A x \in 0 .. Base - 1 : low(x) = x /\ shift(x) = 0
    <3>1. TAKE x \in 0 .. Base - 1
    <3>2. low(x) \in 0 .. Base - 1 /\ shift(x) \in Int /\ x = shift(x) * Base + low(x)
      BY Digit
    <3>3. shift(x) = 0
      <4>1. CASE shift(x) >= 1
        BY <1>1, <3>2, <4>1
      <4>2. CASE shift(x) <= -1
        BY <1>1, <3>2, <4>2
      <4>3. QED
        BY <3>2, <4>1, <4>2
    <3>4. QED
      BY <1>1, <3>2, <3>3
  <2>2. 0 \in 0 .. Base - 1 /\ 1 \in 0 .. Base - 1
    BY <1>1
  <2>3. QED
    BY <2>1, <2>2
<1> DEFINE a == be(v, 1)
           c == be(1, 2)
           x == <<1>>
<1>3. a \in Seq(Nat) /\ Len(a) = 1 /\ a[1] = v /\ v \in Int
  BY <1>1, <1>2, BeType DEF be
<1>4. c \in Seq(Nat) /\ Len(c) = 2 /\ c[1] = 0 /\ c[2] = 1
  BY <1>2, BeType DEF be
<1>5. x \in Seq(Nat) /\ Len(x) = 1 /\ WriteString(Version) = c \o x
  BY DEF WriteString, Version
<1> HIDE DEF a, c, x
<1> DEFINE t == c \o x
<1>6. t \in Seq(Nat) /\ Len(t) = 3
  <2>1. t \in Seq(Nat) /\ Len(t) = Len(c) + Len(x)
    BY <1>4, <1>5, ConcatNat, Zenon
  <2>2. QED
    BY <1>4, <1>5, <2>1
<1>7. t[1] = 0 /\ t[2] = 1
  <2>1. \A i \in 1 .. Len(c) : t[i] = c[i]
    BY <1>4, <1>5, ConcatFirst
  <2> HIDE DEF t
  <2>2. 1 \in 1 .. Len(c) /\ 2 \in 1 .. Len(c)
    BY <1>4
  <2>3. QED
    BY <1>4, <2>1, <2>2
<1> HIDE DEF t
<1> DEFINE g == a \o t
<1>8. hello(v, Version) = g
  BY <1>5 DEF hello, a, t
<1>9. g \in Seq(Nat) /\ Len(g) = 4
  <2>1. g \in Seq(Nat) /\ Len(g) = Len(a) + Len(t)
    BY <1>3, <1>6, ConcatNat, Zenon
  <2>2. QED
    BY <1>3, <1>6, <2>1
<1>10. g[1] = v
  <2>1. 1 \in 1 .. Len(a)
    BY <1>3
  <2>2. QED
    BY <1>3, <1>6, <2>1, ConcatFirst
<1>11. g[2] = 0 /\ g[3] = 1
  <2>1. \A i \in 1 .. Len(t) : g[Len(a) + i] = t[i]
    BY <1>3, <1>6, ConcatSecond
  <2> HIDE DEF g
  <2>2. 1 \in 1 .. Len(t) /\ 2 \in 1 .. Len(t) /\ Len(a) + 1 = 2 /\ Len(a) + 2 = 3
    BY <1>3, <1>6
  <2>3. QED
    BY <1>7, <2>1, <2>2
<1> HIDE DEF g
<1> DEFINE d == be(0, 1)
           w == WriteString(<<>>)
<1>12. d \in Seq(Nat) /\ Len(d) = 1 /\ d[1] = 0
  BY <1>2, BeType DEF be
<1>13. w \in Seq(Nat)
  <2>1. be(0, 2) \in Seq(Nat) /\ <<>> \in Seq(Nat)
    BY BeType
  <2>2. QED
    BY <2>1, ConcatNat DEF WriteString
<1> HIDE DEF d, w
<1>14. hello(0, <<>>) = d \o w
  BY DEF hello, d, w
<1>15. d \o w \in Seq(Nat) /\ (d \o w)[1] = 0
  <2>1. 1 \in 1 .. Len(d)
    BY <1>12
  <2>2. QED
    BY <1>12, <1>13, <2>1, ConcatNat, ConcatFirst
<1>16. QED
  BY <1>8, <1>9, <1>10, <1>11, <1>14, <1>15

\* It is read as what it is, whatever follows.
LEMMA HelloRead ==
  ASSUME NEW v \in 0 .. Base - 1, NEW rest \in Seq(Nat), NEW b, b = hello(v, Version) \o rest
  PROVE  /\ b \in Seq(Nat) /\ b # <<>> /\ b[1] = v /\ helloLen(b) = 4 /\ greeted(b)
         /\ SubSeq(b, helloLen(b) + 1, Len(b)) = rest
<1> DEFINE a == hello(v, Version)
<1>1. a \in Seq(Nat) /\ Len(a) = 4 /\ b = a \o rest
  BY HelloBytes
<1>2. a[1] = v /\ a[2] = 0 /\ a[3] = 1
  BY HelloBytes
<1> HIDE DEF a
<1>3. b \in Seq(Nat) /\ Len(b) = 4 + Len(rest)
  BY <1>1, ConcatNat
<1>4. \A i \in 1 .. 4 : b[i] = a[i]
  <2>1. \A i \in 1 .. Len(a) : (a \o rest)[i] = a[i]
    BY <1>1, ConcatFirst
  <2>2. QED
    BY <1>1, <2>1, Zenon
<1>5. b[1] = v /\ b[2] = 0 /\ b[3] = 1
  <2>1. 1 \in 1 .. 4 /\ 2 \in 1 .. 4 /\ 3 \in 1 .. 4
    OBVIOUS
  <2>2. QED
    BY <1>2, <1>4, <2>1, Zenon
<1>6. Len(rest) \in Nat
  OBVIOUS
<1>7. Len(SubSeq(b, 2, 3)) = 2 /\ SubSeq(b, 2, 3)[1] = 0 /\ SubSeq(b, 2, 3)[2] = 1
  <2>1. Len(SubSeq(b, 2, 3)) = 2 /\ SubSeq(b, 2, 3) \in Seq(Nat)
    BY <1>3, <1>6
  <2>2. SubSeq(b, 2, 3)[1] = b[2] /\ SubSeq(b, 2, 3)[2] = b[3]
    BY <1>3, <1>6
  <2>3. QED
    BY <1>5, <2>1, <2>2, Zenon
<1>8. helloLen(b) = 4
  <2> DEFINE x == SubSeq(b, 2, 3)
  <2>1. Len(x) = 2 /\ x[1] = 0 /\ x[2] = 1
    BY <1>7
  <2> HIDE DEF x
  <2>2. num(x) = 0 * Base + 1
    BY <2>1 DEF num
  <2>3. num(SubSeq(b, 2, 3)) = 0 * Base + 1
    BY <2>2 DEF x
  <2>4. QED
    BY <2>3, CodecAssumption DEF helloLen
<1>9. greeted(b)
  BY <1>3, <1>6, <1>8 DEF greeted
<1>10. SubSeq(b, 5, Len(b)) = rest
  BY <1>1, FourTaken
<1>11. b # <<>>
  BY <1>1, NotEmpty
<1>12. QED
  BY <1>3, <1>5, <1>8, <1>9, <1>10, <1>11

\* What is left of the bytes after a greeting.
LEMMA HelloLeft ==
  ASSUME NEW b \in Seq(Nat), greeted(b)
  PROVE  SubSeq(b, helloLen(b) + 1, Len(b)) \in Seq(Nat) /\ b # <<>>
<1>1. Len(b) >= 3 /\ Len(b) \in Nat
  BY DEF greeted
<1>2. num(SubSeq(b, 2, 3)) \in Nat
  <2>1. Len(SubSeq(b, 2, 3)) = 2 /\ SubSeq(b, 2, 3)[1] = b[2] /\ SubSeq(b, 2, 3)[2] = b[3]
    BY <1>1
  <2>2. b[2] \in Nat /\ b[3] \in Nat /\ Base \in Nat
    BY <1>1, CodecAssumption
  <2>3. num(SubSeq(b, 2, 3)) = b[2] * Base + b[3]
    BY <2>1 DEF num
  <2>4. QED
    BY <2>2, <2>3
<1> DEFINE k == helloLen(b)
<1>3. k \in Nat /\ k <= Len(b)
  BY <1>1, <1>2 DEF greeted, helloLen
<1> HIDE DEF k
<1>4. SubSeq(b, k + 1, Len(b)) \in Seq(Nat)
  <2>1. k \in 0 .. Len(b)
    BY <1>1, <1>3
  <2>2. QED
    BY <2>1, Split
<1>5. b # <<>>
  BY <1>1
<1>6. QED
  BY <1>4, <1>5 DEF k

-----------------------------------------------------------------------------
\* The invariant holds at first, and a connection that breaks keeps it.

LEMMA WireInit ==
  ASSUME Init
  PROVE  WireInv
<1> USE Peers DEF Init
<1>1. Typed
  BY DEF Typed
<1>2. Early /\ Gate /\ Single /\ Encoded
  BY DEF Early, Gate, Silent, Single, Encoded
<1>3. Greeting /\ Reading /\ Linked /\ Awaiting
  BY DEF Greeting, Reading, Linked, Awaiting
<1>4. Ordered
  BY DEF Ordered
<1>5. QED
  BY <1>1, <1>2, <1>3, <1>4 DEF WireInv

LEMMA FlowNew ==
  ASSUME NEW r \in Sides, NEW rest \in Seq(Nat), NEW tail \in Seq(Nat),
         wire'[peer(r)] = greeting(r)' \o rest,
         Framing(headOf(r)', rest, tail, sent'[peer(r)], Len(received'[r])),
         up' => Rest(peer(r), tail)'
  PROVE  Flow(r)'
BY DEF Flow

\* What r reads is left alone.
LEMMA FlowKept ==
  ASSUME NEW r \in Sides, Flow(r), wire'[peer(r)] = wire[peer(r)], greeting(r)' = greeting(r),
         headOf(r)' = headOf(r), sent'[peer(r)] = sent[peer(r)], received'[r] = received[r],
         up' => up /\ \A tail \in Seq(Nat) : Rest(peer(r), tail) => Rest(peer(r), tail)'
  PROVE  Flow(r)'
<1>1. PICK rest \in Seq(Nat), tail \in Seq(Nat) :
        /\ wire[peer(r)] = greeting(r) \o rest
        /\ Framing(headOf(r), rest, tail, sent[peer(r)], Len(received[r]))
        /\ up => Rest(peer(r), tail)
  BY DEF Flow
<1>2. /\ wire'[peer(r)] = greeting(r)' \o rest
      /\ Framing(headOf(r)', rest, tail, sent'[peer(r)], Len(received'[r]))
      /\ up' => Rest(peer(r), tail)'
  BY <1>1
<1>3. QED
  BY <1>2 DEF Flow

\* A side shuts the connection; it may have read some more of it before.
LEMMA Broken ==
  ASSUME WireInv, NEW s \in Sides, stage' = [stage EXCEPT ![s] = "shut"],
         wire' \in [Sides -> Seq(Nat)], wire'[s] = wire[s], stage[s] = "open" \/ wire' = wire,
         rpc' \in [Sides -> {"head", "body", "refused", "eof"}], rpc'[peer(s)] = rpc[peer(s)],
         stage[s] = "open" \/ rpc' = rpc, rpc'[s] \in {rpc[s], "refused", "eof"},
         UNCHANGED <<version, writeVars, need, received>>
  PROVE  WireInv'
<1> USE Peers DEF WireInv, writeVars
<1>1. Typed'
  BY DEF Typed
<1>2. stage'[s] = "shut" /\ stage'[peer(s)] = stage[peer(s)] /\ ~up'
  BY DEF Typed, up
<1>3. Early'
  BY <1>1, <1>2 DEF Early, Silent, Typed
<1>4. Gate'
  <2>1. SUFFICES ASSUME version # ProtocolVersion
                 PROVE  (\A t \in Sides : stage[t] # "open" /\ Silent(t))'
    BY DEF Gate
  <2>2. \A t \in Sides : stage[t] # "open" /\ Silent(t)
    BY <2>1 DEF Gate
  <2>3. rpc' = rpc
    BY <2>2
  <2>4. QED
    BY <1>2, <2>2, <2>3 DEF Silent
<1>5. Single' /\ Encoded' /\ Ordered'
  BY DEF Single, Encoded, Ordered
<1>6. Greeting'
  BY <1>2 DEF Greeting, Typed
<1>7. Reading'
  BY <1>2 DEF Reading
<1>8. ASSUME Flow(peer(s)), stage[peer(s)] # "shut"
      PROVE  Flow(peer(s))'
  <2>1. greeting(peer(s))' = greeting(peer(s)) /\ headOf(peer(s))' = headOf(peer(s))
    BY <1>2 DEF greeting, headOf
  <2>2. QED
    BY <1>2, <1>8, <2>1, FlowKept
<1>9. Linked'
  BY <1>2, <1>8 DEF Linked
<1>10. Awaiting'
  <2>1. SUFFICES ASSUME stage'["client"] = "await"
                 PROVE  Awaiting'
    BY DEF Awaiting
  <2>2. s = "server" /\ stage["client"] = "await"
    BY <1>2, <2>1
  <2>3. QED
    BY <1>2, <1>8, <2>2 DEF Awaiting
<1>11. QED
  BY <1>1, <1>3, <1>4, <1>5, <1>6, <1>7, <1>9, <1>10

LEMMA CloseStep ==
  ASSUME WireInv, NEW s \in Sides, Close(s)
  PROVE  WireInv'
<1>1. wire \in [Sides -> Seq(Nat)] /\ rpc \in [Sides -> {"head", "body", "refused", "eof"}]
  BY DEF WireInv, Typed
<1>2. QED
  BY <1>1, Broken DEF Close, readVars

LEMMA HandshakeFailStep ==
  ASSUME WireInv, NEW s \in Sides, HandshakeFail(s)
  PROVE  WireInv'
<1>1. wire \in [Sides -> Seq(Nat)] /\ rpc \in [Sides -> {"head", "body", "refused", "eof"}]
  BY DEF WireInv, Typed
<1>2. QED
  BY <1>1, Broken DEF HandshakeFail, readVars

LEMMA ReadEndStep ==
  ASSUME WireInv, NEW s \in Sides, ReadEnd(s)
  PROVE  WireInv'
<1>1. wire \in [Sides -> Seq(Nat)] /\ rpc \in [Sides -> {"head", "body", "refused", "eof"}]
  BY DEF WireInv, Typed
<1>2. /\ rpc' \in [Sides -> {"head", "body", "refused", "eof"}]
      /\ rpc'[peer(s)] = rpc[peer(s)] /\ rpc'[s] = "eof"
  BY <1>1, Peers DEF ReadEnd, fail
<1>3. QED
  BY <1>1, <1>2, Broken DEF ReadEnd, fail

-----------------------------------------------------------------------------
\* Reading

\* On an open connection, what waits to be read are frames.
LEMMA Waiting ==
  ASSUME WireInv, NEW s \in Sides, stage[s] = "open"
  PROVE  /\ inbox(s) \in Seq(Nat) /\ version = ProtocolVersion
         /\ \E tail \in Seq(Nat) :
              /\ Framing(headOf(s), inbox(s), tail, sent[peer(s)], Len(received[s]))
              /\ up => Rest(peer(s), tail)
<1>1. Flow(s) /\ version = ProtocolVersion
  BY DEF WireInv, Linked, Gate
<1>2. greeting(s) = <<>>
  BY DEF greeting
<1>3. PICK rest \in Seq(Nat), tail \in Seq(Nat) :
        /\ wire[peer(s)] = greeting(s) \o rest
        /\ Framing(headOf(s), rest, tail, sent[peer(s)], Len(received[s]))
        /\ up => Rest(peer(s), tail)
  BY <1>1 DEF Flow
<1>4. wire[peer(s)] = rest
  BY <1>2, <1>3, NoBytes
<1>5. QED
  BY <1>1, <1>3, <1>4 DEF inbox

\* A step that only takes bytes from what s reads.
LEMMA ReadLocal ==
  ASSUME WireInv, NEW s \in Sides, stage[s] = "open", UNCHANGED <<version, stage, writeVars>>,
         Typed', wire'[s] = wire[s], rpc'[peer(s)] = rpc[peer(s)], need'[peer(s)] = need[peer(s)],
         received'[peer(s)] = received[peer(s)], Flow(s)', Ordered',
         rpc'[s] \in {"head", "body"}, rpc'[s] = "body" => need'[s] \in 1 .. FrameMax
  PROVE  WireInv'
<1> USE Peers DEF WireInv, writeVars
<1>1. Early'
  BY DEF Early, Silent
<1>2. Gate'
  BY DEF Gate
<1>3. Single' /\ Encoded'
  BY DEF Single, Encoded
<1>4. Greeting'
  BY DEF Greeting
<1>5. Reading'
  BY DEF Reading
<1>6. ASSUME Flow(peer(s))
      PROVE  Flow(peer(s))'
  <2>1. greeting(peer(s))' = greeting(peer(s)) /\ headOf(peer(s))' = headOf(peer(s))
    BY DEF greeting, headOf
  <2>2. up' = up /\ \A tail \in Seq(Nat) : Rest(s, tail) => Rest(s, tail)'
    BY DEF up, Rest, locked
  <2>3. QED
    BY <1>6, <2>1, <2>2, FlowKept
<1>7. Linked'
  BY <1>6 DEF Linked
<1>8. Awaiting'
  BY <1>6 DEF Awaiting
<1>9. QED
  BY <1>1, <1>2, <1>3, <1>4, <1>5, <1>7, <1>8

LEMMA ReadHeaderStep ==
  ASSUME FramesCounted, WireInv, NEW s \in Sides, ReadHeader(s)
  PROVE  WireInv'
<1> DEFINE b == inbox(s)
           n == num(SubSeq(b, 1, 4))
           c == SubSeq(b, 5, Len(b))
           p == peer(s)
           k == Len(received[s])
<1>1. stage[s] = "open" /\ rpc[s] = "head" /\ Len(b) >= 4
  BY DEF ReadHeader
<1>2. b \in Seq(Nat) /\ b = wire[p] /\ p \in Sides /\ p # s /\ peer(p) = s
  BY <1>1, Waiting, Peers DEF inbox
<1>3. headOf(s) = <<>>
  BY <1>1 DEF headOf
<1>4. sent[p] \in Seq(Fitting) /\ received[s] \in Seq(Fitting) /\ k \in Nat
  BY <1>2 DEF WireInv, Typed
<1>5. PICK tail \in Seq(Nat) : Framing(<<>>, b, tail, sent[p], k) /\ (up => Rest(p, tail))
  BY <1>1, <1>3, Waiting
<1>6. /\ k < Len(sent[p]) /\ sent[p][k + 1] \in Fitting /\ n = Len(encode(sent[p][k + 1]))
      /\ Framing(be(n, 4), c, tail, sent[p], k)
  BY <1>1, <1>2, <1>4, <1>5, FramingHeader
<1>7. n \in Nat \ {0}
  BY <1>6, FittingMessage
<1>8. wire' = [wire EXCEPT ![p] = c] /\ c \in Seq(Nat)
  <2>1. wire' = [wire EXCEPT ![p] = SubSeq(wire[p], 4 + 1, Len(wire[p]))] /\ 4 + 1 = 5
    BY <1>2 DEF ReadHeader, take
  <2>2. SubSeq(b, 4 + 1, Len(b)) \in Seq(Nat)
    <3>1. 4 \in 0 .. Len(b)
      BY <1>1, <1>2
    <3>2. QED
      BY <1>2, <3>1, Split
  <2>3. QED
    BY <1>2, <2>1, <2>2
<1> HIDE DEF n, c, p, b, k
<1>9. wire' \in [Sides -> Seq(Nat)] /\ wire'[s] = wire[s] /\ wire'[p] = c
  BY <1>2, <1>8 DEF WireInv, Typed
<1>10. CASE n = 0 \/ n > FrameMax
  <2>1. fail(s, "refused") /\ UNCHANGED <<version, writeVars, need, received>>
    BY <1>10 DEF ReadHeader, n, b
  <2>2. /\ rpc' \in [Sides -> {"head", "body", "refused", "eof"}]
        /\ rpc'[p] = rpc[p] /\ rpc'[s] = "refused"
    BY <1>2, <2>1 DEF fail, WireInv, Typed
  <2>3. QED
    BY <1>1, <1>9, <2>1, <2>2, Broken DEF fail, p
<1>11. CASE ~(n = 0 \/ n > FrameMax)
  <2>1. /\ need' = [need EXCEPT ![s] = n] /\ rpc' = [rpc EXCEPT ![s] = "body"]
        /\ UNCHANGED <<version, stage, writeVars, received>>
    BY <1>11 DEF ReadHeader, n, b
  <2>2. Typed'
    BY <1>7, <1>9, <2>1 DEF WireInv, Typed, writeVars
  <2>3. n \in 1 .. FrameMax
    BY <1>7, <1>11, CodecAssumption
  <2>4. rpc'[s] = "body" /\ rpc'[p] = rpc[p] /\ need'[s] = n /\ need'[p] = need[p]
    BY <1>2, <2>1 DEF WireInv, Typed
  <2>5. Flow(s)'
    <3>1. greeting(s)' = <<>> /\ headOf(s)' = be(n, 4)
      BY <1>1, <2>1, <2>4 DEF greeting, headOf
    <3>2. wire'[p] = greeting(s)' \o c
      BY <1>8, <1>9, <3>1, NoBytes
    <3>3. Framing(headOf(s)', c, tail, sent'[p], Len(received'[s]))
      BY <1>6, <2>1, <3>1 DEF writeVars, k
    <3>4. up' => Rest(p, tail)'
      BY <1>5, <2>1 DEF writeVars, up, Rest, locked
    <3>5. QED
      BY <1>8, <3>2, <3>3, <3>4 DEF Flow, p
  <2>6. Ordered'
    BY <2>1 DEF WireInv, Ordered, writeVars
  <2>7. QED
    BY <1>1, <1>9, <2>1, <2>2, <2>3, <2>4, <2>5, <2>6, ReadLocal DEF p
<1>12. QED
  BY <1>10, <1>11

\* The payload that ReadBody decodes is the frame of the next message.
LEMMA NextBody ==
  ASSUME FramesCounted, WireInv, NEW s \in Sides, stage[s] = "open", rpc[s] = "body",
         Len(inbox(s)) >= need[s]
  PROVE  LET b == inbox(s)
             n == need[s]
             k == Len(received[s])
             ms == sent[peer(s)]
         IN /\ b \in Seq(Nat) /\ n \in 0 .. Len(b) /\ k \in Nat
            /\ k < Len(ms) /\ ms[k + 1] \in Fitting
            /\ decode(SubSeq(b, 1, n)) = [ok |-> TRUE, msg |-> ms[k + 1]]
            /\ \E tail \in Seq(Nat) :
                 /\ Framing(<<>>, SubSeq(b, n + 1, Len(b)), tail, ms, k + 1)
                 /\ up => Rest(peer(s), tail)
<1> DEFINE b == inbox(s)
           n == need[s]
           k == Len(received[s])
           p == peer(s)
           ms == sent[p]
           m == ms[k + 1]
<1>1. b \in Seq(Nat) /\ p \in Sides
  BY Waiting, Peers
<1>2. headOf(s) = be(n, 4)
  BY DEF headOf
<1>3. ms \in Seq(Fitting) /\ received[s] \in Seq(Fitting) /\ k \in Nat /\ n \in 1 .. FrameMax
  BY <1>1 DEF WireInv, Typed, Reading
<1>4. PICK tail \in Seq(Nat) : Framing(be(n, 4), b, tail, ms, k) /\ (up => Rest(p, tail))
  BY <1>2, Waiting
<1>5. Len(b) >= n
  OBVIOUS
<1> HIDE DEF b, n, k, p, ms
<1>6. /\ k < Len(ms) /\ m \in Fitting
      /\ SubSeq(b, 1, n) = encode(m) /\ Len(encode(m)) <= FrameMax
      /\ Framing(<<>>, SubSeq(b, n + 1, Len(b)), tail, ms, k + 1)
  BY <1>1, <1>3, <1>4, <1>5, FramingBody
<1>7. isMessage(m) /\ fitsAll(m)
  BY <1>6, FittingMessage
<1> HIDE DEF m
<1>8. decode(encode(m)) = [ok |-> TRUE, msg |-> m]
  BY <1>6, <1>7, CodecRoundTrip
<1>9. n \in 0 .. Len(b)
  BY <1>1, <1>3, <1>5
<1>10. QED
  BY <1>1, <1>3, <1>4, <1>6, <1>8, <1>9 DEF b, n, k, p, ms, m

LEMMA ReadBodyStep ==
  ASSUME FramesCounted, WireInv, NEW s \in Sides, ReadBody(s)
  PROVE  WireInv' /\ rpc'[s] = "head"
<1> DEFINE b == inbox(s)
           n == need[s]
           k == Len(received[s])
           p == peer(s)
           ms == sent[p]
           m == ms[k + 1]
           c == SubSeq(b, n + 1, Len(b))
           d == decode(SubSeq(b, 1, n))
<1>1. stage[s] = "open" /\ rpc[s] = "body" /\ Len(b) >= n
  BY DEF ReadBody
<1>2. /\ b \in Seq(Nat) /\ n \in 0 .. Len(b) /\ k \in Nat /\ k < Len(ms) /\ m \in Fitting
      /\ d = [ok |-> TRUE, msg |-> m]
  BY <1>1, NextBody
<1>3. PICK tail \in Seq(Nat) : Framing(<<>>, c, tail, ms, k + 1) /\ (up => Rest(p, tail))
  BY <1>1, NextBody
<1>4. p \in Sides /\ p # s /\ peer(p) = s /\ b = wire[p]
  BY Peers DEF inbox
<1>5. c \in Seq(Nat)
  BY <1>2, Split
<1>6. d.ok /\ d.msg = m
  BY <1>2
<1>7. /\ wire' = [wire EXCEPT ![p] = c] /\ need' = [need EXCEPT ![s] = 0]
      /\ received' = [received EXCEPT ![s] = Append(@, m)]
      /\ rpc' = [rpc EXCEPT ![s] = "head"] /\ UNCHANGED <<version, stage, writeVars>>
  <2>1. /\ wire' = [wire EXCEPT ![p] = SubSeq(@, n + 1, Len(@))] /\ need' = [need EXCEPT ![s] = 0]
        /\ UNCHANGED <<version, writeVars>>
    BY DEF ReadBody, take
  <2>2. /\ received' = [received EXCEPT ![s] = Append(@, d.msg)]
        /\ rpc' = [rpc EXCEPT ![s] = "head"] /\ UNCHANGED stage
    BY <1>6 DEF ReadBody
  <2>3. QED
    BY <1>4, <1>6, <2>1, <2>2
<1>8. ms \in Seq(Fitting) /\ received[s] \in Seq(Fitting)
  BY <1>4 DEF WireInv, Typed
<1> HIDE DEF b, n, k, p, ms, m, c, d
<1>9. Append(received[s], m) \in Seq(Fitting) /\ Len(Append(received[s], m)) = k + 1
  BY <1>2, <1>8 DEF k
<1>10. /\ wire' \in [Sides -> Seq(Nat)] /\ wire'[s] = wire[s] /\ wire'[p] = c
       /\ received'[s] = Append(received[s], m) /\ received'[p] = received[p]
       /\ rpc'[s] = "head" /\ rpc'[p] = rpc[p] /\ need'[p] = need[p]
       /\ need' \in [Sides -> Nat]
  BY <1>4, <1>5, <1>7 DEF WireInv, Typed
<1>11. Typed'
  BY <1>7, <1>9, <1>10 DEF WireInv, Typed, writeVars
<1>12. Flow(s)'
  <2>1. greeting(s)' = <<>> /\ headOf(s)' = <<>>
    BY <1>1, <1>7, <1>10 DEF greeting, headOf
  <2>2. wire'[p] = greeting(s)' \o c
    BY <1>5, <1>10, <2>1, NoBytes
  <2>3. Framing(headOf(s)', c, tail, sent'[p], Len(received'[s]))
    BY <1>3, <1>7, <1>9, <1>10, <2>1 DEF writeVars, ms
  <2>4. up' => Rest(p, tail)'
    BY <1>3, <1>7 DEF writeVars, up, Rest, locked
  <2>5. QED
    BY <1>5, <2>2, <2>3, <2>4 DEF Flow, p
<1>13. Ordered'
  <2>1. ASSUME NEW r \in Sides
        PROVE  (/\ Len(received[r]) <= Len(sent[peer(r)])
                /\ \A i \in 1 .. Len(received[r]) : received[r][i] = sent[peer(r)][i])'
    <3>1. CASE r = s
      <4>1. received'[r] = Append(received[s], m) /\ sent'[peer(r)] = ms
        BY <1>7, <1>10, <3>1 DEF writeVars, ms, p
      <4>2. k + 1 <= Len(ms)
        BY <1>2, <1>8
      <4>3. ASSUME NEW i \in 1 .. k + 1
            PROVE  Append(received[s], m)[i] = ms[i]
        <5>1. CASE i = k + 1
          BY <1>2, <1>8, <5>1 DEF k, m
        <5>2. CASE i \in 1 .. k
          BY <1>8, <5>2 DEF k, WireInv, Ordered, ms, p
        <5>3. i = k + 1 \/ i \in 1 .. k
          BY <1>2
        <5>4. QED
          BY <5>1, <5>2, <5>3, Zenon
      <4>4. QED
        BY <1>9, <4>1, <4>2, <4>3
    <3>2. CASE r # s
      <4>1. r = p /\ received'[r] = received[r] /\ sent' = sent
        BY <1>7, <1>10, <3>2, Peers DEF p, writeVars
      <4>2. QED
        BY <4>1 DEF WireInv, Ordered
    <3>3. QED
      BY <3>1, <3>2
  <2>2. QED
    BY <2>1 DEF Ordered
<1>14. QED
  BY <1>1, <1>7, <1>10, <1>11, <1>12, <1>13, ReadLocal DEF p

-----------------------------------------------------------------------------
\* Writing

\* A goroutine that has encoded its message is on a side that has opened.
LEMMA Opened ==
  ASSUME WireInv, NEW w \in Writer, pc[w] # "idle" \/ stage[w[1]] = "open"
  PROVE  /\ w[1] \in Sides /\ version = ProtocolVersion
         /\ stage[w[1]] \in {"open", "shut"}
         /\ up => stage["server"] = "open" /\ stage[w[1]] = "open"
<1>1. w[1] \in Sides
  BY WireAssumption
<1>2. version = ProtocolVersion
  BY <1>1 DEF WireInv, Gate, Silent
<1>3. stage[w[1]] \in {"open", "shut"}
  BY <1>1 DEF WireInv, Early, Silent, Typed
<1>4. QED
  BY <1>1, <1>2, <1>3, Peers DEF WireInv, Greeting, Typed, up

LEMMA EncodeStep ==
  ASSUME WireInv, NEW w \in Writer, NEW m \in Msgs[w], Encode(w, m)
  PROVE  WireInv'
<1> USE DEF hsVars, readVars
<1>1. pc[w] = "idle" /\ stage[w[1]] = "open" /\ UNCHANGED <<hsVars, wire, readVars, sent>>
  BY DEF Encode
<1>2. CASE ~fitsAll(m)
  <2>1. UNCHANGED <<pc, frame, msg>>
    BY <1>2 DEF Encode
  <2> USE <1>1, <2>1 DEF WireInv
  <2>2. Typed' /\ Early' /\ Gate' /\ Single' /\ Encoded'
    BY DEF Typed, Early, Gate, Silent, Single, Encoded
  <2>3. Greeting' /\ Reading' /\ Ordered'
    BY DEF Greeting, Reading, Ordered
  <2>4. ASSUME NEW r \in Sides, Flow(r)
        PROVE  Flow(r)'
    <3>1. greeting(r)' = greeting(r) /\ headOf(r)' = headOf(r) /\ up' = up
      BY DEF greeting, headOf, up
    <3>2. \A tail \in Seq(Nat) : Rest(peer(r), tail) => Rest(peer(r), tail)'
      BY DEF Rest, locked
    <3>3. QED
      BY <2>4, <3>1, <3>2, FlowKept
  <2>5. Linked' /\ Awaiting'
    BY <2>4, Peers DEF Linked, Awaiting
  <2>6. QED
    BY <2>2, <2>3, <2>5
<1>3. CASE fitsAll(m)
  <2>1. /\ pc' = [pc EXCEPT ![w] = "lock"] /\ frame' = [frame EXCEPT ![w] = encode(m)]
        /\ msg' = [msg EXCEPT ![w] = m]
    BY <1>3 DEF Encode
  <2>2. m \in Fitting /\ encode(m) \in Seq(Nat)
    <3>1. m \in Fitting
      BY <1>3 DEF Fitting
    <3>2. QED
      BY <3>1, FittingMessage
  <2>3. w[1] \in Sides /\ version = ProtocolVersion
    BY <1>1, Opened
  <2> USE DEF WireInv
  <2>4. /\ pc'[w] = "lock" /\ frame'[w] = encode(m) /\ msg'[w] = m
        /\ \A v \in Writer : v # w => pc'[v] = pc[v] /\ frame'[v] = frame[v] /\ msg'[v] = msg[v]
    BY <2>1 DEF Typed
  <2>5. Typed'
    BY <1>1, <2>1, <2>2 DEF Typed
  <2>6. Early' /\ Gate'
    BY <1>1, <2>3, <2>4 DEF Early, Gate, Silent
  <2>7. Single' /\ Encoded'
    BY <2>2, <2>4 DEF Single, Encoded
  <2>8. Greeting' /\ Reading' /\ Ordered'
    BY <1>1 DEF Greeting, Reading, Ordered
  <2>9. ASSUME NEW r \in Sides, Flow(r)
        PROVE  Flow(r)'
    <3>1. greeting(r)' = greeting(r) /\ headOf(r)' = headOf(r) /\ up' = up
      BY <1>1 DEF greeting, headOf, up
    <3>2. \A tail \in Seq(Nat) : Rest(peer(r), tail) => Rest(peer(r), tail)'
      BY <1>1, <2>4 DEF Rest, locked
    <3>3. QED
      BY <1>1, <2>9, <3>1, <3>2, FlowKept
  <2>10. Linked' /\ Awaiting'
    BY <1>1, <2>9, Peers DEF Linked, Awaiting
  <2>11. QED
    BY <2>5, <2>6, <2>7, <2>8, <2>10
<1>4. QED
  BY <1>2, <1>3

LEMMA WriteFailStep ==
  ASSUME WireInv, NEW w \in Writer, WriteFail(w)
  PROVE  WireInv'
<1> USE DEF hsVars, readVars, WireInv
<1>1. /\ ~up /\ pc' = [pc EXCEPT ![w] = "idle"] /\ frame' = [frame EXCEPT ![w] = <<>>]
      /\ msg' = [msg EXCEPT ![w] = <<>>] /\ UNCHANGED <<hsVars, wire, readVars, sent>>
  BY DEF WriteFail, done
<1>2. /\ pc'[w] = "idle"
      /\ \A v \in Writer : v # w => pc'[v] = pc[v] /\ frame'[v] = frame[v] /\ msg'[v] = msg[v]
  BY <1>1 DEF Typed
<1>3. Typed'
  BY <1>1 DEF Typed
<1>4. Early' /\ Gate'
  BY <1>1, <1>2 DEF Early, Gate, Silent
<1>5. Single' /\ Encoded'
  BY <1>2 DEF Single, Encoded
<1>6. Greeting' /\ Reading' /\ Ordered'
  BY <1>1 DEF Greeting, Reading, Ordered
<1>7. ASSUME NEW r \in Sides, Flow(r)
      PROVE  Flow(r)'
  <2>1. greeting(r)' = greeting(r) /\ headOf(r)' = headOf(r) /\ ~up'
    BY <1>1 DEF greeting, headOf, up
  <2>2. QED
    BY <1>1, <1>7, <2>1, FlowKept
<1>8. Linked' /\ Awaiting'
  BY <1>1, <1>7, Peers DEF Linked, Awaiting
<1>9. QED
  BY <1>3, <1>4, <1>5, <1>6, <1>8

\* While both ends are open, a goroutine that writes has a reader to write to.
LEMMA Reader ==
  ASSUME WireInv, NEW w \in Writer, pc[w] # "idle", up
  PROVE  Flow(peer(w[1]))
<1>1. w[1] \in Sides /\ stage["server"] = "open" /\ stage[w[1]] = "open"
  BY Opened
<1>2. CASE w[1] = "client"
  BY <1>1, <1>2, Peers DEF WireInv, Linked
<1>3. CASE w[1] = "server"
  <2>1. stage["client"] \in {"open", "await"}
    BY <1>1, Peers DEF WireInv, Greeting, Typed, up
  <2>2. stage["client"] = "await" => Flow("client")
    BY <1>1 DEF WireInv, Awaiting
  <2>3. stage["client"] = "open" => Flow("client")
    BY Peers DEF WireInv, Linked
  <2>4. QED
    BY <1>3, <2>1, <2>2, <2>3, Peers
<1>4. QED
  BY <1>1, <1>2, <1>3, Peers

\* A step that only adds bytes to what the peer of w's side reads.
LEMMA WriteLocal ==
  ASSUME WireInv, NEW w \in Writer, pc[w] # "idle", up, UNCHANGED <<hsVars, readVars>>, Typed',
         \A v \in Writer : v # w => pc'[v] = pc[v] /\ frame'[v] = frame[v] /\ msg'[v] = msg[v],
         wire'[peer(w[1])] = wire[peer(w[1])], sent'[peer(w[1])] = sent[peer(w[1])],
         Single', Encoded', Ordered', Flow(peer(w[1]))'
  PROVE  WireInv'
<1> DEFINE s == w[1]
           r == peer(s)
<1> USE DEF hsVars, readVars
<1>1. /\ s \in Sides /\ r \in Sides /\ r # s /\ peer(r) = s /\ version = ProtocolVersion
      /\ stage["server"] = "open" /\ stage[s] = "open"
  BY Opened, Peers
<1>2. Early'
  BY <1>1, Peers DEF WireInv, Early, Silent
<1>3. Gate' /\ Greeting' /\ Reading'
  BY <1>1 DEF WireInv, Gate, Greeting, Reading
<1>4. Flow(s)'
  <2>1. greeting(s)' = greeting(s) /\ headOf(s)' = headOf(s) /\ up' = up
    BY DEF greeting, headOf, up
  <2>2. \A tail \in Seq(Nat) : Rest(r, tail) => Rest(r, tail)'
    BY <1>1 DEF Rest, locked
  <2>3. Flow(s)
    BY <1>1 DEF WireInv, Linked
  <2>4. QED
    BY <1>1, <2>1, <2>2, <2>3, FlowKept
<1>5. Linked'
  BY <1>1, <1>4, Peers DEF Linked
<1>6. Awaiting'
  <2>1. SUFFICES ASSUME stage["client"] = "await"
                 PROVE  Flow("client")'
    BY <1>1 DEF Awaiting
  <2>2. r = "client"
    BY <1>1, <2>1, Peers
  <2>3. QED
    BY <2>2
<1>7. QED
  BY <1>2, <1>3, <1>5, <1>6 DEF WireInv

LEMMA ReadTypes ==
  ASSUME WireInv, NEW r \in Sides
  PROVE  greeting(r) \in Seq(Nat) /\ headOf(r) \in Seq(Nat) /\ Len(received[r]) \in Nat
<1>1. ProtocolVersion \in 0 .. Base - 1
  BY CodecAssumption DEF ProtocolVersion
<1>2. greeting(r) \in Seq(Nat)
  BY <1>1, HelloBytes DEF greeting
<1>3. headOf(r) \in Seq(Nat)
  BY BeType DEF headOf, WireInv, Typed
<1>4. received[r] \in Seq(Fitting)
  BY DEF WireInv, Typed
<1>5. QED
  BY <1>2, <1>3, <1>4

LEMMA WriteHeaderStep ==
  ASSUME WireInv, NEW w \in Writer, WriteHeader(w)
  PROVE  WireInv'
<1> DEFINE s == w[1]
           r == peer(s)
           m == msg[w]
           c == be(Len(frame[w]), 4)
<1>1. /\ pc[w] = "lock" /\ ~locked(s) /\ up /\ wire' = [wire EXCEPT ![s] = @ \o c]
      /\ sent' = [sent EXCEPT ![s] = Append(@, m)] /\ pc' = [pc EXCEPT ![w] = "body"]
      /\ UNCHANGED <<hsVars, readVars, frame, msg>>
  BY DEF WriteHeader, put
<1>2. s \in Sides /\ r \in Sides /\ r # s /\ peer(r) = s
  BY <1>1, Opened, Peers
<1>3. m \in Fitting /\ frame[w] = encode(m)
  BY <1>1 DEF WireInv, Encoded
<1>4. c = be(Len(encode(m)), 4) /\ c \in Seq(Nat) /\ encode(m) \in Seq(Nat)
  BY <1>3, FittingMessage
<1>5. wire[s] \in Seq(Nat) /\ sent[s] \in Seq(Fitting) /\ received[r] \in Seq(Fitting)
  BY <1>2 DEF WireInv, Typed
<1> HIDE DEF s, m, c
<1>6. wire[s] \o c \in Seq(Nat)
  BY <1>4, <1>5, ConcatNat
<1>7. Append(sent[s], m) \in Seq(Fitting)
  BY <1>3, <1>5
<1>8. /\ wire'[s] = wire[s] \o c /\ wire'[r] = wire[r] /\ wire' \in [Sides -> Seq(Nat)]
      /\ sent'[s] = Append(sent[s], m) /\ sent'[r] = sent[r] /\ sent' \in [Sides -> Seq(Fitting)]
  BY <1>1, <1>2, <1>6, <1>7 DEF WireInv, Typed
<1>9. pc'[w] = "body" /\ \A v \in Writer : v # w => pc'[v] = pc[v]
  BY <1>1 DEF WireInv, Typed
<1>10. Typed'
  BY <1>1, <1>8 DEF WireInv, Typed, hsVars, readVars
<1>11. Single'
  BY <1>1, <1>9 DEF WireInv, Single, locked, s
<1>12. Encoded'
  BY <1>1, <1>9, <1>3 DEF WireInv, Encoded, m
<1>13. Ordered'
  <2>1. ASSUME NEW t \in Sides
        PROVE  (/\ Len(received[t]) <= Len(sent[peer(t)])
                /\ \A i \in 1 .. Len(received[t]) : received[t][i] = sent[peer(t)][i])'
    <3>1. received'[t] = received[t]
      BY <1>1 DEF readVars
    <3>2. CASE t = s
      BY <1>8, <3>1, <3>2 DEF WireInv, Ordered
    <3>3. CASE t = r
      <4>1. /\ Len(received[r]) <= Len(sent[s])
            /\ \A i \in 1 .. Len(received[r]) : received[r][i] = sent[s][i]
        BY <1>2 DEF WireInv, Ordered
      <4>2. Len(Append(sent[s], m)) = Len(sent[s]) + 1
        BY <1>5
      <4>3. \A i \in 1 .. Len(sent[s]) : Append(sent[s], m)[i] = sent[s][i]
        BY <1>5
      <4>4. Len(sent[s]) \in Nat /\ Len(received[r]) \in Nat
        BY <1>5
      <4>5. Len(received[r]) <= Len(sent'[s])
        BY <1>8, <4>1, <4>2, <4>4
      <4>6. \A i \in 1 .. Len(received[r]) : received[r][i] = sent'[s][i]
        BY <1>8, <4>1, <4>3, <4>4
      <4>7. QED
        BY <1>2, <3>1, <3>3, <4>5, <4>6
    <3>4. QED
      BY <1>2, <3>2, <3>3, Peers
  <2>2. QED
    BY <2>1 DEF Ordered
<1>14. Flow(r)'
  <2>1. Flow(r)
    BY <1>1, Reader DEF s
  <2>2. PICK rest \in Seq(Nat), tail \in Seq(Nat) :
          /\ wire[s] = greeting(r) \o rest
          /\ Framing(headOf(r), rest, tail, sent[s], Len(received[r]))
          /\ Rest(s, tail)
    BY <1>1, <1>2, <2>1 DEF Flow
  <2>3. tail = <<>>
    BY <1>1, <2>2 DEF Rest, locked
  <2>4. greeting(r) \in Seq(Nat) /\ headOf(r) \in Seq(Nat) /\ Len(received[r]) \in Nat
    BY <1>2, <1>5, ReadTypes
  <2> DEFINE new == rest \o c
  <2>5. new \in Seq(Nat)
    BY <1>4, ConcatNat
  <2>6. wire'[s] = greeting(r) \o new
    <3> DEFINE g == greeting(r)
               x == wire[s]
    <3>1. g \in Seq(Nat) /\ x = g \o rest
      BY <2>2, <2>4
    <3> HIDE DEF g, x
    <3>2. x \o c = g \o (rest \o c)
      BY <1>4, <3>1, Longer
    <3>3. wire[s] \o c = greeting(r) \o (rest \o c)
      BY <3>2 DEF g, x
    <3>4. QED
      BY <1>8, <3>3, Zenon DEF new
  <2>7. Framing(headOf(r), new, encode(m), sent'[s], Len(received[r]))
    BY <1>3, <1>4, <1>5, <1>8, <2>2, <2>3, <2>4, FramingSend
  <2>8. PICK x \in Seq(Nat) : x = encode(m)
    BY <1>4
  <2> HIDE DEF new
  <2>9. greeting(r)' = greeting(r) /\ headOf(r)' = headOf(r) /\ received'[r] = received[r]
    BY <1>1 DEF greeting, headOf, hsVars, readVars
  <2>10. QED
    <3>1. Framing(headOf(r)', new, encode(m), sent'[s], Len(received'[r]))
      BY <2>7, <2>9
    <3>2. wire'[s] = greeting(r)' \o new
      BY <2>6, <2>9
    <3>3. Rest(s, x)'
      <4>1. w[1] = s /\ pc'[w] = "body" /\ x = frame'[w]
        BY <1>1, <1>3, <1>9, <2>8 DEF s
      <4>2. QED
        BY <4>1 DEF Rest
    <3>4. /\ wire'[peer(r)] = greeting(r)' \o new
          /\ Framing(headOf(r)', new, x, sent'[peer(r)], Len(received'[r]))
          /\ Rest(peer(r), x)'
      BY <1>2, <2>8, <3>1, <3>2, <3>3
    <3>5. QED
      BY <1>2, <2>5, <3>4, FlowNew
<1>15. QED
  BY <1>1, <1>8, <1>9, <1>10, <1>11, <1>12, <1>13, <1>14, WriteLocal DEF s

LEMMA WriteBodyStep ==
  ASSUME WireInv, NEW w \in Writer, WriteBody(w)
  PROVE  WireInv'
<1> DEFINE s == w[1]
           r == peer(s)
           e == frame[w]
<1>1. /\ pc[w] = "body" /\ up /\ wire' = [wire EXCEPT ![s] = @ \o e]
      /\ pc' = [pc EXCEPT ![w] = "idle"] /\ frame' = [frame EXCEPT ![w] = <<>>]
      /\ msg' = [msg EXCEPT ![w] = <<>>] /\ UNCHANGED <<hsVars, readVars, sent>>
  BY DEF WriteBody, put, done
<1>2. s \in Sides /\ r \in Sides /\ r # s /\ peer(r) = s
  BY <1>1, Opened, Peers
<1>3. wire[s] \in Seq(Nat) /\ e \in Seq(Nat) /\ received[r] \in Seq(Fitting)
  BY <1>2 DEF WireInv, Typed
<1> HIDE DEF s, e
<1>4. wire[s] \o e \in Seq(Nat)
  BY <1>3, ConcatNat
<1>5. wire'[s] = wire[s] \o e /\ wire'[r] = wire[r] /\ wire' \in [Sides -> Seq(Nat)]
  BY <1>1, <1>2, <1>4 DEF WireInv, Typed
<1>6. /\ pc'[w] = "idle"
      /\ \A v \in Writer : v # w => pc'[v] = pc[v] /\ frame'[v] = frame[v] /\ msg'[v] = msg[v]
  BY <1>1 DEF WireInv, Typed
<1>7. Typed'
  BY <1>1, <1>5 DEF WireInv, Typed, hsVars, readVars
<1>8. Single' /\ Encoded'
  BY <1>6 DEF WireInv, Single, Encoded
<1>9. Ordered'
  BY <1>1 DEF WireInv, Ordered, readVars
<1>10. Flow(r)'
  <2>1. Flow(r)
    BY <1>1, Reader DEF s
  <2>2. PICK rest \in Seq(Nat), tail \in Seq(Nat) :
          /\ wire[s] = greeting(r) \o rest
          /\ Framing(headOf(r), rest, tail, sent[s], Len(received[r]))
          /\ Rest(s, tail)
    BY <1>1, <1>2, <2>1 DEF Flow
  <2>3. tail = e
    BY <1>1, <2>2 DEF Rest, locked, s, e, WireInv, Single
  <2>4. greeting(r) \in Seq(Nat) /\ headOf(r) \in Seq(Nat) /\ Len(received[r]) \in Nat
    BY <1>2, <1>3, ReadTypes
  <2> DEFINE new == rest \o e
  <2>5. new \in Seq(Nat) /\ <<>> \in Seq(Nat)
    BY <1>3, ConcatNat
  <2>6. wire'[s] = greeting(r) \o new
    <3> DEFINE g == greeting(r)
               x == wire[s]
    <3>1. g \in Seq(Nat) /\ x = g \o rest
      BY <2>2, <2>4
    <3> HIDE DEF g, x
    <3>2. x \o e = g \o (rest \o e)
      BY <1>3, <3>1, Longer
    <3>3. wire[s] \o e = greeting(r) \o (rest \o e)
      BY <3>2 DEF g, x
    <3>4. QED
      BY <1>5, <3>3, Zenon DEF new
  <2>7. Framing(headOf(r), new, <<>>, sent[s], Len(received[r]))
    BY <1>3, <2>2, <2>3, <2>4, FramingRest
  <2>8. Rest(s, <<>>)'
    BY <1>1, <1>6 DEF Rest, locked, s, WireInv, Single
  <2> HIDE DEF new
  <2>9. greeting(r)' = greeting(r) /\ headOf(r)' = headOf(r) /\ received'[r] = received[r]
    BY <1>1 DEF greeting, headOf, hsVars, readVars
  <2>10. QED
    BY <1>1, <1>2, <2>5, <2>6, <2>7, <2>8, <2>9 DEF Flow
<1>11. QED
  BY <1>1, <1>5, <1>6, <1>7, <1>8, <1>9, <1>10, WriteLocal DEF s

-----------------------------------------------------------------------------
\* The handshake, step by step

\* A step of the handshake of one side leaves messages alone.
LEMMA HandshakeLocal ==
  ASSUME WireInv, UNCHANGED <<version, writeVars, readVars>>,
         stage' \in [Sides -> {"hello", "await", "accept", "open", "shut"}],
         stage'["client"] # "accept", stage'["server"] \notin {"hello", "await"},
         wire' \in [Sides -> Seq(Nat)],
         \A s \in Sides : stage'[s] = stage[s] \/ stage[s] \in {"hello", "await", "accept"},
         version = ProtocolVersion \/ \A s \in Sides : stage'[s] # "open"
  PROVE  /\ Typed' /\ Early' /\ Gate' /\ Single' /\ Encoded' /\ Reading' /\ Ordered'
         /\ \A s \in Sides : greeting("server")' = <<>> /\ headOf(s)' = headOf(s)
<1> USE DEF WireInv, writeVars, readVars
<1>1. Typed'
  BY DEF Typed
<1>2. \A s \in Sides : Silent(s) => Silent(s)'
  BY DEF Silent
<1>3. Early'
  BY <1>2 DEF Early
<1>4. Gate'
  BY <1>2 DEF Gate
<1>5. Single' /\ Encoded' /\ Ordered'
  BY DEF Single, Encoded, Ordered
<1>6. Reading'
  <2>1. \A s \in Sides : stage[s] \in {"hello", "await", "accept"} => rpc[s] = "head"
    BY DEF Early, Silent
  <2>2. QED
    BY <2>1 DEF Reading
<1>7. \A s \in Sides : greeting("server")' = <<>> /\ headOf(s)' = headOf(s)
  BY DEF greeting, headOf
<1>8. QED
  BY <1>1, <1>3, <1>4, <1>5, <1>6, <1>7

LEMMA HelloStep ==
  ASSUME WireInv, Hello
  PROVE  WireInv'
<1> DEFINE g == hello(version, Version)
<1>1. /\ stage["client"] = "hello" /\ wire' = [wire EXCEPT !["client"] = @ \o g]
      /\ stage' = [stage EXCEPT !["client"] = "await"] /\ UNCHANGED <<version, writeVars, readVars>>
  BY DEF Hello, put
<1>2. g \in Seq(Nat)
  <2>1. version \in 0 .. Base - 1
    BY WireAssumption, CodecAssumption DEF WireInv, Typed
  <2>2. QED
    BY <2>1, HelloBytes
<1> HIDE DEF g
<1>3. wire["client"] = <<>> /\ wire["server"] = <<>> /\ stage["server"] # "open"
  BY <1>1 DEF WireInv, Greeting
<1>4. wire'["client"] = g /\ wire'["server"] = <<>> /\ wire' \in [Sides -> Seq(Nat)]
  <2>1. <<>> \o g = g
    BY <1>2, NoBytes
  <2>2. QED
    BY <1>1, <1>2, <1>3, <2>1, Peers DEF WireInv, Typed
<1>5. /\ stage' \in [Sides -> {"hello", "await", "accept", "open", "shut"}]
      /\ stage'["client"] = "await" /\ stage'["server"] = stage["server"]
      /\ stage["server"] \notin {"hello", "await"}
  BY <1>1, Peers DEF WireInv, Typed
<1>6. Typed' /\ Early' /\ Gate' /\ Single' /\ Encoded' /\ Reading' /\ Ordered'
  BY <1>1, <1>3, <1>4, <1>5, Peers, HandshakeLocal
<1>7. Greeting'
  BY <1>1, <1>4, <1>5 DEF Greeting, g
<1>8. Linked' /\ Awaiting'
  BY <1>3, <1>4, <1>5, Peers DEF Linked, Awaiting
<1>9. QED
  BY <1>6, <1>7, <1>8 DEF WireInv

\* Nothing is sent or received yet.
LEMMA FlowSilent ==
  ASSUME NEW r \in Sides, Silent(r), Silent(peer(r)), UNCHANGED <<writeVars, readVars>>,
         greeting(r)' \in Seq(Nat), wire'[peer(r)] = greeting(r)'
  PROVE  Flow(r)'
<1> USE DEF Silent, writeVars, readVars
<1>1. greeting(r)' \o <<>> = greeting(r)' /\ <<>> \in Seq(Nat)
  <2> DEFINE g == greeting(r)'
  <2>1. g \in Seq(Nat)
    OBVIOUS
  <2> HIDE DEF g
  <2>2. g \o <<>> = g /\ <<>> \in Seq(Nat)
    BY <2>1, NoBytes
  <2>3. QED
    BY <2>2 DEF g
<1>2. headOf(r)' = <<>>
  BY DEF headOf
<1>3. sent'[peer(r)] = <<>> /\ received'[r] = <<>> /\ Len(received'[r]) = 0
  BY Peers
<1>4. Framing(headOf(r)', <<>>, <<>>, sent'[peer(r)], Len(received'[r]))
  BY <1>2, <1>3, FramingNone
<1>5. Rest(peer(r), <<>>)'
  BY DEF Rest, locked
<1>6. QED
  BY <1>1, <1>4, <1>5, FlowNew

LEMMA AcceptHandshakeStep ==
  ASSUME WireInv, AcceptHandshake
  PROVE  WireInv'
<1> DEFINE b == wire["client"]
           ok == b[1] = ProtocolVersion
           g == hello(ProtocolVersion, Version)
           z == hello(0, <<>>)
<1>1. /\ stage["server"] = "accept" /\ up /\ greeted(b)
      /\ wire' = [client |-> SubSeq(b, helloLen(b) + 1, Len(b)),
                  server |-> wire["server"] \o (IF ok THEN g ELSE z)]
      /\ stage' = [stage EXCEPT !["server"] = IF ok THEN "open" ELSE "shut"]
      /\ UNCHANGED <<version, writeVars, readVars>>
  BY Peers DEF AcceptHandshake, inbox
<1>2. g \in Seq(Nat) /\ z \in Seq(Nat) /\ version \in 0 .. Base - 1
  <2>1. version \in 0 .. Base - 1 /\ ProtocolVersion \in 0 .. Base - 1
    BY WireAssumption, CodecAssumption DEF WireInv, Typed, ProtocolVersion
  <2>2. QED
    BY <2>1, HelloBytes
<1>3. stage["client"] = "await" /\ wire["server"] = <<>> /\ b = hello(version, Version)
  <2>1. b # <<>>
    BY <1>1, HelloLeft, Peers DEF WireInv, Typed
  <2>2. stage["client"] \in {"hello", "await"} /\ wire["server"] = <<>>
    BY <1>1, Peers DEF WireInv, Typed, Greeting, up
  <2>3. QED
    BY <1>1, <2>1, <2>2 DEF WireInv, Greeting
<1>4. b[1] = version /\ SubSeq(b, helloLen(b) + 1, Len(b)) = <<>>
  <2>1. hello(version, Version) \in Seq(Nat)
    BY <1>2, HelloBytes
  <2>2. b = hello(version, Version) \o <<>>
    <3>1. hello(version, Version) \o <<>> = hello(version, Version)
      BY <2>1, NoBytes
    <3>2. QED
      BY <1>3, <3>1, Zenon
  <2>3. <<>> \in Seq(Nat)
    OBVIOUS
  <2>4. QED
    BY <1>2, <2>2, <2>3, HelloRead, Zenon
<1> HIDE DEF b, g, z
<1>5. wire'["client"] = <<>> /\ wire'["server"] = IF ok THEN g ELSE z
  <2>1. <<>> \o g = g /\ <<>> \o z = z
    BY <1>2, NoBytes
  <2>2. QED
    BY <1>1, <1>3, <1>4, <2>1
<1>6. wire' \in [Sides -> Seq(Nat)]
  <2>1. wire' = [s \in Sides |-> wire'[s]]
    <3>1. DOMAIN wire' = Sides
      BY <1>1, Peers
    <3>2. QED
      BY <1>1, <3>1
  <2>2. \A s \in Sides : wire'[s] \in Seq(Nat)
    <3>1. <<>> \in Seq(Nat)
      OBVIOUS
    <3>2. QED
      BY <1>2, <1>5, <3>1, Peers
  <2>3. QED
    BY <2>1, <2>2
<1>7. /\ stage' \in [Sides -> {"hello", "await", "accept", "open", "shut"}]
      /\ stage'["client"] = "await" /\ stage'["server"] = IF ok THEN "open" ELSE "shut"
  BY <1>1, <1>3, Peers DEF WireInv, Typed
<1>8. /\ Typed' /\ Early' /\ Gate' /\ Single' /\ Encoded' /\ Reading' /\ Ordered'
      /\ greeting("server")' = <<>>
  BY <1>1, <1>3, <1>4, <1>6, <1>7, Peers, HandshakeLocal
<1>9. Greeting'
  BY <1>7 DEF Greeting
<1>10. Silent("client") /\ Silent("server")
  BY <1>1, <1>3, Peers DEF WireInv, Early
<1>11. Linked' /\ Awaiting'
  <2>1. CASE ok
    <3>1. Flow("server")'
      <4>1. <<>> \in Seq(Nat)
        OBVIOUS
      <4>2. QED
        BY <1>1, <1>5, <1>8, <1>10, <4>1, Peers, FlowSilent
    <3>2. greeting("client")' = g
      BY <1>7 DEF greeting, g
    <3>3. Flow("client")'
      BY <1>1, <1>2, <1>5, <1>10, <2>1, <3>2, Peers, FlowSilent
    <3>4. QED
      BY <1>1, <1>4, <1>7, <2>1, <3>1, <3>3, Peers DEF Linked, Awaiting
  <2>2. CASE ~ok
    BY <1>1, <1>4, <1>5, <1>7, <2>2, Peers DEF Linked, Awaiting, z
  <2>3. QED
    BY <2>1, <2>2
<1>12. QED
  BY <1>8, <1>9, <1>11 DEF WireInv

LEMMA AcceptedStep ==
  ASSUME WireInv, Accepted
  PROVE  WireInv'
<1> DEFINE b == wire["server"]
           x == SubSeq(b, helloLen(b) + 1, Len(b))
<1>1. /\ stage["client"] = "await" /\ greeted(b) /\ wire' = [wire EXCEPT !["server"] = x]
      /\ stage' = [stage EXCEPT !["client"] = IF b[1] = version THEN "open" ELSE "shut"]
      /\ UNCHANGED <<version, writeVars, readVars>>
  BY Peers DEF Accepted, inbox, take
<1>2. b # <<>> /\ x \in Seq(Nat)
  BY <1>1, HelloLeft, Peers DEF WireInv, Typed
<1>3. /\ \/ stage["server"] = "shut" /\ version # ProtocolVersion /\ b = hello(0, <<>>)
         \/ version = ProtocolVersion /\ Flow("client")
      /\ stage["server"] # "accept"
  BY <1>1, <1>2 DEF WireInv, Awaiting, Greeting
<1> HIDE DEF x
<1>4. wire' \in [Sides -> Seq(Nat)] /\ wire'["server"] = x /\ wire'["client"] = wire["client"]
  BY <1>1, <1>2, Peers DEF WireInv, Typed
<1>5. /\ stage' \in [Sides -> {"hello", "await", "accept", "open", "shut"}]
      /\ stage'["client"] = IF b[1] = version THEN "open" ELSE "shut"
      /\ stage'["server"] = stage["server"] /\ stage["server"] \notin {"hello", "await"}
  BY <1>1, Peers DEF WireInv, Typed
<1>6. Greeting' /\ Awaiting'
  BY <1>3, <1>5 DEF Greeting, Awaiting
<1>7. CASE stage["server"] = "shut" /\ version # ProtocolVersion /\ b = hello(0, <<>>)
  <2>1. b[1] = 0 /\ version # 0
    <3>1. 0 \in 0 .. Base - 1 /\ version # 0
      BY WireAssumption, CodecAssumption DEF WireInv, Typed
    <3>2. QED
      BY <1>7, <3>1, HelloBytes
  <2>2. stage'["client"] = "shut"
    BY <1>5, <2>1
  <2>3. Typed' /\ Early' /\ Gate' /\ Single' /\ Encoded' /\ Reading' /\ Ordered'
    BY <1>1, <1>4, <1>5, <1>7, <2>2, Peers, HandshakeLocal
  <2>4. Linked'
    BY <1>5, <1>7, <2>2, Peers DEF Linked
  <2>5. QED
    BY <1>6, <2>3, <2>4 DEF WireInv
<1>8. CASE version = ProtocolVersion /\ Flow("client")
  <2>1. PICK rest \in Seq(Nat), tail \in Seq(Nat) :
          /\ b = greeting("client") \o rest
          /\ Framing(headOf("client"), rest, tail, sent["server"], Len(received["client"]))
          /\ up => Rest("server", tail)
    BY <1>8, Peers DEF Flow
  <2>2. ProtocolVersion \in 0 .. Base - 1
    BY CodecAssumption DEF ProtocolVersion
  <2>3. b = hello(ProtocolVersion, Version) \o rest
    BY <1>1, <2>1 DEF greeting
  <2>4. b[1] = version /\ x = rest
    BY <1>8, <2>2, <2>3, HelloRead DEF x
  <2>5. stage'["client"] = "open" /\ (up' <=> up)
    BY <1>1, <1>5, <2>4, Peers DEF up
  <2>6. /\ Typed' /\ Early' /\ Gate' /\ Single' /\ Encoded' /\ Reading' /\ Ordered'
        /\ \A s \in Sides : greeting("server")' = <<>> /\ headOf(s)' = headOf(s)
    BY <1>1, <1>4, <1>5, <1>8, <2>5, Peers, HandshakeLocal
  <2>7. greeting("client")' = <<>>
    BY <2>5 DEF greeting
  <2>8. \A s \in Sides, t \in Seq(Nat) : Rest(s, t) => Rest(s, t)'
    BY <1>1 DEF Rest, locked, writeVars
  <2>9. Flow("client")'
    <3>1. wire'["server"] = greeting("client")' \o rest
      <4>1. <<>> \o rest = rest
        BY NoBytes
      <4>2. QED
        BY <1>4, <2>4, <2>7, <4>1
    <3>2. Framing(headOf("client")', rest, tail, sent'["server"], Len(received'["client"]))
      <4>1. sent' = sent /\ received' = received /\ headOf("client")' = headOf("client")
        BY <1>1, <2>6, Peers DEF writeVars, readVars
      <4>2. QED
        BY <2>1, <4>1
    <3>3. up' => Rest("server", tail)'
      BY <2>1, <2>5, <2>8, Peers
    <3>4. QED
      BY <3>1, <3>2, <3>3, Peers, FlowNew
  <2>10. ASSUME stage["server"] = "open"
         PROVE  Flow("server")'
    <3>1. Flow("server") /\ greeting("server") = <<>>
      BY <2>10, Peers DEF WireInv, Linked, greeting
    <3>2. sent' = sent /\ received' = received
      BY <1>1 DEF writeVars, readVars
    <3>3. QED
      BY <1>4, <2>5, <2>6, <2>8, <3>1, <3>2, Peers, FlowKept
  <2>11. Linked'
    BY <1>5, <2>9, <2>10, Peers DEF Linked
  <2>12. QED
    BY <1>6, <2>6, <2>11 DEF WireInv
<1>9. QED
  BY <1>3, <1>7, <1>8

-----------------------------------------------------------------------------
\* Every step keeps the invariant.  Lengths matter only where messages are read,
\* and none are while the versions differ.

LEMMA WireStep ==
  ASSUME WireInv, [Next]_vars, FramesCounted \/ version # ProtocolVersion
  PROVE  WireInv'
<1>1. CASE Hello
  BY <1>1, HelloStep
<1>2. CASE AcceptHandshake
  BY <1>2, AcceptHandshakeStep
<1>3. CASE Accepted
  BY <1>3, AcceptedStep
<1>4. ASSUME NEW s \in Sides, HandshakeFail(s)
      PROVE  WireInv'
  BY <1>4, HandshakeFailStep
<1>5. ASSUME NEW s \in Sides, Close(s)
      PROVE  WireInv'
  BY <1>5, CloseStep
<1>6. ASSUME NEW s \in Sides, ReadHeader(s)
      PROVE  WireInv'
  <2>1. FramesCounted
    BY <1>6 DEF WireInv, Gate, ReadHeader
  <2>2. QED
    BY <1>6, <2>1, ReadHeaderStep
<1>7. ASSUME NEW s \in Sides, ReadBody(s)
      PROVE  WireInv'
  <2>1. FramesCounted
    BY <1>7 DEF WireInv, Gate, ReadBody
  <2>2. QED
    BY <1>7, <2>1, ReadBodyStep
<1>8. ASSUME NEW s \in Sides, ReadEnd(s)
      PROVE  WireInv'
  BY <1>8, ReadEndStep
<1>9. ASSUME NEW w \in Writer, NEW m \in Msgs[w], Encode(w, m)
      PROVE  WireInv'
  BY <1>9, EncodeStep
<1>10. ASSUME NEW w \in Writer, WriteHeader(w)
       PROVE  WireInv'
  BY <1>10, WriteHeaderStep
<1>11. ASSUME NEW w \in Writer, WriteBody(w)
       PROVE  WireInv'
  BY <1>11, WriteBodyStep
<1>12. ASSUME NEW w \in Writer, WriteFail(w)
       PROVE  WireInv'
  BY <1>12, WriteFailStep
<1>13. CASE UNCHANGED vars
  <2>1. UNCHANGED <<version, stage, wire, pc, frame, msg, rpc, need, sent, received>>
    BY <1>13 DEF vars, hsVars, writeVars, readVars
  <2>2. \A r \in Sides : Flow(r)' <=> Flow(r)
    BY <2>1 DEF Flow, greeting, headOf, Rest, locked, up
  <2>3. Typed' /\ Early' /\ Gate' /\ Single' /\ Encoded' /\ Greeting' /\ Reading' /\ Ordered'
    BY <2>1 DEF WireInv, Typed, Early, Gate, Silent, Single, Encoded, Greeting, Reading, Ordered
  <2>4. Linked' /\ Awaiting'
    BY <2>1, <2>2, Peers DEF WireInv, Linked, Awaiting
  <2>5. QED
    BY <2>3, <2>4 DEF WireInv
<1>14. QED
  BY <1>1, <1>2, <1>3, <1>4, <1>5, <1>6, <1>7, <1>8, <1>9, <1>10, <1>11, <1>12, <1>13 DEF Next

\* The version of the client never changes.
LEMMA VersionKept ==
  ASSUME [Next]_vars
  PROVE  version' = version
BY DEF Next, vars, hsVars, Hello, AcceptHandshake, Accepted, HandshakeFail, Close, ReadHeader,
       ReadBody, ReadEnd, Encode, WriteHeader, WriteBody, WriteFail

\* While no message has a length beyond a uint32, the bytes between the two
\* sides of a Conn are at every moment the frames of what was sent and is still
\* to be received; with different versions, whatever the messages.
THEOREM WireInvariant == Spec => [](FramesCounted \/ version # ProtocolVersion => WireInv)
<1> DEFINE Safe == FramesCounted \/ version # ProtocolVersion => WireInv
<1>1. Init => Safe
  BY WireInit
<1>2. Safe /\ [Next]_vars => Safe'
  <2>1. FramesCounted' <=> FramesCounted
    BY DEF FramesCounted
  <2>2. QED
    BY <2>1, WireStep, VersionKept DEF ProtocolVersion
<1>3. QED
  BY <1>1, <1>2, PTL DEF Spec

\* No message is exchanged between a client and a daemon of different versions,
\* and neither side gets as far as sending one: AcceptHandshake refuses with
\* version 0, which Connect takes for the version of no client.
THEOREM VersionGateHolds == Spec => []VersionGate
<1>1. (FramesCounted \/ version # ProtocolVersion => WireInv) => VersionGate
  BY DEF VersionGate, WireInv, Gate, Silent
<1>2. QED
  BY <1>1, WireInvariant, PTL

\* The messages that ReadMessage returns on one side are the first of those
\* that WriteMessage took the lock for on the other, field by field and in
\* that order, for any number of goroutines and any messages.
THEOREM RoundTripHolds ==
  ASSUME FramesCounted
  PROVE  Spec => []RoundTrip
<1>1. (FramesCounted \/ version # ProtocolVersion => WireInv) => RoundTrip
  <2>1. SUFFICES ASSUME WireInv, NEW s \in Sides
                 PROVE  IsPrefix(received[s], sent[peer(s)])
    BY DEF RoundTrip
  <2> DEFINE a == received[s]
             b == sent[peer(s)]
  <2>2. a \in Seq(Fitting) /\ b \in Seq(Fitting)
    BY <2>1, Peers DEF WireInv, Typed
  <2>3. Len(a) <= Len(b) /\ \A i \in 1 .. Len(a) : a[i] = b[i]
    BY <2>1 DEF WireInv, Ordered
  <2> HIDE DEF a, b
  <2>4. SubSeq(a, 1, Len(a)) = SubSeq(b, 1, Len(a))
    BY <2>2, <2>3
  <2>5. QED
    BY <2>3, <2>4 DEF IsPrefix, a, b
<1>2. QED
  BY <1>1, WireInvariant, PTL

\* When no goroutine is inside WriteMessage and both readers wait for more
\* bytes, each side has received all that the other sent and the connection
\* is empty: no reader waits for the rest of a frame.
THEOREM SettledHolds ==
  ASSUME FramesCounted
  PROVE  Spec => []Settled
<1>1. (FramesCounted \/ version # ProtocolVersion => WireInv) => Settled
  <2>1. SUFFICES ASSUME WireInv, \A w \in Writer : pc[w] = "idle",
                        \A s \in Sides : blocked(s), NEW r \in Sides
                 PROVE  wire[peer(r)] = <<>> /\ received[r] = sent[peer(r)]
    BY Peers DEF Settled
  <2>2. stage[r] = "open" /\ \A s \in Sides : stage[s] = "open"
    BY <2>1 DEF blocked
  <2>3. Flow(r) /\ up
    BY <2>1, <2>2 DEF WireInv, Linked, up
  <2>4. PICK rest \in Seq(Nat), tail \in Seq(Nat) :
          /\ wire[peer(r)] = greeting(r) \o rest
          /\ Framing(headOf(r), rest, tail, sent[peer(r)], Len(received[r]))
          /\ Rest(peer(r), tail)
    BY <2>3 DEF Flow
  <2>5. tail = <<>>
    BY <2>1, <2>4 DEF Rest
  <2>6. wire[peer(r)] = rest
    <3>1. greeting(r) = <<>> /\ <<>> \o rest = rest
      BY <2>2, NoBytes DEF greeting
    <3>2. QED
      BY <2>4, <3>1
  <2>7. /\ sent[peer(r)] \in Seq(Fitting) /\ received[r] \in Seq(Fitting)
        /\ Len(received[r]) \in Nat /\ need[r] \in Nat
    BY <2>1, Peers DEF WireInv, Typed
  <2>8. rpc[r] = "head"
    <3>1. SUFFICES ASSUME rpc[r] = "body"
                   PROVE  FALSE
      BY <2>1, <2>2 DEF WireInv, Reading
    <3>2. need[r] \in 1 .. FrameMax /\ headOf(r) = be(need[r], 4)
      BY <2>1, <3>1 DEF WireInv, Reading, headOf
    <3>3. Len(rest) >= need[r]
      BY <2>4, <2>5, <2>7, <3>2, FramingSettled
    <3>4. Len(rest) < need[r]
      BY <2>1, <2>6, <3>1 DEF blocked, inbox
    <3>5. QED
      BY <2>7, <3>3, <3>4
  <2>9. headOf(r) = <<>> /\ Len(rest) < 4
    BY <2>1, <2>6, <2>8 DEF headOf, blocked, inbox
  <2>10. Len(received[r]) = Len(sent[peer(r)]) /\ rest = <<>>
    BY <2>4, <2>5, <2>7, <2>9, FramingSettled
  <2>11. received[r] = sent[peer(r)]
    <3>1. \A i \in 1 .. Len(received[r]) : received[r][i] = sent[peer(r)][i]
      BY <2>1 DEF WireInv, Ordered
    <3>2. QED
      BY <2>7, <2>10, <3>1, SeqEqual
  <2>12. QED
    BY <2>6, <2>10, <2>11
<1>2. QED
  BY <1>1, WireInvariant, PTL

\* The length that ReadHeader reads is that of a message.
LEMMA NextLength ==
  ASSUME FramesCounted, WireInv, NEW s \in Sides, stage[s] = "open", rpc[s] = "head",
         Len(inbox(s)) >= 4
  PROVE  \E m \in Fitting : num(SubSeq(inbox(s), 1, 4)) = Len(encode(m))
<1> DEFINE ms == sent[peer(s)]
           k == Len(received[s])
<1>1. headOf(s) = <<>> /\ inbox(s) \in Seq(Nat)
  BY Waiting DEF headOf
<1>2. ms \in Seq(Fitting) /\ k \in Nat
  BY Peers DEF WireInv, Typed
<1>3. PICK tail \in Seq(Nat) : Framing(<<>>, inbox(s), tail, ms, k)
  BY <1>1, Waiting
<1>4. ms[k + 1] \in Fitting /\ num(SubSeq(inbox(s), 1, 4)) = Len(encode(ms[k + 1]))
  BY <1>1, <1>2, <1>3, FramingHeader
<1>5. QED
  BY <1>4

\* A frame of at most maxFrameSize is never refused by the ReadMessage of the
\* other side, for its length or for its payload.
THEOREM UnderstoodHolds ==
  ASSUME FramesFit
  PROVE  Spec => []Understood
<1>1. FramesCounted
  <2>1. SUFFICES ASSUME NEW m \in Fitting
                 PROVE  Len(encode(m)) < U32
    BY DEF FramesCounted
  <2> DEFINE n == Len(encode(m))
  <2>2. n \in Nat /\ n <= FrameMax
    BY FittingMessage DEF FramesFit
  <2> HIDE DEF n
  <2>3. n < U32
    BY <2>2, CodecAssumption DEF U32
  <2>4. QED
    BY <2>3 DEF n
<1>2. Init => Understood
  BY DEF Init, Understood
<1>3. WireInv /\ Understood /\ [Next]_vars => Understood'
  <2>1. SUFFICES ASSUME WireInv, Understood, [Next]_vars
                 PROVE  Understood'
    OBVIOUS
  <2>2. ASSUME NEW s \in Sides, ReadHeader(s)
        PROVE  Understood'
    <3> DEFINE n == num(SubSeq(inbox(s), 1, 4))
    <3>1. n \in Nat \ {0} /\ n <= FrameMax
      <4>1. PICK m \in Fitting : n = Len(encode(m))
        BY <1>1, <2>1, <2>2, NextLength DEF ReadHeader
      <4>2. QED
        BY <4>1, FittingMessage DEF FramesFit
    <3>2. ~(n = 0 \/ n > FrameMax)
      BY <3>1, CodecAssumption
    <3>3. rpc' = [rpc EXCEPT ![s] = "body"]
      BY <2>2, <3>2 DEF ReadHeader
    <3>4. QED
      BY <2>1, <3>3 DEF Understood, WireInv, Typed
  <2>3. ASSUME NEW s \in Sides, ReadBody(s)
        PROVE  Understood'
    <3>1. rpc'[s] = "head"
      BY <1>1, <2>1, <2>3, ReadBodyStep
    <3>2. rpc' = [rpc EXCEPT ![s] = "head"] \/ rpc' = [rpc EXCEPT ![s] = "refused"]
      BY <2>3, Zenon DEF ReadBody, fail
    <3>3. QED
      BY <2>1, <3>1, <3>2 DEF Understood, WireInv, Typed
  <2>4. CASE UNCHANGED rpc
    BY <2>1, <2>4 DEF Understood
  <2>5. ASSUME NEW s \in Sides, ReadEnd(s)
        PROVE  Understood'
    BY <2>1, <2>5 DEF Understood, ReadEnd, fail, WireInv, Typed
  <2>6. QED
    BY <2>1, <2>2, <2>3, <2>4, <2>5
    DEF Next, vars, readVars, Hello, AcceptHandshake, Accepted, HandshakeFail, Close,
        Encode, WriteHeader, WriteBody, WriteFail
<1>4. QED
  BY <1>1, <1>2, <1>3, WireInvariant, PTL DEF Spec
=============================================================================
