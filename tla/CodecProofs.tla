----------------------------- MODULE CodecProofs -----------------------------
(***************************************************************************)
(* decode gives back what encode was given, for messages of every type, of *)
(* any content and any length that fits into a frame.                      *)
(*                                                                         *)
(* The prover has no induction scheme that it could apply, so induction is *)
(* on sets: a set of naturals that has 0 and with k has k + 1 has them     *)
(* all.  Recursive functions are shown to exist before they are unfolded.  *)
(***************************************************************************)
EXTENDS Codec, SequenceTheorems, WellFoundedInduction, TLAPS

-----------------------------------------------------------------------------
\* Induction

\* A non-empty set of naturals has a least element.
LEMMA LeastNatural ==
  ASSUME NEW T \in SUBSET Nat, T # {}
  PROVE  \E x \in T : \A y \in T : x <= y
<1>1. PICK x \in T : \A y \in T : ~(<<y, x>> \in OpToRel(<, Nat))
  BY NatLessThanWellFounded, WFMin
<1>2. ASSUME NEW y \in T, y < x
      PROVE  <<y, x>> \in OpToRel(<, Nat)
  BY <1>2, Zenon DEF OpToRel
<1>3. \A y \in T : ~(y < x)
  BY <1>1, <1>2, Zenon
<1>4. QED
  BY <1>3

\* A set that has 0, and with k also k + 1, has every natural number.
LEMMA Induction ==
  ASSUME NEW T \in SUBSET Nat, 0 \in T, \A k \in T : k + 1 \in T
  PROVE  \A k \in Nat : k \in T
<1> DEFINE rest == Nat \ T
<1> SUFFICES ASSUME rest # {} PROVE FALSE
  OBVIOUS
<1>1. PICK x \in rest : \A y \in rest : x <= y
  BY LeastNatural
<1>2. x - 1 \in T
  BY <1>1
<1>3. QED
  BY <1>1, <1>2

-----------------------------------------------------------------------------
\* Concatenation (FlattenSeq), by its prefixes

\* The equation of the function in FlattenSeq has a solution.
LEMMA FlattenExists ==
  ASSUME NEW n \in Nat, NEW s
  PROVE  \E g : g = [i \in 1 .. n |-> IF i = 1 THEN s[i] ELSE g[i - 1] \o s[i]]
<1> DEFINE Has(k) == \E g : g = [i \in 1 .. k |-> IF i = 1 THEN s[i] ELSE g[i - 1] \o s[i]]
<1>1. Has(0)
  <2>1. [i \in 1 .. 0 |-> 0]
          = [i \in 1 .. 0 |-> IF i = 1 THEN s[i] ELSE [j \in 1 .. 0 |-> 0][i - 1] \o s[i]]
    OBVIOUS
  <2>2. QED
    BY <2>1
<1>2. ASSUME NEW k \in Nat, Has(k)
      PROVE  Has(k + 1)
  <2>1. PICK g : g = [i \in 1 .. k |-> IF i = 1 THEN s[i] ELSE g[i - 1] \o s[i]]
    BY <1>2
  <2> DEFINE h == [i \in 1 .. k + 1 |-> IF i <= k THEN g[i]
                                        ELSE IF i = 1 THEN s[i] ELSE g[i - 1] \o s[i]]
  <2>2. \A i \in 1 .. k : h[i] = g[i]
    OBVIOUS
  <2>3. \A i \in 1 .. k : g[i] = IF i = 1 THEN s[i] ELSE g[i - 1] \o s[i]
    BY <2>1
  <2>4. h[k + 1] = IF k + 1 = 1 THEN s[k + 1] ELSE g[k] \o s[k + 1]
    OBVIOUS
  <2>5. h = [i \in 1 .. k + 1 |-> h[i]]
    OBVIOUS
  <2> HIDE DEF h
  <2>6. ASSUME NEW i \in 1 .. k + 1
        PROVE  h[i] = IF i = 1 THEN s[i] ELSE h[i - 1] \o s[i]
    <3>1. i = 1 \/ h[i - 1] = g[i - 1]
      BY <2>2
    <3>2. CASE i = k + 1
      BY <3>1, <3>2, <2>4
    <3>3. CASE i \in 1 .. k
      BY <3>1, <3>3, <2>2, <2>3
    <3>4. QED
      BY <3>2, <3>3
  <2>7. h = [i \in 1 .. k + 1 |-> IF i = 1 THEN s[i] ELSE h[i - 1] \o s[i]]
    BY <2>5, <2>6, Zenon
  <2>8. QED
    BY <2>7
<1> HIDE DEF Has
<1>3. \A k \in {j \in Nat : Has(j)} : k + 1 \in {j \in Nat : Has(j)}
  BY <1>2
<1>4. \A k \in Nat : k \in {j \in Nat : Has(j)}
  BY <1>1, <1>3, Induction
<1>5. Has(n)
  BY <1>4
<1>6. QED
  BY <1>5 DEF Has

\* FlattenSeq is the last of its prefixes.
LEMMA FlattenDef ==
  ASSUME NEW n \in Nat, NEW s \in [1 .. n -> Seq(Nat)]
  PROVE  \E g \in [0 .. n -> Seq(Nat)] :
           /\ g[0] = <<>> /\ g[n] = FlattenSeq(s)
           /\ \A i \in 1 .. n : g[i] = g[i - 1] \o s[i]
<1>1. s \in Seq(Seq(Nat)) /\ Len(s) = n
  OBVIOUS
<1>2. CASE n = 0
  <2>1. FlattenSeq(s) = s
    BY <1>1, <1>2 DEF FlattenSeq
  <2>2. s = <<>>
    BY <1>1, <1>2
  <2> DEFINE g == [i \in 0 .. 0 |-> s]
  <2>3. g \in [0 .. n -> Seq(Nat)] /\ g[0] = <<>> /\ g[n] = FlattenSeq(s)
    BY <1>2, <2>1, <2>2
  <2>4. \A i \in 1 .. n : g[i] = g[i - 1] \o s[i]
    BY <1>2
  <2> HIDE DEF g
  <2>5. QED
    BY <2>3, <2>4
<1>3. CASE n # 0
  <2> DEFINE f == CHOOSE g : g = [i \in 1 .. n |-> IF i = 1 THEN s[i] ELSE g[i - 1] \o s[i]]
  <2>1. FlattenSeq(s) = f[n]
    BY <1>1, <1>3 DEF FlattenSeq
  <2>2. f = [i \in 1 .. n |-> IF i = 1 THEN s[i] ELSE f[i - 1] \o s[i]]
    BY FlattenExists, Zenon
  <2> HIDE DEF f
  <2>3. \A i \in 1 .. n : f[i] = IF i = 1 THEN s[i] ELSE f[i - 1] \o s[i]
    BY <2>2
  <2> DEFINE T == {k \in Nat : k + 1 \in 1 .. n => f[k + 1] \in Seq(Nat)}
  <2>4. 0 \in T
    BY <2>3
  <2>5. ASSUME NEW k \in T
        PROVE  k + 1 \in T
    <3>1. k \in Nat /\ (k + 1) + 1 = k + 2
      OBVIOUS
    <3>2. SUFFICES ASSUME k + 2 \in 1 .. n
                   PROVE  f[k + 2] \in Seq(Nat)
      BY <3>1
    <3>3. f[k + 1] \in Seq(Nat) /\ s[k + 2] \in Seq(Nat)
      BY <3>2
    <3>4. f[k + 2] = f[k + 1] \o s[k + 2]
      <4>1. k + 2 # 1 /\ (k + 2) - 1 = k + 1
        BY <3>1
      <4>2. QED
        BY <2>3, <3>2, <4>1
    <3>5. QED
      BY <3>3, <3>4
  <2>6. \A k \in Nat : k \in T
    BY <2>4, <2>5, Induction
  <2>7. \A i \in 1 .. n : f[i] \in Seq(Nat)
    <3>1. TAKE i \in 1 .. n
    <3>2. i - 1 \in Nat /\ (i - 1) + 1 = i
      OBVIOUS
    <3>3. i - 1 \in T
      BY <2>6, <3>2
    <3>4. QED
      BY <3>2, <3>3
  <2> DEFINE g == [i \in 0 .. n |-> IF i = 0 THEN <<>> ELSE f[i]]
  <2>8. g \in [0 .. n -> Seq(Nat)] /\ g[0] = <<>> /\ g[n] = FlattenSeq(s)
    BY <1>3, <2>1, <2>7
  <2>9. ASSUME NEW i \in 1 .. n
        PROVE  g[i] = g[i - 1] \o s[i]
    <3>1. CASE i = 1
      <4>1. f[1] = s[1] /\ s[1] \in Seq(Nat)
        BY <2>3, <3>1
      <4>2. <<>> \o s[1] = s[1]
        BY <4>1
      <4>3. QED
        BY <3>1, <4>1, <4>2
    <3>2. CASE i # 1
      <4>1. f[i] = f[i - 1] \o s[i]
        BY <2>3, <3>2
      <4>2. g[i] = f[i] /\ g[i - 1] = f[i - 1]
        BY <3>2
      <4>3. QED
        BY <4>1, <4>2
    <3>3. QED
      BY <3>1, <3>2
  <2> HIDE DEF g
  <2>10. QED
    BY <2>8, <2>9
<1>4. QED
  BY <1>2, <1>3

\* FlattenSeq is a sequence, at least as long as each of its parts, and as long
\* as their number if none is empty.
LEMMA FlattenLen ==
  ASSUME NEW n \in Nat, NEW s \in [1 .. n -> Seq(Nat)]
  PROVE  /\ FlattenSeq(s) \in Seq(Nat)
         /\ \A i \in 1 .. n : Len(s[i]) <= Len(FlattenSeq(s))
         /\ (\A i \in 1 .. n : s[i] # <<>>) => n <= Len(FlattenSeq(s))
<1>1. PICK g \in [0 .. n -> Seq(Nat)] :
        /\ g[0] = <<>> /\ g[n] = FlattenSeq(s)
        /\ \A i \in 1 .. n : g[i] = g[i - 1] \o s[i]
  BY FlattenDef
<1> DEFINE Good(k) ==
      /\ \A i \in 1 .. k : Len(s[i]) <= Len(g[k])
      /\ (\A i \in 1 .. n : s[i] # <<>>) => k <= Len(g[k])
<1>2. Good(0)
  BY <1>1
<1>3. ASSUME NEW k \in Nat, k + 1 \in 1 .. n, Good(k)
      PROVE  Good(k + 1)
  <2>1. k \in 0 .. n /\ k + 1 \in 0 .. n /\ (k + 1) - 1 = k
    BY <1>3
  <2>2. /\ g[k] \in Seq(Nat) /\ s[k + 1] \in Seq(Nat) /\ g[k + 1] \in Seq(Nat)
        /\ g[k + 1] = g[k] \o s[k + 1]
    <3>1. g[k + 1] = g[(k + 1) - 1] \o s[k + 1]
      BY <1>1, <1>3
    <3>2. QED
      BY <2>1, <3>1, <1>3
  <2> DEFINE x == Len(g[k])
             y == Len(s[k + 1])
             z == Len(g[k + 1])
  <2>3. x \in Nat /\ y \in Nat /\ z = x + y
    BY <2>2
  <2>4. ASSUME NEW i \in 1 .. k + 1
        PROVE  Len(s[i]) <= z
    <3> HIDE DEF x, z
    <3>1. CASE i = k + 1
      <4>1. y <= z
        BY <2>3
      <4>2. QED
        BY <3>1, <4>1
    <3>2. CASE i \in 1 .. k
      <4> DEFINE l == Len(s[i])
      <4>1. s[i] \in Seq(Nat)
        BY <3>2, <2>1
      <4>2. l \in Nat
        BY <4>1
      <4>3. l <= x
        BY <3>2, <1>3 DEF x
      <4> HIDE DEF l, y
      <4>4. l <= z
        BY <4>2, <4>3, <2>3
      <4>5. QED
        BY <4>4 DEF l
    <3>3. QED
      BY <3>1, <3>2
  <2>5. s[k + 1] # <<>> => Len(s[k + 1]) >= 1
    BY <2>2
  <2>6. (\A i \in 1 .. n : s[i] # <<>>) => k + 1 <= Len(g[k + 1])
    BY <1>3, <2>1, <2>3, <2>5
  <2>7. QED
    BY <2>4, <2>6
<1> HIDE DEF Good
<1> DEFINE T == {k \in Nat : k \in 0 .. n => Good(k)}
<1>4. 0 \in T
  BY <1>2
<1>5. ASSUME NEW k \in T
      PROVE  k + 1 \in T
  BY <1>3
<1>6. \A k \in Nat : k \in T
  BY <1>4, <1>5, Induction
<1>7. Good(n)
  BY <1>6
<1>8. QED
  BY <1>1, <1>7 DEF Good

-----------------------------------------------------------------------------
\* Places in a frame

\* The bytes e are in f from position p on.
Lies(f, p, e) ==
  /\ p \in Nat /\ p + Len(e) <= Len(f)
  /\ \A i \in 1 .. Len(e) : f[p + i] = e[i]

LEMMA ConcatNat ==
  ASSUME NEW a \in Seq(Nat), NEW b \in Seq(Nat)
  PROVE  a \o b \in Seq(Nat) /\ Len(a \o b) = Len(a) + Len(b)
OBVIOUS

LEMMA ConcatFirst ==
  ASSUME NEW a \in Seq(Nat), NEW b \in Seq(Nat)
  PROVE  \A i \in 1 .. Len(a) : (a \o b)[i] = a[i]
OBVIOUS

LEMMA ConcatSecond ==
  ASSUME NEW a \in Seq(Nat), NEW b \in Seq(Nat)
  PROVE  \A i \in 1 .. Len(b) : (a \o b)[Len(a) + i] = b[i]
OBVIOUS

\* Two pieces, one after the other.
LEMMA LiesConcat ==
  ASSUME NEW f \in Seq(Nat), NEW p \in Nat, NEW a \in Seq(Nat), NEW b \in Seq(Nat),
         Lies(f, p, a \o b)
  PROVE  Lies(f, p, a) /\ Lies(f, p + Len(a), b)
<1>1. Len(a \o b) = Len(a) + Len(b)
  OBVIOUS
<1>2. \A i \in 1 .. Len(a) : (a \o b)[i] = a[i]
  OBVIOUS
<1>3. \A i \in 1 .. Len(b) : (a \o b)[Len(a) + i] = b[i]
  OBVIOUS
<1>4. Lies(f, p, a)
  <2>1. ASSUME NEW i \in 1 .. Len(a)
        PROVE  f[p + i] = a[i]
    <3>1. i \in 1 .. Len(a \o b)
      BY <1>1
    <3>2. f[p + i] = (a \o b)[i]
      BY <3>1 DEF Lies
    <3>3. QED
      BY <3>2, <1>2
  <2>2. Len(a) \in Nat /\ Len(b) \in Nat /\ Len(f) \in Nat
    OBVIOUS
  <2>3. p + Len(a) <= Len(f)
    BY <1>1, <2>2 DEF Lies
  <2>4. QED
    BY <2>1, <2>3 DEF Lies
<1>5. ASSUME NEW i \in 1 .. Len(b)
      PROVE  f[(p + Len(a)) + i] = b[i]
  <2>1. Len(a) + i \in 1 .. Len(a \o b)
    BY <1>1
  <2>2. f[p + (Len(a) + i)] = (a \o b)[Len(a) + i]
    BY <2>1 DEF Lies
  <2>3. p + (Len(a) + i) = (p + Len(a)) + i
    OBVIOUS
  <2>4. QED
    BY <2>2, <2>3, <1>3
<1>6. QED
  BY <1>1, <1>4, <1>5 DEF Lies

\* What is read there.
LEMMA LiesSub ==
  ASSUME NEW f \in Seq(Nat), NEW p \in Nat, NEW e \in Seq(Nat), Lies(f, p, e)
  PROVE  SubSeq(f, p + 1, p + Len(e)) = e
<1>1. \A i \in p + 1 .. p + Len(e) : f[i] \in Nat
  BY DEF Lies
<1>2. Len(SubSeq(f, p + 1, p + Len(e))) = Len(e)
  BY <1>1 DEF Lies
<1>3. \A i \in 1 .. Len(e) : SubSeq(f, p + 1, p + Len(e))[i] = e[i]
  BY <1>1 DEF Lies
<1>4. SubSeq(f, p + 1, p + Len(e)) \in Seq(Nat)
  BY <1>1
<1>5. QED
  BY <1>2, <1>3, <1>4, SeqEqual

-----------------------------------------------------------------------------
\* Numbers

\* A number is its low byte and what is left of it.
LEMMA Digit ==
  ASSUME NEW v \in Int
  PROVE  low(v) \in 0 .. Base - 1 /\ shift(v) \in Int /\ v = shift(v) * Base + low(v)
BY CodecAssumption DEF low, shift

\* The bytes of a number.
LEMMA BeType ==
  ASSUME NEW v \in Int, NEW w \in {1, 2, 4}
  PROVE  be(v, w) \in Seq(Nat) /\ Len(be(v, w)) = w
<1>1. /\ low(v) \in Nat /\ shift(v) \in Int
      /\ low(shift(v)) \in Nat /\ shift(shift(v)) \in Int
      /\ low(shift(shift(v))) \in Nat /\ low(shift(shift(shift(v)))) \in Nat
  BY Digit, CodecAssumption
<1>2. QED
  BY <1>1 DEF be

\* Reading them gives the number, or what it is modulo the width.
LEMMA NumBe ==
  ASSUME NEW v \in Int
  PROVE  /\ v \in 0 .. Base - 1 => num(be(v, 1)) = v
         /\ v \in 0 .. U16 - 1 => num(be(v, 2)) = v
         /\ v \in 0 .. U32 - 1 => num(be(v, 4)) = v
         /\ v \in -U32 .. -1 => num(be(v, 4)) = v + U32
<1> DEFINE a == shift(v)
           b == shift(a)
           c == shift(b)
           d == shift(c)
<1>1. Base \in Nat /\ Base >= 2
  BY CodecAssumption
<1>2. low(v) \in 0 .. Base - 1 /\ a \in Int /\ v = a * Base + low(v)
  BY Digit
<1>3. low(a) \in 0 .. Base - 1 /\ b \in Int /\ a = b * Base + low(a)
  BY <1>2, Digit
<1>4. low(b) \in 0 .. Base - 1 /\ c \in Int /\ b = c * Base + low(b)
  BY <1>3, Digit
<1>5. low(c) \in 0 .. Base - 1 /\ d \in Int /\ c = d * Base + low(c)
  BY <1>4, Digit
<1>6. num(be(v, 1)) = low(v)
  BY DEF num, be
<1>7. num(be(v, 2)) = low(a) * Base + low(v)
  BY DEF num, be
<1>8. num(be(v, 4)) = ((low(c) * Base + low(b)) * Base + low(a)) * Base + low(v)
  BY DEF num, be
<1> HIDE DEF a, b, c, d
<1>9. ASSUME NEW x \in Int, NEW y \in Int, NEW r \in 0 .. Base - 1, NEW k \in Int,
             x = y * Base + r
      PROVE  (x >= 0 => y >= 0) /\ (x < k * Base => y < k) /\ (x < 0 => y < 0)
             /\ (x >= k * Base => y >= k)
  BY <1>1, <1>9
<1> DEFINE B2 == Base * Base
           B3 == B2 * Base
<1>10. B2 \in Nat /\ B3 \in Nat /\ U16 = B2 /\ U32 = B3 * Base /\ U32 \in Nat
  BY <1>1 DEF U16, U32
<1>11. ASSUME v \in 0 .. Base - 1
       PROVE  num(be(v, 1)) = v
  <2>1. a >= 0 /\ a < 1
    BY <1>1, <1>2, <1>9, <1>11
  <2>2. a = 0
    BY <1>2, <2>1
  <2>3. QED
    BY <1>1, <1>2, <1>6, <2>2
<1>12. ASSUME v \in 0 .. U16 - 1
       PROVE  num(be(v, 2)) = v
  <2>1. a >= 0 /\ a < Base
    BY <1>1, <1>2, <1>9, <1>10, <1>12
  <2>2. b >= 0 /\ b < 1
    BY <1>1, <1>3, <1>9, <1>2, <2>1
  <2>3. b = 0
    BY <1>3, <2>2
  <2>4. a = low(a)
    BY <1>1, <1>3, <2>3
  <2>5. QED
    BY <1>2, <1>7, <2>4
<1>13. ASSUME v \in 0 .. U32 - 1
       PROVE  num(be(v, 4)) = v
  <2> HIDE DEF B2, B3
  <2>1. a >= 0 /\ a < B3
    BY <1>1, <1>2, <1>9, <1>10, <1>13
  <2>2. b >= 0 /\ b < B2
    BY <1>1, <1>2, <1>3, <1>9, <1>10, <2>1 DEF B3
  <2>3. c >= 0 /\ c < Base
    BY <1>1, <1>3, <1>4, <1>9, <1>10, <2>2 DEF B2
  <2>4. d >= 0 /\ d < 1
    BY <1>1, <1>4, <1>5, <1>9, <2>3
  <2>5. d = 0
    BY <1>5, <2>4
  <2>6. c = low(c)
    BY <1>1, <1>5, <2>5
  <2>7. QED
    BY <1>2, <1>3, <1>4, <1>8, <2>6
<1>14. ASSUME v \in -U32 .. -1
       PROVE  num(be(v, 4)) = v + U32
  <2> HIDE DEF B2, B3
  <2>1. a < 0 /\ a >= -B3
    <3>1. v >= (-B3) * Base /\ v < 0 /\ -B3 \in Int
      BY <1>1, <1>10, <1>14
    <3>2. QED
      BY <1>2, <1>9, <3>1
  <2>2. b < 0 /\ b >= -B2
    <3>1. a >= (-B2) * Base /\ -B2 \in Int
      BY <1>1, <1>2, <1>10, <2>1 DEF B3
    <3>2. QED
      BY <1>2, <1>3, <1>9, <2>1, <3>1
  <2>3. c < 0 /\ c >= -Base
    <3>1. b >= (-Base) * Base /\ -Base \in Int
      BY <1>1, <1>3, <1>10, <2>2 DEF B2
    <3>2. QED
      BY <1>3, <1>4, <1>9, <2>2, <3>1
  <2>4. d < 0 /\ d >= -1
    <3>1. c >= (-1) * Base
      BY <1>1, <1>4, <2>3
    <3>2. QED
      BY <1>4, <1>5, <1>9, <2>3, <3>1
  <2>5. d = -1
    BY <1>5, <2>4
  <2>6. low(c) = c + Base
    BY <1>1, <1>5, <2>5
  <2>7. low(c) * Base + low(b) = b + B2
    BY <1>1, <1>4, <2>6 DEF B2
  <2>8. (low(c) * Base + low(b)) * Base + low(a) = a + B3
    BY <1>1, <1>3, <1>10, <2>7 DEF B3
  <2>9. (a + B3) * Base + low(v) = v + U32
    BY <1>1, <1>2, <1>10
  <2>10. QED
    BY <1>8, <2>8, <2>9
<1>15. QED
  BY <1>11, <1>12, <1>13, <1>14

-----------------------------------------------------------------------------
\* Reading one thing after the other (readEach)

\* The equation of the function in readEach has a solution.
Solves(g, n, rs, b) == g = [i \in 0 .. n |-> IF i = 0 THEN b ELSE readNext(g[i - 1], rs[i])]

LEMMA EachExists ==
  ASSUME NEW n \in Nat, NEW rs, NEW b
  PROVE  \E g : Solves(g, n, rs, b)
<1> USE DEF Solves
<1> DEFINE Has(k) == \E g : Solves(g, k, rs, b)
<1>1. Has(0)
  <2> DEFINE h == [i \in 0 .. 0 |-> b]
  <2>1. h = [i \in 0 .. 0 |-> IF i = 0 THEN b ELSE readNext(h[i - 1], rs[i])]
    OBVIOUS
  <2>2. QED
    BY <2>1
<1>2. ASSUME NEW k \in Nat, Has(k)
      PROVE  Has(k + 1)
  <2>1. PICK g : g = [i \in 0 .. k |-> IF i = 0 THEN b ELSE readNext(g[i - 1], rs[i])]
    BY <1>2
  <2> DEFINE h == [i \in 0 .. k + 1 |-> IF i <= k THEN g[i] ELSE readNext(g[i - 1], rs[i])]
  <2>2. \A i \in 0 .. k : h[i] = g[i]
    OBVIOUS
  <2>3. \A i \in 0 .. k : g[i] = IF i = 0 THEN b ELSE readNext(g[i - 1], rs[i])
    BY <2>1
  <2>4. h[k + 1] = readNext(g[k], rs[k + 1])
    OBVIOUS
  <2>5. h = [i \in 0 .. k + 1 |-> h[i]]
    OBVIOUS
  <2> HIDE DEF h
  <2>6. ASSUME NEW i \in 0 .. k + 1
        PROVE  h[i] = IF i = 0 THEN b ELSE readNext(h[i - 1], rs[i])
    <3>1. i = 0 \/ h[i - 1] = g[i - 1]
      BY <2>2
    <3>2. CASE i = k + 1
      BY <3>1, <3>2, <2>4
    <3>3. CASE i \in 0 .. k
      BY <3>1, <3>3, <2>2, <2>3
    <3>4. QED
      BY <3>2, <3>3
  <2>7. h = [i \in 0 .. k + 1 |-> IF i = 0 THEN b ELSE readNext(h[i - 1], rs[i])]
    BY <2>5, <2>6, Zenon
  <2>8. QED
    BY <2>7
<1> HIDE DEF Has
<1>3. \A k \in {j \in Nat : Has(j)} : k + 1 \in {j \in Nat : Has(j)}
  BY <1>2
<1>4. \A k \in Nat : k \in {j \in Nat : Has(j)}
  BY <1>1, <1>3, Induction
<1>5. Has(n)
  BY <1>4
<1>6. QED
  BY <1>5 DEF Has

\* The results of readEach, one after the other.
Results(got, rs, n, p) ==
  /\ got[0] = Got(p, <<>>) /\ got[n] = readEach(rs, p)
  /\ \A i \in 1 .. n : got[i] = readNext(got[i - 1], rs[i])

LEMMA EachDef ==
  ASSUME NEW n \in Nat, NEW R, NEW rs \in [1 .. n -> R], NEW p
  PROVE  \E got : Results(got, rs, n, p)
<1>1. Len(rs) = n
  OBVIOUS
<1> DEFINE b == Got(p, <<>>)
           f == CHOOSE g : g = [i \in 0 .. n |-> IF i = 0 THEN b ELSE readNext(g[i - 1], rs[i])]
<1>2. readEach(rs, p) = f[n]
  BY <1>1 DEF readEach
<1> HIDE DEF b
<1>3. f = [i \in 0 .. n |-> IF i = 0 THEN b ELSE readNext(f[i - 1], rs[i])]
  <2>1. \E g : Solves(g, n, rs, b)
    BY EachExists
  <2>2. QED
    BY <2>1, Zenon DEF Solves
<1> HIDE DEF f
<1>4. f[0] = b /\ \A i \in 1 .. n : f[i] = readNext(f[i - 1], rs[i])
  BY <1>3
<1>5. Results(f, rs, n, p)
  BY <1>2, <1>4 DEF Results, b
<1>6. QED
  BY <1>5

\* The reader r reads the value v where the bytes e are.
Reads(r, f, e, v) ==
  \A q \in Nat : Lies(f, q, e) => r[q] = Got(q + Len(e), v)

\* A sequence of n elements, and readers that each read their value.
Elements(s, n) == s = [i \in 1 .. n |-> s[i]]

AllRead(rs, f, es, vs, n) == \A i \in 1 .. n : Reads(rs[i], f, es[i], vs[i])

\* If every reader reads its value, they read all values one after the other.
LEMMA EachReads ==
  ASSUME NEW f \in Seq(Nat), NEW n \in Nat, NEW es \in [1 .. n -> Seq(Nat)],
         NEW rs, Elements(rs, n), NEW vs, Elements(vs, n), AllRead(rs, f, es, vs, n),
         NEW p \in Nat, Lies(f, p, FlattenSeq(es))
  PROVE  readEach(rs, p) = Got(p + Len(FlattenSeq(es)), vs)
<1> DEFINE R == {rs[i] : i \in 1 .. n}
           S == {vs[i] : i \in 1 .. n}
<1>1. rs \in [1 .. n -> R] /\ vs \in [1 .. n -> S]
  BY DEF Elements
<1> HIDE DEF R, S
<1>2. PICK g \in [0 .. n -> Seq(Nat)] :
        /\ g[0] = <<>> /\ g[n] = FlattenSeq(es)
        /\ \A i \in 1 .. n : g[i] = g[i - 1] \o es[i]
  BY FlattenDef
<1>3. PICK got : Results(got, rs, n, p)
  BY <1>1, EachDef, Zenon
<1>4. /\ got[0] = Got(p, <<>>) /\ got[n] = readEach(rs, p)
      /\ \A i \in 1 .. n : got[i] = readNext(got[i - 1], rs[i])
  BY <1>3 DEF Results
<1>5. ASSUME NEW i \in 1 .. n, Lies(f, p, g[i])
      PROVE  Lies(f, p, g[i - 1]) /\ Lies(f, p + Len(g[i - 1]), es[i])
  <2>1. i - 1 \in 0 .. n
    OBVIOUS
  <2>2. g[i - 1] \in Seq(Nat) /\ es[i] \in Seq(Nat) /\ g[i] = g[i - 1] \o es[i]
    BY <1>2, <2>1
  <2>3. QED
    BY <2>2, <1>5, LiesConcat
<1>6. \A i \in 0 .. n : Lies(f, p, g[i])
  <2> DEFINE T == {j \in Nat : j <= n => Lies(f, p, g[n - j])}
  <2>1. 0 \in T
    BY <1>2
  <2>2. ASSUME NEW j \in T
        PROVE  j + 1 \in T
    <3>1. SUFFICES ASSUME j + 1 <= n
                   PROVE  Lies(f, p, g[n - (j + 1)])
      OBVIOUS
    <3>2. n - j \in 1 .. n /\ (n - j) - 1 = n - (j + 1) /\ j <= n
      BY <3>1
    <3>3. Lies(f, p, g[n - j])
      BY <3>2
    <3>4. QED
      BY <3>2, <3>3, <1>5
  <2>3. \A j \in Nat : j \in T
    BY <2>1, <2>2, Induction
  <2>4. ASSUME NEW i \in 0 .. n
        PROVE  Lies(f, p, g[i])
    <3>1. n - i \in Nat /\ n - i <= n /\ n - (n - i) = i
      OBVIOUS
    <3>2. n - i \in T
      BY <2>3, <3>1
    <3>3. QED
      BY <3>1, <3>2
  <2>5. QED
    BY <2>4
<1> DEFINE part(k) == [j \in 1 .. k |-> vs[j]]
           Done(k) == got[k] = Got(p + Len(g[k]), part(k))
<1>7. Done(0)
  BY <1>2, <1>4
<1>8. ASSUME NEW k \in Nat, k + 1 \in 1 .. n, Done(k)
      PROVE  Done(k + 1)
  <2>1. k \in 0 .. n /\ (k + 1) - 1 = k
    BY <1>8
  <2>2. g[k] \in Seq(Nat) /\ es[k + 1] \in Seq(Nat) /\ vs[k + 1] \in S
    BY <1>8, <1>1, <2>1
  <2> DEFINE q == p + Len(g[k])
  <2>3. q \in Nat
    BY <2>2
  <2>4. Lies(f, q, es[k + 1])
    <3>1. Lies(f, p, g[k + 1])
      BY <1>6, <1>8
    <3>2. Lies(f, p + Len(g[(k + 1) - 1]), es[k + 1])
      BY <1>5, <1>8, <3>1
    <3>3. QED
      BY <2>1, <3>2
  <2> HIDE DEF q
  <2>5. rs[k + 1][q] = Got(q + Len(es[k + 1]), vs[k + 1])
    BY <1>8, <2>3, <2>4 DEF Reads, AllRead
  <2>6. got[k + 1] = readNext(Got(q, part(k)), rs[k + 1])
    BY <1>4, <1>8, <2>1 DEF q
  <2>7. got[k + 1] = Got(q + Len(es[k + 1]), Append(part(k), vs[k + 1]))
    <3> DEFINE d == Got(q, part(k))
               r == Got(q + Len(es[k + 1]), vs[k + 1])
    <3>1. d.ok /\ d.pos = q /\ d.value = part(k)
      BY DEF Got
    <3>2. r.ok /\ r.pos = q + Len(es[k + 1]) /\ r.value = vs[k + 1]
      BY DEF Got
    <3>3. rs[k + 1][d.pos] = r
      BY <3>1, <2>5
    <3> HIDE DEF d, r, part
    <3>4. readNext(d, rs[k + 1]) = Got(r.pos, Append(d.value, r.value))
      BY <3>1, <3>2, <3>3, Zenon DEF readNext
    <3>5. QED
      BY <2>6, <3>1, <3>2, <3>4 DEF d
  <2>8. q + Len(es[k + 1]) = p + Len(g[k + 1])
    <3>1. g[k + 1] = g[k] \o es[k + 1]
      BY <1>2, <1>8, <2>1
    <3> DEFINE x == Len(g[k])
               y == Len(es[k + 1])
               z == Len(g[k + 1])
    <3>2. x \in Nat /\ y \in Nat /\ z = x + y
      BY <2>2, <3>1
    <3> HIDE DEF x, y, z
    <3>3. (p + x) + y = p + z
      BY <3>2
    <3>4. QED
      BY <3>3 DEF q, x, y, z
  <2>9. Append(part(k), vs[k + 1]) = part(k + 1)
    <3>1. part(k) \in Seq(S) /\ Len(part(k)) = k
      BY <1>8, <1>1, <2>1
    <3>2. part(k + 1) \in Seq(S) /\ Len(part(k + 1)) = k + 1
      BY <1>8, <1>1
    <3>3. \A i \in 1 .. k + 1 : Append(part(k), vs[k + 1])[i] = part(k + 1)[i]
      BY <3>1, <2>2
    <3>4. Append(part(k), vs[k + 1]) \in Seq(S) /\ Len(Append(part(k), vs[k + 1])) = k + 1
      BY <3>1, <2>2
    <3> HIDE DEF part
    <3>5. QED
      BY <3>2, <3>3, <3>4, SeqEqual
  <2>10. QED
    BY <2>7, <2>8, <2>9
<1> HIDE DEF Done
<1> DEFINE T == {k \in Nat : k <= n => Done(k)}
<1>9. \A k \in T : k + 1 \in T
  BY <1>8
<1>10. \A k \in Nat : k \in T
  BY <1>7, <1>9, Induction
<1>11. Done(n)
  BY <1>10
<1>12. part(n) = vs
  BY <1>1
<1>13. QED
  BY <1>2, <1>4, <1>11, <1>12 DEF Done

-----------------------------------------------------------------------------
\* The readers

\* A number.
LEMMA UintReads ==
  ASSUME NEW f \in Seq(Nat), NEW v \in Int, NEW w \in {1, 2, 4}
  PROVE  Reads(ReadUint(f, w), f, be(v, w), num(be(v, w)))
<1> DEFINE e == be(v, w)
<1>1. e \in Seq(Nat) /\ Len(e) = w
  BY BeType
<1> HIDE DEF e
<1>2. ASSUME NEW q \in Nat, Lies(f, q, e)
      PROVE  ReadUint(f, w)[q] = Got(q + Len(e), num(e))
  <2>1. q + w <= Len(f) /\ q \in 0 .. Len(f)
    BY <1>1, <1>2 DEF Lies
  <2>2. SubSeq(f, q + 1, q + w) = e
    BY <1>1, <1>2, LiesSub
  <2>3. QED
    BY <1>1, <2>1, <2>2 DEF ReadUint
<1>3. QED
  BY <1>2 DEF Reads, e

\* A count and the bytes it counts.
LEMMA CountedReads ==
  ASSUME NEW f \in Seq(Nat), Len(f) <= FrameMax, NEW v \in Seq(Nat), NEW w \in {2, 4},
         w = 2 => Len(v) <= StrMax
  PROVE  /\ be(Len(v), w) \o v \in Seq(Nat) /\ be(Len(v), w) \o v # <<>>
         /\ Reads(ReadCounted(f, w), f, be(Len(v), w) \o v, v)
<1> DEFINE l == Len(v)
           e == be(l, w)
<1>1. l \in Nat /\ l \in Int /\ w \in {1, 2, 4}
  OBVIOUS
<1> HIDE DEF l
<1>2. e \in Seq(Nat) /\ Len(e) = w /\ l \in Nat
  BY <1>1, BeType
<1> USE DEF l
<1>3. e \o v \in Seq(Nat) /\ Len(e \o v) = w + l
  BY <1>2
<1> HIDE DEF e
<1>4. ASSUME NEW q \in Nat, Lies(f, q, e \o v)
      PROVE  ReadCounted(f, w)[q] = Got(q + (w + l), v)
  <2>1. Lies(f, q, e) /\ Lies(f, q + w, v)
    BY <1>2, <1>4, LiesConcat
  <2>2. q \in 0 .. Len(f) /\ (q + w) + l <= Len(f) /\ l <= FrameMax
    BY <1>2, <2>1, CodecAssumption DEF Lies
  <2>3. num(e) = l
    <3>1. w = 2 => l \in 0 .. U16 - 1
      BY <1>2, CodecAssumption DEF StrMax, U16
    <3>2. w = 4 => l \in 0 .. U32 - 1
      BY <1>2, <2>2, CodecAssumption DEF U32
    <3>3. QED
      BY <3>1, <3>2, NumBe DEF e
  <2>4. ReadUint(f, w)[q] = Got(q + w, l)
    BY <1>2, <2>1, <2>3, UintReads DEF Reads, e
  <2>5. SubSeq(f, (q + w) + 1, (q + w) + l) = v
    BY <2>1, LiesSub
  <2> DEFINE n == Got(q + w, l)
  <2>6. n.ok /\ n.pos = q + w /\ n.value = l
    BY DEF Got
  <2> HIDE DEF n, l
  <2>7. ReadCounted(f, w)[q] = Got((q + w) + l, v)
    BY <2>2, <2>4, <2>5, <2>6 DEF ReadCounted, n
  <2>8. QED
    BY <1>2, <2>7
<1>5. QED
  BY <1>3, <1>4, <1>2 DEF Reads, e

\* The same reader, again and again.
Again(one, n) == [i \in 1 .. n |-> one]

LEMMA RepeatReads ==
  ASSUME NEW f \in Seq(Nat), NEW n \in Nat, NEW es \in [1 .. n -> Seq(Nat)],
         NEW vs, Elements(vs, n), NEW one, AllRead(Again(one, n), f, es, vs, n),
         NEW p \in Nat, Lies(f, p, FlattenSeq(es))
  PROVE  readEach(Again(one, n), p) = Got(p + Len(FlattenSeq(es)), vs)
<1>1. Elements(Again(one, n), n)
  BY DEF Elements, Again
<1>2. ASSUME NEW rs, Elements(rs, n), AllRead(rs, f, es, vs, n)
      PROVE  readEach(rs, p) = Got(p + Len(FlattenSeq(es)), vs)
  BY <1>2, EachReads
<1>3. QED
  BY <1>1, <1>2

NoneEmpty(es, n) == \A i \in 1 .. n : es[i] # <<>>

\* A count and as many elements.  There are never more than bytes in the frame.
LEMMA ListReads ==
  ASSUME NEW f \in Seq(Nat), Len(f) <= FrameMax, NEW n \in Nat, NEW es \in [1 .. n -> Seq(Nat)],
         NEW vs, Elements(vs, n), NEW one,
         AllRead(Again(one, n), f, es, vs, n), NoneEmpty(es, n)
  PROVE  /\ writeList(es) \in Seq(Nat) /\ writeList(es) # <<>>
         /\ Reads(readList(f, one), f, writeList(es), vs)
<1> DEFINE b == FlattenSeq(es)
           e == be(n, 4)
<1>1. Len(es) = n
  OBVIOUS
<1>2. b \in Seq(Nat) /\ n <= Len(b)
  BY FlattenLen DEF NoneEmpty
<1>3. e \in Seq(Nat) /\ Len(e) = 4
  BY BeType
<1>4. writeList(es) = e \o b
  BY <1>1 DEF writeList
<1> HIDE DEF e, b
<1>5. e \o b \in Seq(Nat) /\ Len(e \o b) = 4 + Len(b)
  <2>1. e \in Seq(Nat) /\ b \in Seq(Nat)
    BY <1>2, <1>3
  <2>2. e \o b \in Seq(Nat) /\ Len(e \o b) = Len(e) + Len(b)
    BY <2>1
  <2>3. QED
    BY <1>3, <2>2
<1>6. ASSUME NEW q \in Nat, Lies(f, q, e \o b)
      PROVE  readList(f, one)[q] = Got(q + (4 + Len(b)), vs)
  <2>1. Lies(f, q, e) /\ Lies(f, q + 4, b)
    BY <1>2, <1>3, <1>6, LiesConcat
  <2>2. q \in 0 .. Len(f) /\ n <= FrameMax
    <3> DEFINE x == Len(b)
               y == Len(f)
    <3>1. x \in Nat /\ y \in Nat /\ n <= x /\ (q + 4) + x <= y /\ y <= FrameMax
      BY <1>2, <2>1 DEF Lies
    <3>2. FrameMax \in Nat
      BY CodecAssumption
    <3> HIDE DEF x, y
    <3>3. q \in 0 .. y /\ n <= FrameMax
      BY <3>1, <3>2
    <3>4. QED
      BY <3>3 DEF y
  <2>3. num(e) = n
    <3>1. n \in 0 .. U32 - 1
      BY <2>2, CodecAssumption DEF U32
    <3>2. QED
      BY <3>1, NumBe DEF e
  <2>4. ReadUint(f, 4)[q] = Got(q + 4, n)
    <3>1. Reads(ReadUint(f, 4), f, e, num(e))
      BY UintReads DEF e
    <3>2. QED
      BY <1>3, <2>1, <2>3, <3>1 DEF Reads
  <2> DEFINE d == Got(q + 4, n)
             rs == Again(one, n)
  <2>5. d.ok /\ d.pos = q + 4 /\ d.value = n
    BY DEF Got
  <2> HIDE DEF rs
  <2>6. readEach(rs, q + 4) = Got((q + 4) + Len(b), vs)
    <3> DEFINE p == q + 4
    <3>1. p \in Nat /\ Lies(f, p, FlattenSeq(es))
      BY <2>1 DEF b
    <3> HIDE DEF p
    <3>2. readEach(Again(one, n), p) = Got(p + Len(FlattenSeq(es)), vs)
      BY <3>1, RepeatReads
    <3>3. QED
      BY <3>2 DEF p, b, rs
  <2> HIDE DEF d
  <2>7. readList(f, one)[q] = readEach(rs, q + 4)
    BY <2>2, <2>4, <2>5 DEF readList, d, rs, Again
  <2>8. (q + 4) + Len(b) = q + (4 + Len(b))
    BY <1>2
  <2>9. QED
    BY <2>6, <2>7, <2>8
<1>7. QED
  BY <1>4, <1>5, <1>6 DEF Reads

\* A table of n fields.
Table(fields, n, kinds) ==
  DOMAIN fields = 1 .. n /\ \A i \in 1 .. n : fields[i][2] \in kinds

\* The fields of a struct, one after the other.
LEMMA StructReads ==
  ASSUME NEW f \in Seq(Nat), NEW n \in Nat, NEW kinds, NEW fields, Table(fields, n, kinds),
         NEW es \in [1 .. n -> Seq(Nat)], NEW v, v = [x \in names(fields) |-> v[x]], NEW readers,
         \A i \in 1 .. n : Reads(readers[fields[i][2]], f, es[i], v[fields[i][1]])
  PROVE  Reads(readStruct(f, fields, readers), f, FlattenSeq(es), v)
<1> DEFINE b == FlattenSeq(es)
           rs == [i \in 1 .. n |-> readers[fields[i][2]]]
           vs == [i \in 1 .. n |-> v[fields[i][1]]]
<1>1. b \in Seq(Nat)
  BY FlattenLen
<1>2. DOMAIN fields = 1 .. n
  BY DEF Table
<1>3. assigned(fields, vs) = v
  <2>1. ASSUME NEW x \in names(fields)
        PROVE  vs[CHOOSE i \in DOMAIN fields : fields[i][1] = x] = v[x]
    <3>1. \E i \in 1 .. n : fields[i][1] = x
      BY <1>2 DEF names
    <3> DEFINE k == CHOOSE i \in DOMAIN fields : fields[i][1] = x
    <3>2. k \in 1 .. n /\ fields[k][1] = x
      BY <1>2, <3>1
    <3> HIDE DEF k
    <3>3. vs[k] = v[x]
      BY <3>2
    <3>4. QED
      BY <3>3 DEF k
  <2> HIDE DEF vs
  <2>2. QED
    BY <2>1, Zenon DEF assigned
<1>4. ASSUME NEW q \in Nat, Lies(f, q, b)
      PROVE  readStruct(f, fields, readers)[q] = Got(q + Len(b), v)
  <2>1. q \in 0 .. Len(f)
    BY <1>1, <1>4 DEF Lies
  <2>2. Elements(rs, n) /\ Elements(vs, n)
    BY DEF Elements
  <2>3. AllRead(rs, f, es, vs, n)
    BY DEF AllRead
  <2> HIDE DEF rs, vs
  <2>4. readEach(rs, q) = Got(q + Len(b), vs)
    BY <1>4, <2>2, <2>3, EachReads
  <2> DEFINE d == Got(q + Len(b), vs)
  <2>5. d.ok /\ d.pos = q + Len(b) /\ d.value = vs
    BY DEF Got
  <2> HIDE DEF d, b
  <2>6. rs = [i \in DOMAIN fields |-> readers[fields[i][2]]]
    BY <1>2 DEF rs
  <2>7. readStruct(f, fields, readers)[q] = Got(d.pos, assigned(fields, d.value))
    BY <2>1, <2>4, <2>5, <2>6 DEF readStruct, d
  <2>8. QED
    BY <1>3, <2>5, <2>7
<1>5. QED
  BY <1>4 DEF Reads

-----------------------------------------------------------------------------
\* The fields, depth by depth

\* The bytes e are not empty, and r reads them as v.
Codes(r, f, e, v) == e \in Seq(Nat) /\ e # <<>> /\ Reads(r, f, e, v)

\* A list of elements that are each written and read back.
LEMMA ListCodes ==
  ASSUME NEW f \in Seq(Nat), Len(f) <= FrameMax, NEW n \in Nat, NEW es, Elements(es, n),
         NEW vs, Elements(vs, n), NEW one,
         \A i \in 1 .. n : Codes(one, f, es[i], vs[i])
  PROVE  Codes(readList(f, one), f, writeList(es), vs)
<1>1. es \in [1 .. n -> Seq(Nat)]
  BY DEF Elements, Codes
<1>2. NoneEmpty(es, n)
  BY DEF NoneEmpty, Codes
<1>3. AllRead(Again(one, n), f, es, vs, n)
  BY DEF AllRead, Again, Codes
<1>4. QED
  BY <1>1, <1>2, <1>3, ListReads DEF Codes

\* A struct whose fields are each written and read back.
LEMMA StructCodes ==
  ASSUME NEW f \in Seq(Nat), NEW n \in Nat, NEW kinds, NEW fields, Table(fields, n, kinds),
         NEW es, Elements(es, n), NEW v, v = [x \in names(fields) |-> v[x]], NEW readers,
         \A i \in 1 .. n : Codes(readers[fields[i][2]], f, es[i], v[fields[i][1]])
  PROVE  /\ FlattenSeq(es) \in Seq(Nat) /\ (n # 0 => FlattenSeq(es) # <<>>)
         /\ Reads(readStruct(f, fields, readers), f, FlattenSeq(es), v)
<1>1. es \in [1 .. n -> Seq(Nat)]
  BY DEF Elements, Codes
<1>2. \A i \in 1 .. n : es[i] # <<>>
  BY DEF Codes
<1>3. FlattenSeq(es) \in Seq(Nat) /\ n <= Len(FlattenSeq(es))
  BY <1>1, <1>2, FlattenLen
<1>4. \A i \in 1 .. n : Reads(readers[fields[i][2]], f, es[i], v[fields[i][1]])
  BY DEF Codes
<1>5. Reads(readStruct(f, fields, readers), f, FlattenSeq(es), v)
  BY <1>1, <1>4, StructReads
<1>6. QED
  BY <1>3, <1>5

\* A number of an int32 is the number that its bytes are converted to.
LEMMA Int32 ==
  ASSUME NEW v \in (U32 \div 2) - U32 .. (U32 \div 2) - 1
  PROVE  v \in Int /\ int32(num(be(v, 4))) = v
<1> DEFINE h == U32 \div 2
<1>1. U32 \in Nat /\ U32 >= 2
  BY CodecAssumption DEF U32
<1>2. h \in Nat /\ 2 * h <= U32 /\ U32 <= 2 * h + 1
  BY <1>1
<1>3. v \in Int /\ v >= h - U32 /\ v <= h - 1
  BY <1>1, <1>2
<1> HIDE DEF h
<1>4. CASE v >= 0
  <2>1. v \in 0 .. U32 - 1 /\ ~(v >= h)
    BY <1>1, <1>2, <1>3, <1>4
  <2>2. num(be(v, 4)) = v
    BY <1>3, <2>1, NumBe
  <2>3. QED
    BY <1>3, <2>1, <2>2 DEF int32, h
<1>5. CASE v < 0
  <2>1. v \in -U32 .. -1 /\ v + U32 >= h
    BY <1>1, <1>2, <1>3, <1>5
  <2>2. num(be(v, 4)) = v + U32
    BY <1>3, <2>1, NumBe
  <2>3. QED
    BY <1>1, <1>3, <2>1, <2>2 DEF int32, h
<1>6. QED
  BY <1>3, <1>4, <1>5

\* A number is never written as nothing.
LEMMA BeNotEmpty ==
  ASSUME NEW v \in Int, NEW w \in {1, 2, 4}
  PROVE  be(v, w) # <<>>
<1>1. be(v, w) \in Seq(Nat) /\ Len(be(v, w)) = w
  BY BeType
<1>2. QED
  BY <1>1

\* A number and what is made of it.
LEMMA NumberCodes ==
  ASSUME NEW f \in Seq(Nat), NEW v \in Int, NEW w \in {1, 2, 4}, num(be(v, w)) = v
  PROVE  Codes(ReadUint(f, w), f, be(v, w), v)
<1>1. be(v, w) \in Seq(Nat) /\ Len(be(v, w)) = w
  BY BeType
<1>2. be(v, w) # <<>>
  BY <1>1
<1>3. QED
  BY <1>1, <1>2, UintReads DEF Codes

LEMMA I32Codes ==
  ASSUME NEW f \in Seq(Nat), NEW v \in (U32 \div 2) - U32 .. (U32 \div 2) - 1
  PROVE  Codes(ReadI32(f), f, be(v, 4), v)
<1> DEFINE e == be(v, 4)
           u == num(e)
<1>1. v \in Int /\ int32(u) = v
  BY Int32
<1>2. e \in Seq(Nat) /\ Len(e) = 4
  BY <1>1, BeType
<1>3. Reads(ReadUint(f, 4), f, e, u)
  BY <1>1, UintReads
<1> HIDE DEF e, u
<1>4. ASSUME NEW q \in Nat, Lies(f, q, e)
      PROVE  ReadI32(f)[q] = Got(q + Len(e), v)
  <2>1. q \in 0 .. Len(f)
    BY <1>2, <1>4 DEF Lies
  <2> DEFINE d == Got(q + Len(e), u)
  <2>2. ReadUint(f, 4)[q] = d
    BY <1>3, <1>4 DEF Reads
  <2>3. d.ok /\ d.pos = q + Len(e) /\ d.value = u
    BY DEF Got
  <2> HIDE DEF d
  <2>4. ReadI32(f)[q] = Got(d.pos, int32(d.value))
    BY <2>1, <2>2, <2>3 DEF ReadI32
  <2>5. QED
    BY <1>1, <2>3, <2>4
<1>5. e # <<>>
  BY <1>1, BeNotEmpty DEF e
<1>6. QED
  BY <1>2, <1>4, <1>5 DEF Codes, Reads, e

LEMMA BoolCodes ==
  ASSUME NEW f \in Seq(Nat), NEW v \in BOOLEAN
  PROVE  Codes(ReadBool(f), f, be(IF v THEN 1 ELSE 0, 1), v)
<1> DEFINE b == IF v THEN 1 ELSE 0
           e == be(b, 1)
<1>1. b \in Int /\ b \in 0 .. Base - 1
  BY CodecAssumption
<1>2. (b # 0) = v
  OBVIOUS
<1> HIDE DEF b
<1>3. e \in Seq(Nat) /\ Len(e) = 1
  BY <1>1, BeType
<1>4. Reads(ReadUint(f, 1), f, e, b)
  <2>1. num(e) = b
    BY <1>1, NumBe
  <2>2. QED
    BY <1>1, <2>1, UintReads
<1> HIDE DEF e
<1>5. ASSUME NEW q \in Nat, Lies(f, q, e)
      PROVE  ReadBool(f)[q] = Got(q + Len(e), v)
  <2>1. q \in 0 .. Len(f)
    BY <1>3, <1>5 DEF Lies
  <2> DEFINE d == Got(q + Len(e), b)
  <2>2. ReadUint(f, 1)[q] = d
    BY <1>4, <1>5 DEF Reads
  <2>3. d.ok /\ d.pos = q + Len(e) /\ d.value = b
    BY DEF Got
  <2> HIDE DEF d
  <2>4. ReadBool(f)[q] = Got(d.pos, d.value # 0)
    BY <2>1, <2>2, <2>3, Zenon DEF ReadBool
  <2>5. QED
    BY <1>2, <2>3, <2>4, Zenon
<1>6. e # <<>>
  BY <1>3
<1>7. QED
  BY <1>3, <1>5, <1>6, Zenon DEF Codes, Reads, e, b

\* A string of at most StrMax bytes.
LEMMA StringCodes ==
  ASSUME NEW f \in Seq(Nat), Len(f) <= FrameMax, NEW v \in Text, Len(v) <= StrMax
  PROVE  Codes(ReadCounted(f, 2), f, WriteString(v), v)
<1>1. v \in Seq(Nat)
  BY CodecAssumption DEF Text
<1>2. QED
  BY <1>1, CountedReads DEF Codes, WriteString

\* A field of one of the flat kinds.
LEMMA FlatCodes ==
  ASSUME NEW f \in Seq(Nat), Len(f) <= FrameMax, NEW kind \in FlatKinds, NEW v,
         isFlat(kind, v), fitsFlat(kind, v)
  PROVE  Codes(readFlat(f)[kind], f, writeFlat(kind, v), v)
<1>1. Base \in Nat /\ U16 \in Nat /\ U32 \in Nat
  BY CodecAssumption DEF U16, U32
<1>2. CASE kind = "u8"
  <2>1. v \in Int /\ v \in 0 .. Base - 1
    BY <1>1, <1>2 DEF isFlat
  <2>2. Codes(ReadUint(f, 1), f, be(v, 1), v)
    BY <2>1, NumBe, NumberCodes
  <2>3. QED
    BY <1>2, <2>2 DEF readFlat, writeFlat
<1>3. CASE kind = "u16"
  <2>1. v \in Int /\ v \in 0 .. U16 - 1
    BY <1>1, <1>3 DEF isFlat
  <2>2. Codes(ReadUint(f, 2), f, be(v, 2), v)
    BY <2>1, NumBe, NumberCodes
  <2>3. QED
    BY <1>3, <2>2 DEF readFlat, writeFlat
<1>4. CASE kind = "u32"
  <2>1. v \in Int /\ v \in 0 .. U32 - 1
    BY <1>1, <1>4 DEF isFlat
  <2>2. Codes(ReadUint(f, 4), f, be(v, 4), v)
    BY <2>1, NumBe, NumberCodes
  <2>3. QED
    BY <1>4, <2>2 DEF readFlat, writeFlat
<1>5. CASE kind = "i32"
  <2>1. Codes(ReadI32(f), f, be(v, 4), v)
    BY <1>5, I32Codes DEF isFlat
  <2>2. QED
    BY <1>5, <2>1 DEF readFlat, writeFlat
<1>6. CASE kind = "bool"
  <2>1. v \in BOOLEAN
    BY <1>6 DEF isFlat
  <2>2. Codes(ReadBool(f), f, be(IF v THEN 1 ELSE 0, 1), v)
    BY <2>1, BoolCodes
  <2>3. QED
    BY <1>6, <2>2 DEF readFlat, writeFlat
<1>7. CASE kind = "str"
  <2>1. v \in Text /\ Len(v) <= StrMax
    BY <1>7 DEF isFlat, fitsFlat
  <2>2. Codes(ReadCounted(f, 2), f, WriteString(v), v)
    BY <2>1, StringCodes
  <2>3. QED
    BY <1>7, <2>2 DEF readFlat, writeFlat
<1>8. CASE kind = "bytes"
  <2>1. v \in Seq(Nat)
    BY <1>8, CodecAssumption DEF isFlat, Text
  <2>2. Codes(ReadCounted(f, 4), f, be(Len(v), 4) \o v, v)
    BY <2>1, CountedReads DEF Codes
  <2>3. QED
    BY <1>8, <2>2 DEF readFlat, writeFlat
<1>9. CASE kind = "strs"
  <2>1. v \in Seq(Text) /\ \A i \in DOMAIN v : Len(v[i]) <= StrMax
    BY <1>9 DEF isFlat, fitsFlat
  <2> DEFINE n == Len(v)
             es == [i \in DOMAIN v |-> WriteString(v[i])]
  <2>2. n \in Nat /\ DOMAIN v = 1 .. n /\ Elements(v, n)
    BY <2>1 DEF Elements
  <2> HIDE DEF n
  <2>3. ASSUME NEW i \in 1 .. n
        PROVE  Codes(ReadCounted(f, 2), f, es[i], v[i])
    BY <2>1, <2>2, StringCodes
  <2>4. Elements(es, n)
    BY <2>2 DEF Elements
  <2> HIDE DEF es
  <2>5. Codes(readList(f, ReadCounted(f, 2)), f, writeList(es), v)
    BY <2>2, <2>3, <2>4, ListCodes
  <2>6. QED
    BY <1>9, <2>5 DEF readFlat, writeFlat, es
<1>10. QED
  BY <1>2, <1>3, <1>4, <1>5, <1>6, <1>7, <1>8, <1>9 DEF FlatKinds

-----------------------------------------------------------------------------
\* The tables of the fields

InnerKinds == FlatKinds \cup {"clients"}
AllKinds == InnerKinds \cup {"sessions", "status"}

\* encode writes the fields in the order in which decode assigns them.
LEMMA SameOrder == encodeOrder = decodeOrder
BY DEF encodeOrder, decodeOrder,
  encodeCreate, decodeCreate,
  encodeAttach, decodeAttach,
  encodeResize, decodeResize,
  encodeSend, decodeSend,
  encodeSendKey, decodeSendKey,
  encodeDump, decodeDump,
  encodeKick, decodeKick,
  encodeCreated, decodeCreated,
  encodeAttached, decodeAttached,
  encodeClientsChanged, decodeClientsChanged,
  encodeStatusResponse, decodeStatusResponse,
  encodeSession, decodeSession,
  encodeSessionStatus, decodeSessionStatus,
  encodeSessionClient, decodeSessionClient

\* How many fields each table has, and of which kinds.
LEMMA TableCreate == Table(encodeCreate, 6, AllKinds)
BY DEF encodeCreate, Table, FlatKinds, InnerKinds, AllKinds

LEMMA TableAttach == Table(encodeAttach, 11, AllKinds)
BY DEF encodeAttach, Table, FlatKinds, InnerKinds, AllKinds

LEMMA TableResize == Table(encodeResize, 4, AllKinds)
BY DEF encodeResize, Table, FlatKinds, InnerKinds, AllKinds

LEMMA TableSend == Table(encodeSend, 2, AllKinds)
BY DEF encodeSend, Table, FlatKinds, InnerKinds, AllKinds

LEMMA TableSendKey == Table(encodeSendKey, 3, AllKinds)
BY DEF encodeSendKey, Table, FlatKinds, InnerKinds, AllKinds

LEMMA TableDump == Table(encodeDump, 2, AllKinds)
BY DEF encodeDump, Table, FlatKinds, InnerKinds, AllKinds

LEMMA TableKick == Table(encodeKick, 2, AllKinds)
BY DEF encodeKick, Table, FlatKinds, InnerKinds, AllKinds

LEMMA TableCreated == Table(encodeCreated, 2, AllKinds)
BY DEF encodeCreated, Table, FlatKinds, InnerKinds, AllKinds

LEMMA TableAttached == Table(encodeAttached, 10, AllKinds)
BY DEF encodeAttached, Table, FlatKinds, InnerKinds, AllKinds

LEMMA TableClientsChanged == Table(encodeClientsChanged, 3, AllKinds)
BY DEF encodeClientsChanged, Table, FlatKinds, InnerKinds, AllKinds

LEMMA TableStatusResponse == Table(encodeStatusResponse, 7, AllKinds)
BY DEF encodeStatusResponse, Table, FlatKinds, InnerKinds, AllKinds

LEMMA TableSession == Table(encodeSession, 9, InnerKinds)
BY DEF encodeSession, Table, FlatKinds, InnerKinds, AllKinds

LEMMA TableSessionStatus == Table(encodeSessionStatus, 7, InnerKinds)
BY DEF encodeSessionStatus, Table, FlatKinds, InnerKinds, AllKinds

LEMMA TableSessionClient == Table(encodeSessionClient, 3, FlatKinds)
BY DEF encodeSessionClient, Table, FlatKinds, InnerKinds, AllKinds

-----------------------------------------------------------------------------
\* The structs, depth by depth

\* SessionClient.
LEMMA ClientCodes ==
  ASSUME NEW f \in Seq(Nat), Len(f) <= FrameMax, NEW n \in Nat \ {0}, NEW fs,
         Table(fs, n, FlatKinds), NEW v,
         isStruct(fs, v, isFlat), fitsStruct(fs, v, fitsFlat)
  PROVE  Codes(readStruct(f, fs, readFlat(f)), f, writeStruct(fs, v, writeFlat), v)
<1> DEFINE es == [i \in DOMAIN fs |-> writeFlat(fs[i][2], v[fs[i][1]])]
<1>1. v = [x \in names(fs) |-> v[x]] /\ \A i \in DOMAIN fs : isFlat(fs[i][2], v[fs[i][1]])
  BY DEF isStruct
<1>2. \A i \in DOMAIN fs : fitsFlat(fs[i][2], v[fs[i][1]])
  BY DEF fitsStruct
<1>3. writeStruct(fs, v, writeFlat) = FlattenSeq(es)
  BY DEF writeStruct
<1>4. DOMAIN fs = 1 .. n /\ \A i \in 1 .. n : fs[i][2] \in FlatKinds
  BY DEF Table
<1>5. Elements(es, n)
  BY <1>4 DEF Elements
<1>6. ASSUME NEW i \in 1 .. n
      PROVE  Codes(readFlat(f)[fs[i][2]], f, es[i], v[fs[i][1]])
  <2>1. es[i] = writeFlat(fs[i][2], v[fs[i][1]])
    BY <1>4
  <2>2. QED
    BY <1>1, <1>2, <1>4, <2>1, FlatCodes
<1> HIDE DEF es
<1>7. /\ FlattenSeq(es) \in Seq(Nat) /\ FlattenSeq(es) # <<>>
      /\ Reads(readStruct(f, fs, readFlat(f)), f, FlattenSeq(es), v)
  BY <1>1, <1>5, <1>6, StructCodes
<1>8. QED
  BY <1>3, <1>7 DEF Codes

LEMMA InnerCodes ==
  ASSUME NEW f \in Seq(Nat), Len(f) <= FrameMax, NEW kind \in InnerKinds, NEW v,
         isInner(kind, v), fitsInner(kind, v)
  PROVE  Codes(readInner(f)[kind], f, writeInner(kind, v), v)
<1>1. CASE kind # "clients"
  <2>1. kind \in FlatKinds
    BY <1>1 DEF InnerKinds
  <2>2. readInner(f)[kind] = readFlat(f)[kind]
    BY <1>1, <2>1 DEF readInner
  <2>3. QED
    BY <1>1, <2>1, <2>2, FlatCodes DEF isInner, fitsInner, writeInner
<1>2. CASE kind = "clients"
  <2> DEFINE n == Len(v)
             es == [i \in DOMAIN v |-> writeStruct(encodeOrder.SessionClient, v[i], writeFlat)]
             one == readStruct(f, decodeOrder.SessionClient, readFlat(f))
  <2>1. n \in Nat /\ Elements(v, n)
    BY <1>2 DEF isInner, isList, Elements
  <2>2. DOMAIN v = 1 .. n
    BY <2>1 DEF Elements
  <2> HIDE DEF n
  <2>3. ASSUME NEW i \in 1 .. n
        PROVE  Codes(one, f, es[i], v[i])
    <3>1. isStruct(encodeOrder.SessionClient, v[i], isFlat)
      BY <1>2, <2>2 DEF isInner
    <3>2. fitsStruct(encodeOrder.SessionClient, v[i], fitsFlat)
      BY <1>2, <2>2 DEF fitsInner
    <3>3. es[i] = writeStruct(encodeOrder.SessionClient, v[i], writeFlat)
      BY <2>2
    <3> DEFINE fs == encodeOrder.SessionClient
    <3>4. Table(fs, 3, FlatKinds) /\ decodeOrder.SessionClient = fs
      BY TableSessionClient, SameOrder DEF encodeOrder
    <3> HIDE DEF fs
    <3>5. isStruct(fs, v[i], isFlat) /\ fitsStruct(fs, v[i], fitsFlat)
      BY <3>1, <3>2 DEF fs
    <3>6. Codes(readStruct(f, fs, readFlat(f)), f, writeStruct(fs, v[i], writeFlat), v[i])
      BY <3>4, <3>5, ClientCodes
    <3>7. QED
      BY <3>3, <3>4, <3>6 DEF fs
  <2>4. Elements(es, n)
    BY <2>2 DEF Elements
  <2>5. writeInner(kind, v) = writeList(es)
    BY <1>2 DEF writeInner
  <2>6. readInner(f)[kind] = readList(f, one)
    BY <1>2 DEF readInner
  <2> HIDE DEF es, one
  <2>7. Codes(readList(f, one), f, writeList(es), v)
    BY <2>1, <2>3, <2>4, ListCodes
  <2>8. QED
    BY <2>5, <2>6, <2>7
<1>3. QED
  BY <1>1, <1>2

\* Session and SessionStatus.
LEMMA OuterCodes ==
  ASSUME NEW f \in Seq(Nat), Len(f) <= FrameMax, NEW n \in Nat \ {0}, NEW fs,
         Table(fs, n, InnerKinds), NEW v,
         isStruct(fs, v, isInner), fitsStruct(fs, v, fitsInner)
  PROVE  Codes(readStruct(f, fs, readInner(f)), f, writeStruct(fs, v, writeInner), v)
<1> DEFINE es == [i \in DOMAIN fs |-> writeInner(fs[i][2], v[fs[i][1]])]
<1>1. v = [x \in names(fs) |-> v[x]] /\ \A i \in DOMAIN fs : isInner(fs[i][2], v[fs[i][1]])
  BY DEF isStruct
<1>2. \A i \in DOMAIN fs : fitsInner(fs[i][2], v[fs[i][1]])
  BY DEF fitsStruct
<1>3. writeStruct(fs, v, writeInner) = FlattenSeq(es)
  BY DEF writeStruct
<1>4. DOMAIN fs = 1 .. n /\ \A i \in 1 .. n : fs[i][2] \in InnerKinds
  BY DEF Table
<1>5. Elements(es, n)
  BY <1>4 DEF Elements
<1>6. ASSUME NEW i \in 1 .. n
      PROVE  Codes(readInner(f)[fs[i][2]], f, es[i], v[fs[i][1]])
  <2>1. es[i] = writeInner(fs[i][2], v[fs[i][1]])
    BY <1>4
  <2>2. QED
    BY <1>1, <1>2, <1>4, <2>1, InnerCodes
<1> HIDE DEF es
<1>7. /\ FlattenSeq(es) \in Seq(Nat) /\ FlattenSeq(es) # <<>>
      /\ Reads(readStruct(f, fs, readInner(f)), f, FlattenSeq(es), v)
  BY <1>1, <1>5, <1>6, StructCodes
<1>8. QED
  BY <1>3, <1>7 DEF Codes

\* The sessions of a Sessions message.
LEMMA SessionsCodes ==
  ASSUME NEW f \in Seq(Nat), Len(f) <= FrameMax, NEW v, isValue("sessions", v),
         fits("sessions", v)
  PROVE  Codes(read(f)["sessions"], f, write("sessions", v), v)
<1> DEFINE fs == encodeOrder.Session
           n == Len(v)
           es == [i \in DOMAIN v |-> writeStruct(fs, v[i], writeInner)]
           one == readStruct(f, fs, readInner(f))
<1>1. Table(fs, 9, InnerKinds) /\ decodeOrder.Session = fs
  BY TableSession, SameOrder DEF encodeOrder
<1>2. n \in Nat /\ Elements(v, n)
  BY DEF isValue, isList, Elements
<1>3. DOMAIN v = 1 .. n
  BY <1>2 DEF Elements
<1>4. \A i \in DOMAIN v : isStruct(fs, v[i], isInner) /\ fitsStruct(fs, v[i], fitsInner)
  BY DEF isValue, fits
<1>5. write("sessions", v) = writeList(es)
  BY DEF write
<1> HIDE DEF n, fs
<1>6. read(f)["sessions"] = readList(f, one)
  BY <1>1 DEF read
<1>7. ASSUME NEW i \in 1 .. n
      PROVE  Codes(one, f, es[i], v[i])
  <2>1. isStruct(fs, v[i], isInner) /\ fitsStruct(fs, v[i], fitsInner)
    BY <1>3, <1>4
  <2>2. es[i] = writeStruct(fs, v[i], writeInner)
    BY <1>3
  <2>3. QED
    BY <1>1, <2>1, <2>2, OuterCodes
<1>8. Elements(es, n)
  BY <1>3 DEF Elements
<1> HIDE DEF es, one
<1>9. Codes(readList(f, one), f, writeList(es), v)
  BY <1>2, <1>7, <1>8, ListCodes
<1>10. QED
  BY <1>5, <1>6, <1>9

\* The session of a StatusResponse, if there is one.
LEMMA StatusCodes ==
  ASSUME NEW f \in Seq(Nat), Len(f) <= FrameMax, NEW v, isValue("status", v),
         fits("status", v)
  PROVE  Codes(read(f)["status"], f, write("status", v), v)
<1> DEFINE fs == encodeOrder.SessionStatus
           one == readStruct(f, fs, readInner(f))
<1>1. Table(fs, 7, InnerKinds) /\ decodeOrder.SessionStatus = fs
  BY TableSessionStatus, SameOrder DEF encodeOrder
<1>2. Len(v) \in Nat /\ Elements(v, Len(v)) /\ Len(v) <= 1
  BY DEF isValue, isList, Elements
<1>3. \A i \in DOMAIN v : isStruct(fs, v[i], isInner) /\ fitsStruct(fs, v[i], fitsInner)
  BY DEF isValue, fits
<1>4. read(f)["status"] = readStatus(f)
  BY DEF read
<1>5. num(be(0, 1)) = 0 /\ num(be(1, 1)) = 1
  BY NumBe, CodecAssumption
<1>6. /\ be(0, 1) \in Seq(Nat) /\ Len(be(0, 1)) = 1
      /\ be(1, 1) \in Seq(Nat) /\ Len(be(1, 1)) = 1
  BY BeType
<1>7. Reads(ReadUint(f, 1), f, be(0, 1), 0) /\ Reads(ReadUint(f, 1), f, be(1, 1), 1)
  BY <1>5, UintReads
<1> HIDE DEF fs
<1>8. CASE Len(v) = 0
  <2>1. v = <<>>
    BY <1>2, <1>8 DEF Elements
  <2>2. write("status", v) = be(0, 1)
    BY <2>1 DEF write
  <2>3. ASSUME NEW q \in Nat, Lies(f, q, be(0, 1))
        PROVE  readStatus(f)[q] = Got(q + Len(be(0, 1)), v)
    <3> DEFINE d == Got(q + Len(be(0, 1)), 0)
    <3>1. ReadUint(f, 1)[q] = d
      BY <1>7, <2>3 DEF Reads
    <3>2. d.ok /\ d.pos = q + Len(be(0, 1)) /\ d.value = 0
      BY DEF Got
    <3>3. q \in 0 .. Len(f)
      BY <1>6, <2>3 DEF Lies
    <3> HIDE DEF d
    <3>4. readStatus(f)[q] = Got(d.pos, <<>>)
      BY <3>1, <3>2, <3>3 DEF readStatus
    <3>5. QED
      BY <2>1, <3>2, <3>4
  <2>4. be(0, 1) # <<>>
    BY BeNotEmpty
  <2>5. QED
    BY <1>4, <1>6, <2>2, <2>3, <2>4 DEF Codes, Reads
<1>9. CASE Len(v) = 1
  <2> DEFINE b == writeStruct(fs, v[1], writeInner)
             a == be(1, 1)
  <2>1. v = <<v[1]>> /\ v # <<>> /\ 1 \in DOMAIN v
    BY <1>2, <1>9 DEF Elements
  <2>2. write("status", v) = a \o b
    BY <2>1 DEF write, fs
  <2>3. b \in Seq(Nat) /\ b # <<>> /\ Reads(one, f, b, v[1])
    <3> DEFINE x == v[1]
    <3>1. isStruct(fs, x, isInner) /\ fitsStruct(fs, x, fitsInner)
      BY <1>3, <2>1
    <3> HIDE DEF x
    <3>2. Codes(one, f, writeStruct(fs, x, writeInner), x)
      BY <1>1, <3>1, OuterCodes
    <3>3. QED
      BY <3>2 DEF Codes, x
  <2> HIDE DEF b
  <2>4. a \in Seq(Nat) /\ Len(a) = 1 /\ b \in Seq(Nat)
    BY <1>6, <2>3
  <2> HIDE DEF a
  <2>5. a \in Seq(Nat) /\ Len(a) = 1 /\ a \o b \in Seq(Nat) /\ Len(a \o b) = 1 + Len(b)
    <3>1. a \o b \in Seq(Nat) /\ Len(a \o b) = Len(a) + Len(b)
      BY <2>4, ConcatNat
    <3>2. QED
      BY <2>4, <3>1
  <2>6. a \o b # <<>>
    BY <2>3, <2>5
  <2>7. ASSUME NEW q \in Nat, Lies(f, q, a \o b)
        PROVE  readStatus(f)[q] = Got(q + Len(a \o b), v)
    <3>1. Lies(f, q, a) /\ Lies(f, q + 1, b)
      BY <2>3, <2>5, <2>7, LiesConcat
    <3> DEFINE d == Got(q + 1, 1)
               c == Got((q + 1) + Len(b), v[1])
    <3>2. ReadUint(f, 1)[q] = d
      BY <1>7, <2>5, <3>1 DEF Reads, a
    <3>3. d.ok /\ d.pos = q + 1 /\ d.value = 1
      BY DEF Got
    <3>4. one[q + 1] = c
      BY <2>3, <3>1 DEF Reads
    <3>5. c.ok /\ c.pos = (q + 1) + Len(b) /\ c.value = v[1]
      BY DEF Got
    <3>6. q \in 0 .. Len(f)
      BY <2>5, <3>1 DEF Lies
    <3> HIDE DEF d, c
    <3>7. readStatus(f)[q] = Got(c.pos, <<c.value>>)
      BY <1>1, <3>2, <3>3, <3>4, <3>5, <3>6 DEF readStatus
    <3>8. (q + 1) + Len(b) = q + Len(a \o b)
      BY <2>3, <2>5
    <3>9. QED
      BY <2>1, <3>5, <3>7, <3>8
  <2>8. QED
    BY <1>4, <2>2, <2>5, <2>6, <2>7 DEF Codes, Reads
<1>10. \A k \in Nat : k <= 1 => k = 0 \/ k = 1
  OBVIOUS
<1>11. QED
  BY <1>2, <1>8, <1>9, <1>10

\* A field of a message.
LEMMA ValueCodes ==
  ASSUME NEW f \in Seq(Nat), Len(f) <= FrameMax, NEW kind \in AllKinds, NEW v,
         isValue(kind, v), fits(kind, v)
  PROVE  Codes(read(f)[kind], f, write(kind, v), v)
<1>1. CASE kind = "sessions"
  BY <1>1, SessionsCodes
<1>2. CASE kind = "status"
  BY <1>2, StatusCodes
<1>3. CASE kind \notin {"sessions", "status"}
  <2>1. kind \in InnerKinds /\ kind \in FlatKinds \cup {"clients", "sessions", "status"}
    BY <1>3 DEF AllKinds, InnerKinds
  <2>2. read(f)[kind] = readInner(f)[kind]
    BY <1>3, <2>1 DEF read
  <2>3. isInner(kind, v) /\ fitsInner(kind, v) /\ write(kind, v) = writeInner(kind, v)
    BY <1>3 DEF isValue, fits, write
  <2>4. QED
    BY <2>1, <2>2, <2>3, InnerCodes
<1>4. QED
  BY <1>1, <1>2, <1>3

-----------------------------------------------------------------------------
\* Messages

\* newMessage knows the types, and no two have the same byte.
LEMMA TypeBytes ==
  /\ DOMAIN MessageType = newMessage
  /\ \A t \in newMessage : MessageType[t] \in Nat
  /\ \A t, u \in newMessage : MessageType[t] = MessageType[u] => t = u
<1>1. DOMAIN MessageType = newMessage
  BY DEF MessageType, newMessage
<1>2. \A t \in newMessage : MessageType[t] \in Nat
  BY DEF MessageType, newMessage
<1>3. ASSUME NEW t \in newMessage, NEW u \in newMessage, MessageType[t] = MessageType[u]
      PROVE  t = u
  BY <1>3 DEF MessageType, newMessage
<1>4. QED
  BY <1>1, <1>2, <1>3

\* The table of every message.
LEMMA MessageTable ==
  ASSUME NEW t \in newMessage
  PROVE  \E n \in Nat : Table(encodeOrder[t], n, AllKinds)
<1>1. CASE t \in {"Detach", "Prune", "OK"}
  <2>1. Table(encodeOrder[t], 0, AllKinds)
    BY <1>1 DEF encodeOrder, Table
  <2>2. QED
    BY <2>1
<1>2. CASE t \in {"Input", "List", "Kill", "Status", "Error",
                "Output", "Sessions", "Exited", "DumpResponse", "PruneResponse"}
  <2>1. Table(encodeOrder[t], 1, AllKinds)
    BY <1>2 DEF encodeOrder, Table, AllKinds, InnerKinds, FlatKinds
  <2>2. QED
    BY <2>1
<1>3. CASE t = "Create"
  BY <1>3, TableCreate DEF encodeOrder
<1>4. CASE t = "Attach"
  BY <1>4, TableAttach DEF encodeOrder
<1>5. CASE t = "Resize"
  BY <1>5, TableResize DEF encodeOrder
<1>6. CASE t = "Send"
  BY <1>6, TableSend DEF encodeOrder
<1>7. CASE t = "SendKey"
  BY <1>7, TableSendKey DEF encodeOrder
<1>8. CASE t = "Dump"
  BY <1>8, TableDump DEF encodeOrder
<1>9. CASE t = "Kick"
  BY <1>9, TableKick DEF encodeOrder
<1>10. CASE t = "Created"
  BY <1>10, TableCreated DEF encodeOrder
<1>11. CASE t = "Attached"
  BY <1>11, TableAttached DEF encodeOrder
<1>12. CASE t = "ClientsChanged"
  BY <1>12, TableClientsChanged DEF encodeOrder
<1>13. CASE t = "StatusResponse"
  BY <1>13, TableStatusResponse DEF encodeOrder
<1>14. QED
  BY <1>1, <1>2, <1>3, <1>4, <1>5, <1>6, <1>7, <1>8, <1>9, <1>10, <1>11, <1>12, <1>13
  DEF newMessage

\* The fields of a message, written and read back from any frame.
LEMMA FieldsCode ==
  ASSUME NEW m, isMessage(m), fitsAll(m)
  PROVE  LET b == writeStruct(encodeOrder[m.type], m.fields, write)
         IN /\ b \in Seq(Nat)
            /\ \A f \in Seq(Nat) : Len(f) <= FrameMax =>
                 Reads(readStruct(f, decodeOrder[m.type], read(f)), f, b, m.fields)
<1> DEFINE t == m.type
           v == m.fields
           fs == encodeOrder[t]
           es == [i \in DOMAIN fs |-> write(fs[i][2], v[fs[i][1]])]
<1>1. t \in newMessage
  BY TypeBytes DEF isMessage
<1>2. PICK n \in Nat : Table(fs, n, AllKinds)
  BY <1>1, MessageTable
<1>3. v = [x \in names(fs) |-> v[x]] /\ \A i \in DOMAIN fs : isValue(fs[i][2], v[fs[i][1]])
  BY DEF isMessage, isStruct
<1>4. \A i \in DOMAIN fs : fits(fs[i][2], v[fs[i][1]])
  BY DEF fitsAll, fitsStruct
<1>5. writeStruct(fs, v, write) = FlattenSeq(es)
  BY DEF writeStruct
<1>6. decodeOrder[t] = fs
  BY SameOrder
<1> HIDE DEF t, v, fs
<1>7. DOMAIN fs = 1 .. n /\ \A i \in 1 .. n : fs[i][2] \in AllKinds
  BY <1>2 DEF Table
<1>8. Elements(es, n)
  BY <1>7 DEF Elements
<1>9. ASSUME NEW f \in Seq(Nat), Len(f) <= FrameMax
      PROVE  /\ FlattenSeq(es) \in Seq(Nat)
             /\ Reads(readStruct(f, fs, read(f)), f, FlattenSeq(es), v)
  <2>1. ASSUME NEW i \in 1 .. n
        PROVE  Codes(read(f)[fs[i][2]], f, es[i], v[fs[i][1]])
    <3>1. es[i] = write(fs[i][2], v[fs[i][1]])
      BY <1>7
    <3>2. QED
      BY <1>3, <1>4, <1>7, <1>9, <3>1, ValueCodes
  <2> HIDE DEF es
  <2>2. QED
    BY <1>2, <1>3, <1>8, <2>1, StructCodes
<1>10. FlattenSeq(es) \in Seq(Nat)
  <2>1. <<>> \in Seq(Nat) /\ Len(<<>>) <= FrameMax
    BY CodecAssumption
  <2> HIDE DEF es
  <2>2. QED
    BY <1>9, <2>1
<1> HIDE DEF es
<1>11. QED
  BY <1>5, <1>6, <1>9, <1>10 DEF t, v, fs

\* What encode makes of a message is a frame that is not empty.
LEMMA EncodeType ==
  ASSUME NEW m, isMessage(m), fitsAll(m)
  PROVE  encode(m) \in Seq(Nat) /\ encode(m) # <<>> /\ Len(encode(m)) \in Nat \ {0}
<1> DEFINE b == writeStruct(encodeOrder[m.type], m.fields, write)
           a == <<MessageType[m.type]>>
<1>1. b \in Seq(Nat)
  BY FieldsCode
<1>2. a \in Seq(Nat) /\ Len(a) = 1
  BY TypeBytes DEF isMessage
<1>3. encode(m) = a \o b
  BY DEF encode
<1> HIDE DEF a, b
<1>4. a \o b \in Seq(Nat) /\ Len(a \o b) = Len(a) + Len(b)
  BY <1>1, <1>2, ConcatNat
<1>5. Len(a \o b) \in Nat /\ Len(a \o b) > 0
  BY <1>1, <1>2, <1>4
<1>6. a \o b # <<>>
  BY <1>4, <1>5
<1>7. QED
  BY <1>3, <1>4, <1>5, <1>6

\* ReadMessage decodes what WriteMessage encoded: a message of any of the types,
\* whose strings WriteString does not refuse and whose frame is no longer than
\* maxFrameSize, is decoded without an error and to the same fields, whatever
\* the number of its strings, clients or sessions and whatever bytes they have.
THEOREM CodecRoundTrip ==
  ASSUME NEW m, isMessage(m), fitsAll(m), Len(encode(m)) <= FrameMax
  PROVE  decode(encode(m)) = [ok |-> TRUE, msg |-> m]
<1> DEFINE b == writeStruct(encodeOrder[m.type], m.fields, write)
           a == <<MessageType[m.type]>>
           f == encode(m)
           r == readStruct(f, decodeOrder[m.type], read(f))
           d == Got(1 + Len(b), m.fields)
<1>1. f \in Seq(Nat)
  BY EncodeType
<1>2. b \in Seq(Nat)
  BY FieldsCode
<1>3. m.type \in newMessage /\ MessageType[m.type] \in Nat
  BY TypeBytes DEF isMessage
<1>4. f = a \o b
  BY DEF encode
<1>5. Reads(r, f, b, m.fields)
  <2> HIDE DEF f
  <2>1. Len(f) <= FrameMax
    BY DEF f
  <2>2. QED
    BY <1>1, <2>1, FieldsCode
<1>6. a \in Seq(Nat) /\ Len(a) = 1 /\ a[1] = MessageType[m.type]
  BY <1>3
<1> HIDE DEF a, b, f, r
<1>7. Len(f) = 1 + Len(b) /\ f[1] = MessageType[m.type]
  <2>1. Len(a \o b) = Len(a) + Len(b)
    BY <1>2, <1>6, ConcatNat
  <2>2. (a \o b)[1] = a[1]
    <3>1. 1 \in 1 .. Len(a)
      BY <1>6
    <3>2. QED
      BY <1>2, <1>6, <3>1, ConcatFirst
  <2>3. QED
    BY <1>4, <1>6, <2>1, <2>2
<1>8. Lies(f, 1, b)
  BY <1>1, <1>2, <1>4, <1>6, <1>7 DEF Lies
<1>9. r[1] = d
  BY <1>5, <1>8 DEF Reads
<1>10. d.ok /\ d.value = m.fields
  BY DEF Got
<1> HIDE DEF d
<1> DEFINE types == {t \in newMessage : MessageType[t] = f[1]}
           type == CHOOSE t \in types : TRUE
<1>11. types = {m.type}
  BY <1>3, <1>7, TypeBytes
<1>12. type = m.type /\ types # {}
  BY <1>11
<1>13. decode(f) = IF types = {} \/ ~readStruct(f, decodeOrder[type], read(f))[1].ok
                   THEN [ok |-> FALSE]
                   ELSE [ok |-> TRUE,
                         msg |-> [type |-> type,
                                  fields |-> readStruct(f, decodeOrder[type], read(f))[1].value]]
  BY DEF decode
<1> HIDE DEF types, type
<1>14. readStruct(f, decodeOrder[type], read(f))[1] = d
  BY <1>9, <1>12 DEF r
<1>15. decode(f) = [ok |-> TRUE, msg |-> [type |-> m.type, fields |-> m.fields]]
  BY <1>10, <1>12, <1>13, <1>14
<1>16. m = [type |-> m.type, fields |-> m.fields]
  BY DEF isMessage
<1>17. QED
  BY <1>15, <1>16 DEF f
=============================================================================
