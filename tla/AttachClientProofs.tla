------------------------- MODULE AttachClientProofs -------------------------
(***************************************************************************)
(* Proofs about AttachClient for any amount of output and of keys, any     *)
(* sizes of the host terminal and any capacity of the connection: how the  *)
(* host terminal is left, what it shows and what the session is given.     *)
(***************************************************************************)
EXTENDS AttachClient, SequenceTheorems, WellFoundedInduction, TLAPS

-----------------------------------------------------------------------------
\* The inductive invariants

\* The keyboard level of pushKittyKeyboard is pushed once, and popped once; the
\* others are the session's.
HostInv ==
  /\ pc = "kitty" => kitty = 0
  /\ kitty <= app + 1
  /\ returned => tty = "cooked"
  /\ pc \in {"detaching", "exiting", "detached", "exited"} /\ ~broken =>
       "listed" \notin modes /\ kitty <= app

\* What is shown starts with the first batch; up to the loop it is the dump of
\* the right moment.
DumpOrder ==
  /\ Len(dump) <= out /\ \A i \in 1 .. Len(dump) : dump[i] = i
  /\ Len(shown) <= out /\ \A i \in 1 .. Len(shown) : shown[i] = i
  /\ pc \in {"kitty", "dump"} => shown = <<>>
  /\ pc \in {"raw", "drain", "spawn", "created"} => shown = reattachDump

\* The batch that is next to be shown when the messages under way are read.
Seen == IF pc = "loop" THEN Len(shown) ELSE Len(dump)

\* The outputs in d are the batches n + 1 to o, in order.
Outputs(d) == {i \in 1 .. Len(d) : d[i].type = "output"}

Ordered(d, n, o) ==
  /\ \A i \in Outputs(d) : d[i].k \in n + 1 .. o
  /\ \A i, j \in Outputs(d) : i < j => d[i].k < d[j].k
  /\ \A k \in n + 1 .. o : \E i \in Outputs(d) : d[i].k = k

\* What RunAttach reads it also shows.
streaming == pc \in {"kitty", "dump", "raw", "drain", "spawn", "created", "loop"} /\ ~broken

\* Under way is what was put out and not seen.
DownOrder == streaming => Ordered(down, Seen, out)

StreamInv == DumpOrder /\ DownOrder

\* s is what log has after its first b keys.
PieceAt(log, s, b) ==
  b + Len(s) <= Len(log) /\ \A j \in 1 .. Len(s) : s[j] = log[b + j]

\* The input messages of u carry, in order, the keys of log after the first lo
\* and up to the hi-th; b says where each of them begins.
Chain(log, u, lo, hi) ==
  \E b \in [1 .. Len(u) + 1 -> 0 .. Len(log)] :
    /\ b[1] = lo /\ b[Len(u) + 1] = hi
    /\ \A i \in 1 .. Len(u) :
         IF u[i].type = "input" THEN PieceAt(log, u[i].data, b[i]) /\ b[i + 1] = b[i] + Len(u[i].data)
                                ELSE b[i + 1] = b[i]

\* RunAttach before it starts its goroutines.
Early == {"kitty", "dump", "raw", "drain", "spawn"}

\* Of the keys that were read, e are sent: all but the buffer of
\* forwardHostInput, or all that comes before the detach key in it.
SentUpTo(e) ==
  /\ inpc \in {"none", "read", "send"} =>
       PieceAt(readLog, data, e) /\ e + Len(data) = Len(readLog)
  /\ inpc = "detach" \/ closed => e + Len(data) = Len(readLog) + findDetach(data)

\* The keys that were read are, in order, given to the session, under way in
\* the messages, or in the buffer of forwardHostInput; what comes after a
\* detach key or a failed write is dropped.
InputOrder ==
  /\ pc \in Early => inpc = "none"
  /\ inpc \in {"none", "read"} => data = <<>>
  /\ PieceAt(readLog, got, 0)
  /\ IF readOnly THEN got = <<>> /\ \A i \in 1 .. Len(up) : up[i].type # "input"
     ELSE \E e \in 0 .. Len(readLog) : Chain(readLog, up, Len(got), e) /\ SentUpTo(e)

\* The Detach is the last message, and comes with the Close.
DetachLast ==
  /\ closed => inpc = "gone"
  /\ \A i \in 1 .. Len(up) : up[i].type = "detach" => closed /\ i = Len(up)

\* Nothing of the detach key, but of its CSI form where one of two forms or of
\* two parts of one may be taken for input.
Plain(s) == \A i \in 1 .. Len(s) : s[i] # "raw" /\ (oneForm => s[i] = "x")

KeyInv ==
  /\ oneForm => OneForm(data)
  /\ Plain(got) /\ \A i \in 1 .. Len(up) : up[i].type = "input" => Plain(up[i].data)

-----------------------------------------------------------------------------
\* Sequences, and what findDetach finds in one

LEMMA Cut ==
  ASSUME NEW S, NEW s \in Seq(S), NEW m \in 1 .. Len(s) + 1, NEW n \in m - 1 .. Len(s)
  PROVE  /\ SubSeq(s, m, n) \in Seq(S) /\ Len(SubSeq(s, m, n)) = n - m + 1
         /\ \A i \in 1 .. n - m + 1 : SubSeq(s, m, n)[i] = s[m + i - 1]
<1>1. Len(s) \in Nat /\ \A i \in 1 .. Len(s) : s[i] \in S BY ElementOfSeq, LenProperties
<1>2. m \in Int /\ n \in Int /\ \A i \in m .. n : i \in 1 .. Len(s) BY <1>1
<1>3. \A i \in m .. n : s[i] \in S BY <1>1, <1>2
<1> QED BY <1>1, <1>2, <1>3, SubSeqProperties

LEMMA Prefix ==
  ASSUME NEW S, NEW s \in Seq(S), NEW t \in Seq(S), Len(s) <= Len(t),
         \A i \in 1 .. Len(s) : s[i] = t[i]
  PROVE  IsPrefix(s, t)
<1>1. Len(s) \in Nat /\ Len(t) \in Nat BY LenProperties
<1>2. /\ SubSeq(s, 1, Len(s)) \in Seq(S) /\ Len(SubSeq(s, 1, Len(s))) = Len(s)
      /\ \A i \in 1 .. Len(s) : SubSeq(s, 1, Len(s))[i] = s[i]
  BY <1>1, Cut
<1>3. /\ SubSeq(t, 1, Len(s)) \in Seq(S) /\ Len(SubSeq(t, 1, Len(s))) = Len(s)
      /\ \A i \in 1 .. Len(s) : SubSeq(t, 1, Len(s))[i] = t[i]
  BY <1>1, Cut
<1>4. SubSeq(s, 1, Len(s)) = SubSeq(t, 1, Len(s)) BY <1>2, <1>3, SeqEqual
<1> QED BY <1>4 DEF IsPrefix

LEMMA Counting ==
  ASSUME NEW k \in Nat
  PROVE  /\ UpTo(k) \in Seq(1 .. k) /\ Len(UpTo(k)) = k
         /\ \A i \in 1 .. k : UpTo(k)[i] = i
  BY DEF UpTo

\* A non-empty set of naturals has a least element.
LEMMA Least ==
  ASSUME NEW T \in SUBSET Nat, T # {}
  PROVE  \E x \in T : \A y \in T : x <= y
<1>1. PICK x \in T : \A y \in T : ~(<<y, x>> \in OpToRel(<, Nat))
  BY NatLessThanWellFounded, WFMin
<1>2. ASSUME NEW y \in T, y < x
      PROVE  <<y, x>> \in OpToRel(<, Nat)
  BY <1>2, Zenon DEF OpToRel
<1>3. \A y \in T : ~(y < x) BY <1>1, <1>2, Zenon
<1> QED BY <1>3

\* The detach key is at p + 1 and p + 2.
KeyAt(s, p) == s[p + 1] = "csi" /\ s[p + 2] = "csiEnd"

LEMMA FirstOf ==
  ASSUME NEW n \in Int, NEW T \in SUBSET (1 .. n)
  PROVE  \/ T = {} /\ firstOf(T) = -1
         \/ /\ T # {} /\ firstOf(T) \in 0 .. n - 1 /\ firstOf(T) + 1 \in T
            /\ \A j \in T : firstOf(T) < j
<1>1. CASE T = {} BY <1>1 DEF firstOf
<1>2. CASE T # {}
  <2> DEFINE m == CHOOSE i \in T : \A j \in T : i <= j
  <2>1. T \in SUBSET Nat OBVIOUS
  <2>2. m \in T /\ \A j \in T : m <= j BY <1>2, <2>1, Least
  <2>3. firstOf(T) = m - 1 BY <1>2 DEF firstOf
  <2> HIDE DEF m
  <2> QED BY <1>2, <2>1, <2>2, <2>3
<1> QED BY <1>1, <1>2

LEMMA RawIndex ==
  ASSUME NEW s \in Seq(Key)
  PROVE  \/ rawIndex(s) = -1 /\ \A p \in 1 .. Len(s) : s[p] # "raw"
         \/ /\ rawIndex(s) \in 0 .. Len(s) - 1 /\ s[rawIndex(s) + 1] = "raw"
            /\ \A p \in 1 .. rawIndex(s) : s[p] # "raw"
<1> DEFINE T == {i \in 1 .. Len(s) : HasRaw /\ s[i] = "raw"}
<1>1. Len(s) \in Nat /\ \A i \in 1 .. Len(s) : s[i] \in Key BY LenProperties, ElementOfSeq
<1>2. \A i \in 1 .. Len(s) : i \in T <=> s[i] = "raw" BY <1>1 DEF Key
<1>3. rawIndex(s) = firstOf(T) /\ T \in SUBSET (1 .. Len(s)) BY DEF rawIndex
<1> HIDE DEF T
<1>4. \/ T = {} /\ firstOf(T) = -1
      \/ /\ T # {} /\ firstOf(T) \in 0 .. Len(s) - 1 /\ firstOf(T) + 1 \in T
         /\ \A j \in T : firstOf(T) < j
  BY <1>1, <1>3, FirstOf
<1>5. CASE T = {} BY <1>2, <1>3, <1>4, <1>5
<1>6. CASE T # {}
  <2>1. /\ rawIndex(s) \in 0 .. Len(s) - 1 /\ rawIndex(s) + 1 \in 1 .. Len(s)
        /\ rawIndex(s) + 1 \in T /\ \A j \in T : rawIndex(s) < j
    BY <1>1, <1>3, <1>4, <1>6
  <2>2. s[rawIndex(s) + 1] = "raw" BY <1>2, <2>1
  <2>3. ASSUME NEW p \in 1 .. rawIndex(s) PROVE s[p] # "raw"
    <3>1. p \in 1 .. Len(s) /\ ~(rawIndex(s) < p) BY <1>1, <2>1
    <3> QED BY <1>2, <2>1, <3>1
  <2> QED BY <2>1, <2>2, <2>3
<1> QED BY <1>5, <1>6

LEMMA CsiIndex ==
  ASSUME NEW s \in Seq(Key)
  PROVE  \/ csiIndex(s) = -1 /\ \A p \in 0 .. Len(s) - 2 : ~KeyAt(s, p)
         \/ /\ csiIndex(s) \in 0 .. Len(s) - 2 /\ KeyAt(s, csiIndex(s))
            /\ \A p \in 0 .. csiIndex(s) - 1 : ~KeyAt(s, p)
<1> DEFINE T == {i \in 1 .. Len(s) - 1 : <<s[i], s[i + 1]>> = csiSeq}
<1>1. Len(s) \in Nat /\ Len(s) - 1 \in Int BY LenProperties
<1>2. ASSUME NEW p \in 0 .. Len(s) - 2 PROVE p + 1 \in T <=> KeyAt(s, p)
  <2>1. p + 1 \in 1 .. Len(s) - 1 /\ (p + 1) + 1 = p + 2 BY <1>1
  <2> QED BY <2>1 DEF KeyAt, csiSeq
<1>3. csiIndex(s) = firstOf(T) /\ T \in SUBSET (1 .. Len(s) - 1) BY DEF csiIndex
<1> HIDE DEF T
<1>4. \/ T = {} /\ firstOf(T) = -1
      \/ /\ T # {} /\ firstOf(T) \in 0 .. (Len(s) - 1) - 1 /\ firstOf(T) + 1 \in T
         /\ \A j \in T : firstOf(T) < j
  BY <1>1, <1>3, FirstOf
<1>5. CASE T = {} BY <1>2, <1>3, <1>4, <1>5
<1>6. CASE T # {}
  <2>1. /\ csiIndex(s) \in 0 .. Len(s) - 2 /\ csiIndex(s) + 1 \in T
        /\ \A j \in T : csiIndex(s) < j
    <3>1. (Len(s) - 1) - 1 = Len(s) - 2 BY <1>1
    <3> QED BY <1>3, <1>4, <1>6, <3>1, Zenon
  <2>2. KeyAt(s, csiIndex(s)) BY <1>2, <2>1
  <2>3. ASSUME NEW p \in 0 .. csiIndex(s) - 1 PROVE ~KeyAt(s, p)
    <3>1. p \in 0 .. Len(s) - 2 /\ ~(csiIndex(s) < p + 1) BY <1>1, <2>1
    <3> QED BY <1>2, <2>1, <3>1
  <2> QED BY <2>1, <2>2, <2>3
<1> QED BY <1>5, <1>6

\* The raw byte, wherever it is, or else the first CSI form.
LEMMA FindDetach ==
  ASSUME NEW s \in Seq(Key)
  PROVE  \/ /\ findDetach(s) \in 0 .. Len(s) - 1 /\ s[findDetach(s) + 1] = "raw"
            /\ \A p \in 1 .. findDetach(s) : s[p] # "raw"
         \/ /\ \A p \in 1 .. Len(s) : s[p] # "raw"
            /\ \/ findDetach(s) = -1 /\ \A p \in 0 .. Len(s) - 2 : ~KeyAt(s, p)
               \/ /\ findDetach(s) \in 0 .. Len(s) - 2 /\ KeyAt(s, findDetach(s))
                  /\ \A p \in 0 .. findDetach(s) - 1 : ~KeyAt(s, p)
<1>1. Len(s) \in Nat BY LenProperties
<1>2. CASE rawIndex(s) = -1 /\ \A p \in 1 .. Len(s) : s[p] # "raw"
  <2>1. findDetach(s) = csiIndex(s) BY <1>2 DEF findDetach
  <2> QED BY <1>2, <2>1, CsiIndex
<1>3. CASE /\ rawIndex(s) \in 0 .. Len(s) - 1 /\ s[rawIndex(s) + 1] = "raw"
           /\ \A p \in 1 .. rawIndex(s) : s[p] # "raw"
  <2>1. findDetach(s) = rawIndex(s) BY <1>1, <1>3 DEF findDetach
  <2> QED BY <1>3, <2>1
<1> QED BY <1>2, <1>3, RawIndex

\* What is sent of a buffer: all of it, or what is before the first detach key.
Sent(s) == IF findDetach(s) >= 0 THEN SubSeq(s, 1, findDetach(s)) ELSE s

LEMMA SentPrefix ==
  ASSUME NEW s \in Seq(Key)
  PROVE  /\ Sent(s) \in Seq(Key) /\ Len(Sent(s)) \in 0 .. Len(s)
         /\ \A i \in 1 .. Len(Sent(s)) : Sent(s)[i] = s[i]
         /\ findDetach(s) \in Int
         /\ findDetach(s) < 0 => Sent(s) = s
         /\ findDetach(s) >= 0 => Len(Sent(s)) = findDetach(s)
<1>1. Len(s) \in Nat BY LenProperties
<1>2. CASE findDetach(s) = -1 BY <1>1, <1>2 DEF Sent
<1>3. CASE findDetach(s) \in 0 .. Len(s) - 1
  <2>1. Sent(s) = SubSeq(s, 1, findDetach(s)) BY <1>1, <1>3 DEF Sent
  <2>2. findDetach(s) \in 1 - 1 .. Len(s) /\ 1 \in 1 .. Len(s) + 1 BY <1>1, <1>3
  <2>3. /\ Sent(s) \in Seq(Key) /\ Len(Sent(s)) = findDetach(s)
        /\ \A i \in 1 .. findDetach(s) : Sent(s)[i] = s[i]
    BY <2>1, <2>2, Cut
  <2> QED BY <1>1, <1>3, <2>3
<1>4. \A k \in 0 .. Len(s) - 2 : k \in 0 .. Len(s) - 1 BY <1>1
<1> QED BY <1>2, <1>3, <1>4, FindDetach

\* Nothing of a detach key is sent of a buffer that has one form of it, in one
\* piece; the raw byte never is.
LEMMA SentPlain ==
  ASSUME NEW s \in Seq(Key), oneForm => OneForm(s)
  PROVE  Plain(Sent(s))
<1> SUFFICES ASSUME NEW i \in 1 .. Len(Sent(s))
             PROVE  Sent(s)[i] # "raw" /\ (oneForm => Sent(s)[i] = "x")
  BY DEF Plain
<1>1. /\ Len(s) \in Nat /\ i \in 1 .. Len(s) /\ Sent(s)[i] = s[i]
      /\ s[i] \in {"x", "raw", "csi", "csiEnd"} /\ findDetach(s) \in Int
      /\ findDetach(s) >= 0 => i \in 1 .. findDetach(s)
  BY SentPrefix, LenProperties, ElementOfSeq DEF Key
<1>2. s[i] # "raw" BY <1>1, FindDetach
<1>3. ASSUME OneForm(s) PROVE s[i] # "csi" /\ s[i] # "csiEnd"
  <2>1. /\ s[i] = "csi" => i < Len(s) /\ s[i + 1] = "csiEnd"
        /\ s[i] = "csiEnd" => i > 1 /\ s[i - 1] = "csi"
    BY <1>1, <1>3 DEF OneForm, Whole
  <2>2. CASE findDetach(s) \in 0 .. Len(s) - 1 /\ s[findDetach(s) + 1] = "raw"
    <3>1. findDetach(s) + 1 \in 1 .. Len(s) BY <1>1, <2>2
    <3>2. \A j \in 1 .. Len(s) : s[j] # "csi" BY <1>3, <2>2, <3>1 DEF OneForm
    <3>3. s[i] = "csiEnd" => i - 1 \in 1 .. Len(s) /\ s[i - 1] = "csi" BY <1>1, <2>1
    <3> QED BY <1>1, <3>2, <3>3
  <2>3. CASE \/ findDetach(s) = -1 /\ \A p \in 0 .. Len(s) - 2 : ~KeyAt(s, p)
             \/ /\ findDetach(s) \in 0 .. Len(s) - 2 /\ KeyAt(s, findDetach(s))
                /\ \A p \in 0 .. findDetach(s) - 1 : ~KeyAt(s, p)
    <3>1. \A p \in 0 .. i - 1 : p <= Len(s) - 2 => ~KeyAt(s, p) BY <1>1, <2>3
    <3>2. s[i] # "csi"
      <4> SUFFICES ASSUME s[i] = "csi" PROVE FALSE
        OBVIOUS
      <4>1. KeyAt(s, i - 1) BY <1>1, <2>1 DEF KeyAt
      <4> QED BY <1>1, <2>1, <3>1, <4>1
    <3>3. s[i] # "csiEnd"
      <4> SUFFICES ASSUME s[i] = "csiEnd" PROVE FALSE
        OBVIOUS
      <4>1. KeyAt(s, i - 2) BY <1>1, <2>1 DEF KeyAt
      <4> QED BY <1>1, <2>1, <3>1, <4>1
    <3> QED BY <3>2, <3>3
  <2> QED BY <2>2, <2>3, FindDetach
<1> QED BY <1>1, <1>2, <1>3

-----------------------------------------------------------------------------
\* Types, and the state of the host terminal

\* TypeOK, by the variables that change together.
TypeMain ==
  /\ pc \in {"kitty", "dump", "raw", "drain", "spawn", "created", "loop", "detaching",
             "exiting", "detached", "exited", "failed"}
  /\ readOnly \in BOOLEAN /\ created \in BOOLEAN /\ dump \in Seq(1 .. MaxOut)

TypeHost ==
  /\ tty \in {"cooked", "raw"} /\ kitty \in 0 .. MaxPush + 1 /\ app \in 0 .. MaxPush
  /\ modes \subseteq HostModes /\ shown \in Seq(1 .. MaxOut) /\ broken \in BOOLEAN

TypeGo ==
  /\ inpc \in {"none", "read", "send", "detach", "gone"}
  /\ rspc \in {"none", "wait", "ioctl", "send", "gone"} /\ ws \in Sizes
  /\ closed \in BOOLEAN /\ oneForm \in BOOLEAN
  /\ data \in Seq(Key) /\ readLog \in Seq(Key)

TypeKeys == stdin \in Seq(Key) /\ keys \in 0 .. MaxHost

TypeSize == winsize \in Sizes /\ winch \in BOOLEAN /\ resizes \in 0 .. MaxHost

TypeUp == up \in Seq(MessageUp) /\ Len(up) <= UpCap

TypeDown == down \in Seq(MessageDown) /\ ended \in BOOLEAN /\ out \in 0 .. MaxOut

TypePeer == peer \in {"open", "closed", "torn"}

TypeGot == got \in Seq(Key) /\ dsize \in Sizes

Types ==
  /\ TypeMain /\ TypeHost /\ TypeGo /\ TypeKeys /\ TypeSize /\ TypeUp /\ TypeDown /\ TypePeer
  /\ TypeGot

LEMMA TypesOK == Types <=> TypeOK
  BY DEF Types, TypeMain, TypeHost, TypeGo, TypeKeys, TypeSize, TypeUp, TypeDown, TypePeer,
         TypeGot, TypeOK

\* The variables of each part, unchanged.
LEMMA TypesKept ==
  /\ TypeMain /\ UNCHANGED mainVars => TypeMain'
  /\ TypeHost /\ UNCHANGED hostVars => TypeHost'
  /\ TypeGo /\ UNCHANGED goVars => TypeGo'
  /\ TypeKeys /\ UNCHANGED typeVars => TypeKeys'
  /\ TypeSize /\ UNCHANGED sizeVars => TypeSize'
  /\ TypeUp /\ UNCHANGED up => TypeUp'
  /\ TypeDown /\ UNCHANGED <<down, ended, out>> => TypeDown'
  /\ TypePeer /\ UNCHANGED peer => TypePeer'
  /\ TypeGot /\ UNCHANGED <<got, dsize>> => TypeGot'
  BY DEF TypeMain, TypeHost, TypeGo, TypeKeys, TypeSize, TypeUp, TypeDown, TypePeer, TypeGot,
         mainVars, optVars, hostVars, goVars, typeVars, sizeVars

LEMMA ShowType ==
  ASSUME TypeHost, kitty <= app + 1, NEW s \in Seq(1 .. MaxOut), show(s), UNCHANGED <<tty, broken>>
  PROVE  TypeHost' /\ kitty' <= app' + 1
<1>1. shown' \in Seq(1 .. MaxOut) BY ConcatProperties DEF TypeHost, show
<1>2. modes' \subseteq HostModes BY DEF show, TypeHost
<1>3. kitty' \in 0 .. MaxPush + 1 /\ app' \in 0 .. MaxPush /\ kitty' <= app' + 1
  <2>1. kitty \in Nat /\ app \in Nat /\ MaxPush \in Nat BY ClientAssumption DEF TypeHost
  <2>2. CASE kitty' = kitty /\ app' = app BY <2>2 DEF TypeHost
  <2>3. CASE \E pop, push \in 0 .. MaxPush :
               /\ kitty' = less(kitty, pop) + push
               /\ app' = less(app, pop) + push /\ app' <= MaxPush
    BY <2>1, <2>3 DEF less
  <2> QED BY <2>2, <2>3 DEF show
<1> QED BY <1>1, <1>2, <1>3 DEF TypeHost

LEMMA HeadDown ==
  ASSUME TypeDown, receive
  PROVE  /\ down \in Seq(MessageDown) /\ down # <<>> /\ Len(down) \in Nat \ {0}
         /\ Head(down) = down[1] /\ down[1] \in MessageDown
         /\ down' = Tail(down) /\ down' \in Seq(MessageDown) /\ Len(down') = Len(down) - 1
         /\ \A i \in 1 .. Len(down') : down'[i] = down[i + 1]
<1>1. down \in Seq(MessageDown) /\ down # <<>> /\ down' = Tail(down) BY DEF TypeDown, receive
<1>2. Len(down) \in Nat \ {0} BY <1>1
<1>3. Head(down) = down[1] /\ down[1] \in MessageDown BY <1>1, <1>2, ElementOfSeq
<1>4. /\ Tail(down) \in Seq(MessageDown) /\ Len(Tail(down)) = Len(down) - 1
      /\ \A i \in 1 .. Len(Tail(down)) : Tail(down)[i] = down[i + 1]
  BY <1>1, HeadTailProperties
<1> QED BY <1>1, <1>2, <1>3, <1>4

LEMMA RestoreType ==
  ASSUME TypeHost, kitty <= app + 1, restoreHostTerminal
  PROVE  /\ TypeHost' /\ kitty' <= app' + 1 /\ UNCHANGED <<tty, app, broken, stdin, keys>>
         /\ ~broken => "listed" \notin modes' /\ kitty' <= app'
<1>1. /\ UNCHANGED <<tty, shown, app, broken, stdin, keys>>
      /\ kitty' = IF broken THEN kitty ELSE less(kitty, 1)
      /\ modes' = IF broken THEN modes ELSE modes \ {"listed"}
  BY DEF restoreHostTerminal, typeVars
<1>2. kitty' \in 0 .. MaxPush + 1 /\ kitty' <= app' + 1 /\ (~broken => kitty' <= app')
  BY <1>1, ClientAssumption DEF TypeHost, less
<1>3. modes' \subseteq HostModes /\ (~broken => "listed" \notin modes') BY <1>1 DEF TypeHost
<1> QED BY <1>1, <1>2, <1>3 DEF TypeHost

LEMMA MainTypes ==
  ASSUME Types, pc = "kitty" => kitty = 0, kitty <= app + 1, MainStep
  PROVE  Types' /\ kitty' <= app' + 1
<1> USE DEF mainVars, optVars, hostVars, typeVars, sockVars, dmnVars, goto
<1>1. CASE PushKitty
  <2>1. TypeMain' BY <1>1 DEF PushKitty, Types, TypeMain
  <2>2. kitty' = 1 /\ app' = app BY <1>1 DEF PushKitty
  <2>3. kitty' \in 0 .. MaxPush + 1 /\ kitty' <= app' + 1
    BY <2>2, ClientAssumption DEF Types, TypeHost
  <2>4. TypeHost' BY <1>1, <2>3 DEF PushKitty, Types, TypeHost
  <2> QED BY <1>1, <2>1, <2>3, <2>4, TypesKept DEF PushKitty, Types
<1>2. CASE ReattachDump \/ writeCreatedCommandDump
  <2>1. TypeMain' BY <1>2 DEF ReattachDump, writeCreatedCommandDump, Types, TypeMain
  <2>2. PICK s \in {<<>>, dump} : show(s)
    BY <1>2 DEF ReattachDump, writeCreatedCommandDump, reattachDump, createdDump
  <2>3. s \in Seq(1 .. MaxOut) BY EmptySeq DEF Types, TypeMain
  <2>4. UNCHANGED <<tty, broken>> BY <1>2 DEF ReattachDump, writeCreatedCommandDump
  <2>5. TypeHost' /\ kitty' <= app' + 1 BY <2>2, <2>3, <2>4, ShowType DEF Types
  <2> QED BY <1>2, <2>1, <2>5, TypesKept DEF ReattachDump, writeCreatedCommandDump, Types
<1>3. CASE MakeRaw \/ SetupFail \/ ReadFail
  <2>1. UNCHANGED <<kitty, modes, shown, app, broken>> /\ tty' \in {"cooked", "raw"}
    BY <1>3 DEF MakeRaw, SetupFail, ReadFail
  <2>2. TypeMain' BY <1>3 DEF MakeRaw, SetupFail, ReadFail, Types, TypeMain
  <2>3. TypeHost' BY <2>1 DEF Types, TypeHost
  <2> QED BY <1>3, <2>1, <2>2, <2>3, TypesKept DEF MakeRaw, SetupFail, ReadFail, Types
<1>4. CASE Drain
  <2>1. TypeMain' /\ TypeKeys' BY <1>4, EmptySeq DEF Drain, Types, TypeMain, TypeKeys
  <2> QED BY <1>4, <2>1, TypesKept DEF Drain, Types
<1>5. CASE Spawn
  <2>1. TypeMain' /\ TypeGo' BY <1>5 DEF Spawn, Types, TypeMain, TypeGo
  <2> QED BY <1>5, <2>1, TypesKept DEF Spawn, Types
<1>6. CASE ReadOutput
  <2>1. receive /\ Head(down).type = "output" /\ show(<<Head(down).k>>) BY <1>6 DEF ReadOutput
  <2>2. Head(down).k \in 1 .. MaxOut BY <2>1, HeadDown DEF Types, MessageDown
  <2>3. <<Head(down).k>> \in Seq(1 .. MaxOut) BY <2>2
  <2>4. UNCHANGED <<tty, broken>> BY <1>6 DEF ReadOutput
  <2>5. TypeHost' /\ kitty' <= app' + 1 BY <2>1, <2>3, <2>4, ShowType DEF Types
  <2>6. TypeDown' BY <1>6, <2>1, HeadDown DEF ReadOutput, Types, TypeDown
  <2> QED BY <1>6, <2>5, <2>6, TypesKept DEF ReadOutput, Types
<1>7. CASE ReadClientsChanged
  <2>1. TypeDown' BY <1>7, HeadDown DEF ReadClientsChanged, Types, TypeDown
  <2> QED BY <1>7, <2>1, TypesKept DEF ReadClientsChanged, Types
<1>8. CASE ReadExited
  <2>1. TypeDown' BY <1>8, HeadDown DEF ReadExited, Types, TypeDown
  <2>2. TypeMain' BY <1>8 DEF ReadExited, Types, TypeMain
  <2>3. TypeHost' /\ kitty' <= app' + 1 /\ UNCHANGED typeVars
    BY <1>8, RestoreType DEF ReadExited, Types
  <2> QED BY <1>8, <2>1, <2>2, <2>3, TypesKept DEF ReadExited, Types
<1>9. CASE ReadError
  <2>1. TypeDown' BY <1>9, HeadDown DEF ReadError, Types, TypeDown
  <2>2. TypeMain' /\ TypeHost' BY <1>9 DEF ReadError, Types, TypeMain, TypeHost
  <2>3. kitty' = kitty /\ app' = app BY <1>9 DEF ReadError
  <2> QED BY <1>9, <2>1, <2>2, <2>3, TypesKept DEF ReadError, Types
<1>10. CASE ReadEnd
  <2>1. TypeMain' BY <1>10 DEF ReadEnd, Types, TypeMain
  <2>2. TypeHost' /\ kitty' <= app' + 1 /\ UNCHANGED typeVars
    BY <1>10, RestoreType DEF ReadEnd, Types
  <2> QED BY <1>10, <2>1, <2>2, TypesKept DEF ReadEnd, Types
<1>11. CASE RestoreTerm
  <2>1. TypeMain' /\ TypeHost' BY <1>11 DEF RestoreTerm, Types, TypeMain, TypeHost
  <2>2. TypeKeys' BY <1>11, EmptySeq DEF RestoreTerm, Types, TypeKeys
  <2>3. kitty' = kitty /\ app' = app BY <1>11 DEF RestoreTerm
  <2> QED BY <1>11, <2>1, <2>2, <2>3, TypesKept DEF RestoreTerm, Types
<1> QED
  BY <1>1, <1>2, <1>3, <1>4, <1>5, <1>6, <1>7, <1>8, <1>9, <1>10, <1>11 DEF MainStep

LEMMA SendType ==
  ASSUME TypeUp, NEW m \in MessageUp, send(m)
  PROVE  /\ TypeUp' /\ Len(up') = Len(up) + 1 /\ up'[Len(up) + 1] = m
         /\ \A i \in 1 .. Len(up) : up'[i] = up[i]
<1>1. up \in Seq(MessageUp) /\ Len(up) \in Nat /\ Len(up) < UpCap /\ up' = Append(up, m)
  BY LenProperties DEF TypeUp, send
<1>2. /\ up' \in Seq(MessageUp) /\ Len(up') = Len(up) + 1 /\ up'[Len(up) + 1] = m
      /\ \A i \in 1 .. Len(up) : up'[i] = up[i]
  BY <1>1, AppendProperties
<1> QED BY <1>1, <1>2, ClientAssumption DEF TypeUp

LEMMA Messages ==
  /\ \A s \in Seq(Key) : Input(s) \in MessageUp
  /\ \A z \in Sizes : Resize(z) \in MessageUp
  /\ Detach \in MessageUp
  BY DEF Input, Resize, Detach, MessageUp

LEMMA Reading ==
  ASSUME TypeKeys, TypeGo, InputRead
  PROVE  /\ TypeGo' /\ TypeKeys' /\ inpc = "read" /\ inpc' = "send"
         /\ readLog' = readLog \o data' /\ oneForm' = (oneForm /\ OneForm(data'))
<1>1. PICK n \in 1 .. Len(stdin) :
        /\ data' = SubSeq(stdin, 1, n) /\ stdin' = SubSeq(stdin, n + 1, Len(stdin))
        /\ readLog' = readLog \o SubSeq(stdin, 1, n)
  <2>1. stdin \in Seq(Key) /\ stdin # <<>> BY DEF TypeKeys, InputRead
  <2>2. Len(stdin) \in Nat /\ Len(stdin) \in 1 .. Len(stdin) BY <2>1
  <2> QED BY <2>2 DEF InputRead
<1>2. stdin \in Seq(Key) /\ Len(stdin) \in Nat /\ n \in Nat BY LenProperties DEF TypeKeys
<1>3. SubSeq(stdin, 1, n) \in Seq(Key) /\ SubSeq(stdin, n + 1, Len(stdin)) \in Seq(Key)
  <2>1. 1 \in 1 .. Len(stdin) + 1 /\ n \in 1 - 1 .. Len(stdin) BY <1>2
  <2>2. n + 1 \in 1 .. Len(stdin) + 1 /\ Len(stdin) \in (n + 1) - 1 .. Len(stdin) BY <1>2
  <2> QED BY <1>2, <2>1, <2>2, Cut
<1>4. readLog' \in Seq(Key) BY <1>1, <1>3, ConcatProperties DEF TypeGo
<1>5. /\ inpc = "read" /\ inpc' = "send" /\ rspc' = rspc /\ closed' = closed /\ keys' = keys
      /\ ws' = ws
  BY DEF InputRead
<1>6. oneForm' = (oneForm /\ OneForm(data')) BY DEF InputRead
<1>7. oneForm' \in BOOLEAN BY <1>6 DEF TypeGo
<1>8. TypeGo' /\ TypeKeys' BY <1>1, <1>3, <1>4, <1>5, <1>7 DEF TypeGo, TypeKeys
<1> QED BY <1>1, <1>5, <1>6, <1>8

\* InputSend sends nothing, or a message with what comes before the detach key.
LEMMA Sending ==
  ASSUME InputSend
  PROVE  /\ \/ up' = up /\ (readOnly \/ Sent(data) = <<>>)
            \/ ~readOnly /\ send(Input(Sent(data)))
         /\ inpc = "send" /\ inpc' = IF findDetach(data) >= 0 THEN "detach" ELSE "read"
         /\ data' = IF findDetach(data) >= 0 THEN data ELSE <<>>
  BY DEF InputSend, Sent

LEMMA GoTypes ==
  ASSUME Types, InputStep \/ ResizeStep
  PROVE  Types'
<1> USE DEF typeVars, sockVars, dmnVars, goVars
<1>1. CASE InputRead BY <1>1, Reading, TypesKept DEF InputRead, Types
<1>2. CASE InputSend
  <2>1. data \in Seq(Key) /\ Input(Sent(data)) \in MessageUp
    BY SentPrefix, Messages DEF Types, TypeGo
  <2>2. TypeUp' BY <1>2, <2>1, Sending, SendType, TypesKept DEF Types
  <2>3. TypeGo' BY <1>2, EmptySeq DEF InputSend, Types, TypeGo
  <2> QED BY <1>2, <2>2, <2>3, TypesKept DEF InputSend, Types
<1>3. CASE InputDetach
  <2>1. TypeUp' BY <1>3, Messages, SendType, TypesKept DEF InputDetach, Types
  <2>2. TypeGo' BY <1>3 DEF InputDetach, Types, TypeGo
  <2> QED BY <1>3, <2>1, <2>2, TypesKept DEF InputDetach, Types
<1>4. CASE InputFail \/ ResizeEnd
  <2>1. TypeGo' BY <1>4 DEF InputFail, ResizeEnd, Types, TypeGo
  <2> QED BY <1>4, <2>1, TypesKept DEF InputFail, ResizeEnd, Types
<1>5. CASE ResizeSignal
  <2>1. TypeGo' BY <1>5 DEF ResizeSignal, Types, TypeGo
  <2>2. TypeSize' BY <1>5 DEF ResizeSignal, Types, TypeSize
  <2> QED BY <1>5, <2>1, <2>2, TypesKept DEF ResizeSignal, Types
<1>6. CASE ResizeRead
  <2>1. TypeGo' BY <1>6 DEF ResizeRead, Types, TypeGo, TypeSize
  <2> QED BY <1>6, <2>1, TypesKept DEF ResizeRead, Types
<1>7. CASE ResizeSend
  <2>1. Resize(ws) \in MessageUp BY Messages DEF Types, TypeGo
  <2>2. TypeUp' BY <1>7, <2>1, SendType DEF ResizeSend, Types
  <2>3. TypeGo' BY <1>7 DEF ResizeSend, Types, TypeGo
  <2> QED BY <1>7, <2>2, <2>3, TypesKept DEF ResizeSend, Types
<1> QED BY <1>1, <1>2, <1>3, <1>4, <1>5, <1>6, <1>7 DEF InputStep, ResizeStep

LEMMA PostType ==
  ASSUME TypeDown, NEW m \in MessageDown, post(m)
  PROVE  /\ down' \in Seq(MessageDown) /\ Len(down') = Len(down) + 1 /\ down'[Len(down) + 1] = m
         /\ \A i \in 1 .. Len(down) : down'[i] = down[i]
  BY AppendProperties DEF TypeDown, post

LEMMA HeadUp ==
  ASSUME TypeUp, HandleMessage
  PROVE  /\ up \in Seq(MessageUp) /\ Len(up) \in Nat \ {0} /\ Head(up) = up[1]
         /\ up[1] \in MessageUp
         /\ up' \in Seq(MessageUp) /\ Len(up') = Len(up) - 1
         /\ \A i \in 1 .. Len(up') : up'[i] = up[i + 1]
<1>1. up \in Seq(MessageUp) /\ up # <<>> /\ up' = Tail(up) BY DEF TypeUp, HandleMessage
<1>2. Len(up) \in Nat \ {0} BY <1>1
<1>3. Head(up) = up[1] /\ up[1] \in MessageUp BY <1>1, <1>2, ElementOfSeq
<1>4. /\ Tail(up) \in Seq(MessageUp) /\ Len(Tail(up)) = Len(up) - 1
      /\ \A i \in 1 .. Len(Tail(up)) : Tail(up)[i] = up[i + 1]
  BY <1>1, HeadTailProperties
<1> QED BY <1>1, <1>2, <1>3, <1>4

LEMMA OtherTypes ==
  ASSUME Types, Type \/ HostResize \/ HostBreaks \/ SessionStep \/ HandleMessage
  PROVE  Types'
<1> USE DEF typeVars, sizeVars, sockVars, dmnVars
<1>1. CASE Type
  <2>1. PICK k \in {<<"x">>} \cup DetachKey : stdin' = stdin \o k BY <1>1 DEF Type
  <2>2. /\ <<"x">> \in Seq(Key) /\ csiSeq \in Seq(Key)
        /\ HasRaw => <<"raw">> \in Seq(Key)
    BY DEF csiSeq, Key
  <2>3. k \in Seq(Key) BY <2>2 DEF DetachKey
  <2>4. stdin' \in Seq(Key) BY <2>1, <2>3, ConcatProperties DEF Types, TypeKeys
  <2>5. keys' \in 0 .. MaxHost BY <1>1, ClientAssumption DEF Type, Types, TypeKeys, TypeSize
  <2> QED BY <1>1, <2>4, <2>5, TypesKept DEF Type, Types, TypeKeys
<1>2. CASE HostResize
  <2>1. resizes' \in 0 .. MaxHost
    BY <1>2, ClientAssumption DEF HostResize, Types, TypeKeys, TypeSize
  <2>2. winsize' \in Sizes BY <1>2 DEF HostResize
  <2>3. winch' \in BOOLEAN BY <1>2 DEF HostResize
  <2> QED BY <1>2, <2>1, <2>2, <2>3, TypesKept DEF HostResize, Types, TypeSize
<1>3. CASE SessionOutput
  <2>1. out' \in 0 .. MaxOut /\ out + 1 \in 1 .. MaxOut
    BY <1>3, ClientAssumption DEF SessionOutput, Types, TypeDown
  <2>2. [type |-> "output", k |-> out + 1] \in MessageDown BY <2>1 DEF MessageDown
  <2>3. TypeDown' BY <1>3, <2>1, <2>2, PostType DEF SessionOutput, Types, TypeDown
  <2> QED BY <1>3, <2>3, TypesKept DEF SessionOutput, Types
<1>4. CASE SessionChanged
  <2>1. [type |-> "changed"] \in MessageDown BY DEF MessageDown
  <2>2. TypeDown' BY <1>4, <2>1, PostType DEF SessionChanged, Types, TypeDown
  <2> QED BY <1>4, <2>2, TypesKept DEF SessionChanged, Types
<1>5. CASE SessionExited
  <2>1. PICK m \in {"exited", "error"} : post([type |-> m]) BY <1>5 DEF SessionExited
  <2>2. [type |-> m] \in MessageDown BY DEF MessageDown
  <2>3. TypeDown' BY <1>5, <2>1, <2>2, PostType DEF SessionExited, Types, TypeDown
  <2> QED BY <1>5, <2>3, TypesKept DEF SessionExited, Types
<1>6. CASE SessionClose
  <2>1. TypePeer' BY <1>6 DEF SessionClose, TypePeer
  <2> QED BY <1>6, <2>1, TypesKept DEF SessionClose, Types
<1>7. CASE HandleMessage
  <2>1. TypeUp' BY <1>7, HeadUp, ClientAssumption DEF Types, TypeUp
  <2>2. TypePeer' BY <1>7 DEF HandleMessage, Types, TypePeer
  <2>3. got' \in Seq(Key)
    <3>1. CASE Head(up).type = "input" /\ ~readOnly
      <4>1. Head(up).data \in Seq(Key) BY <1>7, <3>1, HeadUp DEF Types, MessageUp
      <4> QED BY <1>7, <3>1, <4>1, ConcatProperties DEF HandleMessage, Types, TypeGot
    <3>2. CASE ~(Head(up).type = "input" /\ ~readOnly)
      BY <1>7, <3>2 DEF HandleMessage, Types, TypeGot
    <3> QED BY <3>1, <3>2
  <2>4. dsize' \in Sizes
    BY <1>7, HeadUp DEF HandleMessage, Types, TypeGot, MessageUp
  <2> QED BY <1>7, <2>1, <2>2, <2>3, <2>4, TypesKept DEF HandleMessage, Types, TypeGot
<1>8. CASE HostBreaks
  <2>1. TypeHost' BY <1>8 DEF HostBreaks, Types, TypeHost
  <2> QED BY <1>8, <2>1, TypesKept DEF HostBreaks, Types
<1> QED BY <1>1, <1>2, <1>3, <1>4, <1>5, <1>6, <1>7, <1>8 DEF SessionStep

LEMMA InitTypes == Init => Types
<1> SUFFICES ASSUME Init PROVE Types
  OBVIOUS
<1>1. \A S : <<>> \in Seq(S) /\ Len(<<>>) = 0 BY EmptySeq
<1>2. PICK d \in 0 .. MaxOut : dump = UpTo(d) /\ out = d BY DEF Init
<1>3. UpTo(d) \in Seq(1 .. MaxOut) BY <1>2, ClientAssumption DEF UpTo
<1>4. TypeMain BY <1>2, <1>3, ClientAssumption DEF Init, TypeMain
<1>5. TypeHost
  <2>1. tty \in {"cooked", "raw"} /\ kitty \in 0 .. MaxPush + 1 /\ app \in 0 .. MaxPush
    BY ClientAssumption DEF Init
  <2>2. modes \subseteq HostModes /\ broken \in BOOLEAN BY Zenon DEF Init
  <2>3. shown \in Seq(1 .. MaxOut) BY <1>1 DEF Init
  <2> QED BY <2>1, <2>2, <2>3 DEF TypeHost
<1>6. winsize \in Sizes /\ dsize = winsize /\ ws = winsize BY ClientAssumption DEF Init
<1>7. TypeGo BY <1>1, <1>6 DEF Init, TypeGo
<1>8. TypeKeys BY <1>1, ClientAssumption DEF Init, TypeKeys
<1>9. TypeSize
  <2>1. winch \in BOOLEAN BY DEF Init
  <2>2. resizes \in 0 .. MaxHost BY ClientAssumption DEF Init
  <2> QED BY <1>6, <2>1, <2>2 DEF TypeSize
<1>10. TypeUp BY <1>1, ClientAssumption DEF Init, TypeUp
<1>11. TypeDown BY <1>1, <1>2 DEF Init, TypeDown
<1>12. TypePeer /\ TypeGot BY <1>1, <1>6 DEF Init, TypePeer, TypeGot
<1> QED BY <1>4, <1>5, <1>7, <1>8, <1>9, <1>10, <1>11, <1>12 DEF Types

\* But for a write that begins to fail, RunAttach alone touches its own place
\* and the host terminal.
LEMMA OnlyMain ==
  ASSUME [Next]_vars
  PROVE  MainStep \/ HostBreaks \/ UNCHANGED <<mainVars, hostVars>>
  BY DEF Next, vars, Type, HostResize, InputStep, InputRead, InputSend, InputDetach, InputFail,
         ResizeStep, ResizeSignal, ResizeRead, ResizeSend, ResizeEnd, SessionStep, SessionOutput,
         SessionChanged, SessionExited, SessionClose, HandleMessage

LEMMA HostStep ==
  ASSUME Types, HostInv, [Next]_vars
  PROVE  HostInv'
<1>1. CASE UNCHANGED <<mainVars, hostVars>>
  BY <1>1 DEF HostInv, returned, mainVars, hostVars
<1>2. CASE HostBreaks
  BY <1>2 DEF HostBreaks, HostInv, returned, mainVars
<1>3. CASE MainStep
  <2> USE DEF goto, mainVars, hostVars
  <2>1. kitty' <= app' + 1 BY <1>3, MainTypes DEF HostInv
  <2>2. CASE \/ PushKitty \/ ReattachDump \/ MakeRaw \/ Drain \/ Spawn
             \/ writeCreatedCommandDump \/ ReadOutput \/ ReadClientsChanged
    <3>1. pc' \in {"dump", "raw", "drain", "spawn", "created", "loop"}
      BY <2>2 DEF PushKitty, ReattachDump, MakeRaw, Drain, Spawn, writeCreatedCommandDump,
                  ReadOutput, ReadClientsChanged, receive
    <3> QED BY <2>1, <3>1 DEF HostInv, returned
  <2>3. CASE SetupFail \/ ReadError \/ ReadFail
    <3>1. pc' = "failed" /\ tty' = "cooked" BY <2>3 DEF SetupFail, ReadError, ReadFail
    <3> QED BY <2>1, <3>1 DEF HostInv, returned
  <2>4. CASE ReadExited \/ ReadEnd
    <3>1. pc' \in {"exiting", "detaching"} /\ restoreHostTerminal BY <2>4 DEF ReadExited, ReadEnd
    <3>2. broken' = broken /\ (~broken => "listed" \notin modes' /\ kitty' <= app')
      BY <3>1, RestoreType DEF Types, HostInv
    <3> QED BY <2>1, <3>1, <3>2 DEF HostInv, returned
  <2>5. CASE RestoreTerm
    <3>1. /\ pc \in {"detaching", "exiting"} /\ pc' \in {"detached", "exited"} /\ tty' = "cooked"
          /\ UNCHANGED <<kitty, modes, app, broken>>
      BY <2>5 DEF RestoreTerm
    <3>2. ~broken => "listed" \notin modes /\ kitty <= app BY <3>1 DEF HostInv
    <3> QED BY <2>1, <3>1, <3>2 DEF HostInv, returned
  <2> QED BY <1>3, <2>2, <2>3, <2>4, <2>5 DEF MainStep
<1> QED BY <1>1, <1>2, <1>3, OnlyMain

LEMMA ClientInvariant == Spec => [](Types /\ HostInv)
<1>1. Init => Types /\ HostInv
  <2>1. Init => HostInv BY DEF Init, HostInv, returned
  <2> QED BY <2>1, InitTypes
<1>2. (Types /\ HostInv) /\ [Next]_vars => (Types /\ HostInv)'
  <2> SUFFICES ASSUME Types, HostInv, [Next]_vars PROVE Types'
    BY HostStep
  <2>1. CASE MainStep BY <2>1, MainTypes DEF HostInv
  <2>2. CASE InputStep \/ ResizeStep BY <2>2, GoTypes
  <2>3. CASE Type \/ HostResize \/ HostBreaks \/ SessionStep \/ HandleMessage
    BY <2>3, OtherTypes
  <2>4. CASE UNCHANGED vars
    BY <2>4, TypesKept DEF vars, sockVars, dmnVars, Types
  <2> QED BY <2>1, <2>2, <2>3, <2>4 DEF Next
<1> QED BY <1>1, <1>2, PTL DEF Spec

\* Every variable of the client, its connection and its host terminal keeps its
\* type; the connection never holds more messages than its capacity.
THEOREM ClientTypeOK == Spec => []TypeOK
<1>1. Types => TypeOK BY TypesOK
<1> QED BY <1>1, ClientInvariant, PTL

\* However RunAttach ends, and whatever fails, the host terminal is out of raw
\* mode; after a detach or the exit of the session, unless the terminal takes no
\* more output, the modes of restoreHostTerminal's list are reset, and there are
\* no more keyboard levels than the session's output has left pushed itself.
THEOREM ClientHostClean == Spec => []HostClean
<1>1. HostInv => HostClean BY DEF HostInv, HostClean
<1> QED BY <1>1, ClientInvariant, PTL

-----------------------------------------------------------------------------
\* What the host terminal shows

LEMMA OrderedTail ==
  ASSUME NEW d \in Seq(MessageDown), d # <<>>, NEW n \in Nat, NEW o \in Nat, Ordered(d, n, o)
  PROVE  /\ d[1].type = "output" => d[1].k = n + 1 /\ n + 1 <= o /\ Ordered(Tail(d), n + 1, o)
         /\ d[1].type # "output" => Ordered(Tail(d), n, o)
<1> DEFINE t == Tail(d)
<1>1. Len(d) \in Nat \ {0} OBVIOUS
<1>2. /\ t \in Seq(MessageDown) /\ Len(t) = Len(d) - 1 /\ Len(t) \in Nat
      /\ \A i \in 1 .. Len(t) : t[i] = d[i + 1]
  BY <1>1, HeadTailProperties
<1> HIDE DEF t
<1>3. \A i \in Outputs(t) : i \in Nat /\ i + 1 \in Outputs(d) /\ t[i] = d[i + 1]
  BY <1>1, <1>2 DEF Outputs
<1>4. \A j \in Outputs(d) : j \in Nat /\ (j # 1 => j > 1 /\ j - 1 \in Outputs(t) /\ t[j - 1] = d[j])
  <2> SUFFICES ASSUME NEW j \in Outputs(d)
               PROVE  j \in Nat /\ (j # 1 => j > 1 /\ j - 1 \in Outputs(t) /\ t[j - 1] = d[j])
    OBVIOUS
  <2>1. j \in 1 .. Len(d) /\ d[j].type = "output" BY DEF Outputs
  <2>2. ASSUME j # 1 PROVE j > 1 /\ j - 1 \in Outputs(t) /\ t[j - 1] = d[j]
    <3>1. j > 1 /\ j - 1 \in 1 .. Len(t) /\ (j - 1) + 1 = j BY <1>1, <1>2, <2>1, <2>2
    <3>2. t[j - 1] = d[j] BY <1>2, <3>1
    <3> QED BY <2>1, <3>1, <3>2 DEF Outputs
  <2> QED BY <2>1, <2>2
<1>5. \A i, j \in Outputs(t) : i < j => t[i].k < t[j].k BY <1>3 DEF Ordered
<1>6. CASE d[1].type = "output"
  <2>1. 1 \in Outputs(d) BY <1>1, <1>6 DEF Outputs
  <2>2. d[1].k \in n + 1 .. o /\ d[1].k \in Int /\ n + 1 <= o BY <2>1 DEF Ordered
  <2>3. PICK j \in Outputs(d) : d[j].k = n + 1 BY <2>2 DEF Ordered
  <2>4. d[1].k = n + 1
    <3>1. CASE j = 1 BY <2>3, <3>1
    <3>2. CASE j # 1
      <4>1. d[1].k < d[j].k BY <1>4, <2>1, <3>2 DEF Ordered
      <4> QED BY <2>2, <2>3, <4>1
    <3> QED BY <3>1, <3>2
  <2>5. ASSUME NEW i \in Outputs(t) PROVE t[i].k \in (n + 1) + 1 .. o
    <3>1. d[i + 1].k \in n + 1 .. o /\ 1 < i + 1 /\ t[i] = d[i + 1] BY <1>3, <1>2 DEF Ordered, Outputs
    <3>2. d[1].k < d[i + 1].k BY <1>3, <2>1, <3>1 DEF Ordered
    <3> QED BY <2>4, <3>1, <3>2
  <2>6. ASSUME NEW k \in (n + 1) + 1 .. o PROVE \E i \in Outputs(t) : t[i].k = k
    <3>1. PICK l \in Outputs(d) : d[l].k = k BY DEF Ordered
    <3>2. l # 1 BY <2>4, <3>1
    <3> QED BY <1>4, <3>1, <3>2
  <2>7. Ordered(t, n + 1, o) BY <1>5, <2>5, <2>6 DEF Ordered
  <2> QED BY <1>6, <2>2, <2>4, <2>7 DEF t
<1>7. CASE d[1].type # "output"
  <2>1. 1 \notin Outputs(d) BY <1>7 DEF Outputs
  <2>2. \A i \in Outputs(t) : t[i].k \in n + 1 .. o BY <1>3 DEF Ordered
  <2>3. ASSUME NEW k \in n + 1 .. o PROVE \E i \in Outputs(t) : t[i].k = k
    <3>1. PICK l \in Outputs(d) : d[l].k = k BY DEF Ordered
    <3> QED BY <1>4, <2>1, <3>1
  <2>4. Ordered(t, n, o) BY <1>5, <2>2, <2>3 DEF Ordered
  <2> QED BY <1>7, <2>4 DEF t
<1> QED BY <1>6, <1>7

LEMMA OrderedAppend ==
  ASSUME NEW d \in Seq(MessageDown), NEW m \in MessageDown, NEW n \in Nat, NEW o \in Nat, n <= o,
         Ordered(d, n, o)
  PROVE  /\ m.type # "output" => Ordered(Append(d, m), n, o)
         /\ m.type = "output" /\ m.k = o + 1 => Ordered(Append(d, m), n, o + 1)
<1> DEFINE a == Append(d, m)
           z == Len(d) + 1
<1>1. /\ a \in Seq(MessageDown) /\ Len(d) \in Nat /\ Len(a) = z /\ a[z] = m
      /\ \A i \in 1 .. Len(d) : a[i] = d[i]
  BY AppendProperties, LenProperties
<1> HIDE DEF a
<1>2. \A i \in Outputs(d) : i \in 1 .. Len(d) /\ i \in Outputs(a) /\ a[i] = d[i]
  BY <1>1 DEF Outputs
<1>3. \A i \in Outputs(a) : i \in Outputs(d) \/ (i = z /\ m.type = "output")
  BY <1>1 DEF Outputs
<1>4. CASE m.type # "output"
  <2>1. \A i \in Outputs(a) : i \in Outputs(d) BY <1>3, <1>4
  <2> QED BY <1>2, <1>4, <2>1 DEF Ordered, a
<1>5. CASE m.type = "output" /\ m.k = o + 1
  <2>1. z \in Outputs(a) BY <1>1, <1>5 DEF Outputs
  <2>2. \A i \in Outputs(a) : a[i].k \in n + 1 .. o + 1
    <3>1. \A i \in Outputs(d) : a[i].k \in n + 1 .. o BY <1>2 DEF Ordered
    <3> QED BY <1>1, <1>3, <1>5, <3>1
  <2>3. ASSUME NEW i \in Outputs(a), NEW j \in Outputs(a), i < j PROVE a[i].k < a[j].k
    <3>1. CASE i \in Outputs(d) /\ j \in Outputs(d) BY <1>2, <2>3, <3>1 DEF Ordered
    <3>2. CASE i \in Outputs(d) /\ j = z
      <4>1. a[i].k \in n + 1 .. o BY <1>2, <3>2 DEF Ordered
      <4> QED BY <1>1, <1>5, <3>2, <4>1
    <3>3. CASE i = z
      <4>1. j \in 1 .. z BY <1>1 DEF Outputs
      <4> QED BY <1>1, <2>3, <3>3, <4>1
    <3> QED BY <1>3, <3>1, <3>2, <3>3
  <2>4. ASSUME NEW k \in n + 1 .. o + 1 PROVE \E i \in Outputs(a) : a[i].k = k
    <3>1. CASE k = o + 1 BY <1>1, <1>5, <2>1, <3>1
    <3>2. CASE k \in n + 1 .. o
      <4>1. PICK l \in Outputs(d) : d[l].k = k BY <3>2 DEF Ordered
      <4> QED BY <1>2, <4>1
    <3> QED BY <3>1, <3>2
  <2>5. Ordered(a, n, o + 1) BY <2>2, <2>3, <2>4 DEF Ordered
  <2> QED BY <1>5, <2>5 DEF a
<1> QED BY <1>4, <1>5

\* What StreamInv is about, left alone.
LEMMA StreamFrame ==
  ASSUME StreamInv, UNCHANGED <<pc, created, dump, shown, down, out>>, broken => broken'
  PROVE  StreamInv'
  BY DEF StreamInv, DumpOrder, DownOrder, Ordered, Outputs, Seen, streaming, reattachDump

\* A step before the loop that shows nothing.
LEMMA SetupFrame ==
  ASSUME StreamInv, UNCHANGED <<created, dump, shown, down, out, broken>>,
         \/ pc = "kitty" /\ pc' = "dump"
         \/ pc \in {"raw", "drain", "spawn"} /\ pc' \in {"drain", "spawn", "created"}
  PROVE  StreamInv'
<1>1. DumpOrder' BY DEF StreamInv, DumpOrder, reattachDump
<1>2. streaming' = streaming /\ Seen' = Seen BY DEF streaming, Seen
<1>3. DownOrder' BY <1>2 DEF StreamInv, DownOrder, Ordered, Outputs
<1> QED BY <1>1, <1>3 DEF StreamInv

\* A step that ends RunAttach.
LEMMA EndFrame ==
  ASSUME StreamInv, UNCHANGED <<created, dump, shown, out>>,
         pc' \in {"detaching", "exiting", "detached", "exited", "failed"}
  PROVE  StreamInv'
<1>1. DumpOrder' BY DEF StreamInv, DumpOrder
<1>2. DownOrder' BY DEF DownOrder, streaming
<1> QED BY <1>1, <1>2 DEF StreamInv

\* The two places that show the dump.
LEMMA Shows ==
  ASSUME NEW s \in Seq(1 .. MaxOut), show(s), shown \in Seq(1 .. MaxOut), broken => s = <<>>
  PROVE  shown' = shown \o s
<1>1. CASE s = <<>> BY <1>1, ConcatEmptySeq DEF show
<1>2. CASE s # <<>> BY <1>2 DEF show
<1> QED BY <1>1, <1>2

LEMMA DumpStep ==
  ASSUME Types, StreamInv, Command \/ ~created, ReattachDump \/ writeCreatedCommandDump
  PROVE  StreamInv'
<1>1. /\ created' = created /\ dump' = dump /\ down' = down /\ out' = out /\ broken' = broken
  BY DEF ReattachDump, writeCreatedCommandDump, optVars, sockVars, dmnVars
<1>2. /\ dump \in Seq(1 .. MaxOut) /\ created \in BOOLEAN /\ shown \in Seq(1 .. MaxOut)
      /\ <<>> \in Seq(1 .. MaxOut)
  BY EmptySeq DEF Types, TypeMain, TypeHost
<1>3. reattachDump \in Seq(1 .. MaxOut) /\ createdDump \in Seq(1 .. MaxOut)
  BY <1>2 DEF reattachDump, createdDump
<1>4. \A s \in Seq(1 .. MaxOut) : <<>> \o s = s /\ s \o <<>> = s BY ConcatEmptySeq
<1>5. reattachDump' = reattachDump BY <1>1 DEF reattachDump
<1>6. CASE ReattachDump
  <2>1. pc = "dump" /\ pc' = "raw" BY <1>6 DEF ReattachDump, goto
  <2>2. shown = <<>> BY <2>1 DEF StreamInv, DumpOrder
  <2>3. shown' = shown \o reattachDump BY <1>2, <1>3, <1>6, Shows DEF ReattachDump
  <2>4. shown' = reattachDump BY <1>3, <1>4, <2>2, <2>3
  <2>5. Len(shown') <= out /\ \A i \in 1 .. Len(shown') : shown'[i] = i
    BY <2>2, <2>4 DEF StreamInv, DumpOrder, reattachDump
  <2>6. DumpOrder' BY <1>1, <1>5, <2>1, <2>4, <2>5 DEF StreamInv, DumpOrder
  <2>7. Seen = Len(dump) /\ Seen' = Len(dump) /\ streaming' = streaming
    BY <1>1, <2>1 DEF Seen, streaming
  <2>8. DownOrder' BY <1>1, <2>7 DEF StreamInv, DownOrder
  <2> QED BY <2>6, <2>8 DEF StreamInv
<1>7. CASE writeCreatedCommandDump
  <2>1. pc = "created" /\ pc' = "loop" BY <1>7 DEF writeCreatedCommandDump, goto
  <2>2. shown = reattachDump BY <2>1 DEF StreamInv, DumpOrder
  <2>3. shown' = shown \o createdDump BY <1>2, <1>3, <1>7, Shows DEF writeCreatedCommandDump
  <2>4. shown' = dump
    <3>1. CASE created
      <4>1. shown = <<>> /\ createdDump = dump BY <2>2, <3>1 DEF reattachDump, createdDump
      <4> QED BY <1>2, <1>4, <2>3, <4>1
    <3>2. CASE ~created
      <4>1. shown = dump /\ createdDump = <<>> BY <2>2, <3>2 DEF reattachDump, createdDump
      <4> QED BY <1>2, <1>4, <2>3, <4>1
    <3> QED BY <3>1, <3>2
  <2>5. DumpOrder' BY <1>1, <2>1, <2>4 DEF StreamInv, DumpOrder
  <2>6. Seen = Len(dump) /\ Seen' = Len(dump) /\ streaming' = streaming
    BY <1>1, <2>1, <2>4 DEF Seen, streaming
  <2>7. DownOrder' BY <1>1, <2>6 DEF StreamInv, DownOrder
  <2> QED BY <2>5, <2>7 DEF StreamInv
<1> QED BY <1>6, <1>7

LEMMA ReadStep ==
  ASSUME Types, StreamInv, ReadOutput \/ ReadClientsChanged
  PROVE  StreamInv'
<1>1. /\ receive /\ pc = "loop" /\ pc' = pc /\ created' = created /\ dump' = dump /\ out' = out
      /\ broken' = broken
  BY DEF ReadOutput, ReadClientsChanged, receive, mainVars, optVars, dmnVars, hostVars
<1>2. /\ down \in Seq(MessageDown) /\ down # <<>> /\ Head(down) = down[1]
      /\ down[1] \in MessageDown /\ down' = Tail(down)
  BY <1>1, HeadDown DEF Types
<1>3. shown \in Seq(1 .. MaxOut) /\ Len(shown) \in Nat /\ out \in Nat
  BY LenProperties DEF Types, TypeHost, TypeDown
<1>4. CASE broken
  <2>1. shown' = shown BY <1>4 DEF ReadOutput, ReadClientsChanged, show, hostVars
  <2>2. DumpOrder' BY <1>1, <2>1 DEF StreamInv, DumpOrder
  <2>3. DownOrder' BY <1>1, <1>4 DEF DownOrder, streaming
  <2> QED BY <2>2, <2>3 DEF StreamInv
<1>5. ASSUME ~broken PROVE Ordered(down, Len(shown), out)
  BY <1>1, <1>5 DEF StreamInv, DownOrder, Seen, streaming
<1>6. CASE ~broken /\ ReadOutput
  <2>1. down[1].type = "output" /\ shown' = shown \o <<down[1].k>>
    BY <1>2, <1>6 DEF ReadOutput, show
  <2>2. down[1].k = Len(shown) + 1 /\ Len(shown) + 1 <= out
        /\ Ordered(Tail(down), Len(shown) + 1, out)
    BY <1>2, <1>3, <1>5, <1>6, <2>1, OrderedTail
  <2>3. down[1].k \in 1 .. MaxOut BY <1>2, <2>1 DEF MessageDown
  <2>4. shown' = Append(shown, Len(shown) + 1) BY <1>3, <2>1, <2>2, <2>3, AppendIsConcat
  <2>5. Len(shown') = Len(shown) + 1 /\ \A i \in 1 .. Len(shown') : shown'[i] = i
    <3>1. /\ Len(shown') = Len(shown) + 1 /\ shown'[Len(shown) + 1] = Len(shown) + 1
          /\ \A i \in 1 .. Len(shown) : shown'[i] = shown[i]
      BY <1>3, <2>2, <2>3, <2>4, AppendProperties
    <3> QED BY <1>3, <3>1 DEF StreamInv, DumpOrder
  <2>6. DumpOrder' BY <1>1, <2>2, <2>5 DEF StreamInv, DumpOrder
  <2>7. DownOrder' BY <1>1, <1>2, <2>2, <2>5 DEF DownOrder, Seen
  <2> QED BY <2>6, <2>7 DEF StreamInv
<1>7. CASE ~broken /\ ReadClientsChanged
  <2>1. down[1].type = "changed" /\ shown' = shown
    BY <1>2, <1>7 DEF ReadClientsChanged, hostVars
  <2>2. Ordered(Tail(down), Len(shown), out) BY <1>2, <1>3, <1>5, <1>7, <2>1, OrderedTail
  <2>3. DumpOrder' BY <1>1, <2>1 DEF StreamInv, DumpOrder
  <2>4. DownOrder' BY <1>1, <1>2, <2>1, <2>2 DEF DownOrder, Seen
  <2> QED BY <2>3, <2>4 DEF StreamInv
<1> QED BY <1>4, <1>6, <1>7

LEMMA PutStep ==
  ASSUME Types, StreamInv, SessionOutput \/ SessionChanged \/ SessionExited
  PROVE  StreamInv'
<1>1. UNCHANGED <<pc, created, dump, shown, broken>>
  BY DEF SessionOutput, SessionChanged, SessionExited, mainVars, optVars, hostVars
<1>2. /\ down \in Seq(MessageDown) /\ out \in Nat /\ Seen \in Nat /\ Seen <= out
  BY LenProperties DEF Types, TypeDown, TypeHost, TypeMain, Seen, StreamInv, DumpOrder
<1>3. Seen' = Seen /\ streaming' = streaming BY <1>1 DEF Seen, streaming
<1>4. CASE ~streaming
  <2>1. out' \in {out, out + 1} BY DEF SessionOutput, SessionChanged, SessionExited, dmnVars
  <2>2. DumpOrder' BY <1>1, <1>2, <2>1, LenProperties
    DEF StreamInv, DumpOrder, reattachDump, Types, TypeHost, TypeMain
  <2>3. DownOrder' BY <1>3, <1>4 DEF DownOrder
  <2> QED BY <2>2, <2>3 DEF StreamInv
<1>5. CASE streaming
  <2>1. Ordered(down, Seen, out) BY <1>5 DEF StreamInv, DownOrder
  <2>2. CASE SessionOutput
    <3> DEFINE m == [type |-> "output", k |-> out + 1]
    <3>1. m \in MessageDown /\ m.type = "output" /\ m.k = out + 1
      BY <1>2, <2>2, ClientAssumption DEF SessionOutput, MessageDown
    <3>2. down' = Append(down, m) /\ out' = out + 1 BY <2>2 DEF SessionOutput, post
    <3> HIDE DEF m
    <3>3. Ordered(down', Seen, out') BY <1>2, <2>1, <3>1, <3>2, OrderedAppend
    <3>4. DownOrder' BY <1>3, <3>3 DEF DownOrder
    <3>5. DumpOrder' BY <1>1, <1>2, <3>2, LenProperties
      DEF StreamInv, DumpOrder, reattachDump, Types, TypeHost, TypeMain
    <3> QED BY <3>4, <3>5 DEF StreamInv
  <2>3. CASE SessionChanged \/ SessionExited
    <3>1. PICK l \in {"changed", "exited", "error"} : down' = Append(down, [type |-> l])
      BY <2>3 DEF SessionChanged, SessionExited, post
    <3> DEFINE m == [type |-> l]
    <3>2. m \in MessageDown /\ m.type # "output" BY DEF MessageDown
    <3>3. out' = out BY <2>3 DEF SessionChanged, SessionExited, dmnVars
    <3> HIDE DEF m
    <3>4. down' = Append(down, m) BY <3>1 DEF m
    <3>5. Ordered(down', Seen, out') BY <1>2, <2>1, <3>2, <3>3, <3>4, OrderedAppend
    <3>6. DownOrder' BY <1>3, <3>5 DEF DownOrder
    <3>7. DumpOrder' BY <1>1, <3>3 DEF StreamInv, DumpOrder, reattachDump
    <3> QED BY <3>6, <3>7 DEF StreamInv
  <2> QED BY <2>2, <2>3
<1> QED BY <1>4, <1>5

LEMMA StreamStep ==
  ASSUME Types, StreamInv, Command \/ ~created, [Next]_vars
  PROVE  StreamInv'
<1> USE DEF mainVars, optVars, hostVars, sockVars, dmnVars, goto
<1>1. CASE PushKitty \/ MakeRaw \/ Drain \/ Spawn
  BY <1>1, SetupFrame DEF PushKitty, MakeRaw, Drain, Spawn
<1>2. CASE SetupFail \/ ReadExited \/ ReadError \/ ReadEnd \/ ReadFail \/ RestoreTerm
  BY <1>2, EndFrame
     DEF SetupFail, ReadExited, ReadError, ReadEnd, ReadFail, RestoreTerm, restoreHostTerminal
<1>3. CASE \/ Type \/ HostResize \/ HostBreaks \/ InputStep \/ ResizeStep \/ SessionClose
           \/ HandleMessage
  BY <1>3, StreamFrame DEF Type, HostResize, HostBreaks, InputStep, InputRead, InputSend,
     InputDetach, InputFail, ResizeStep, ResizeSignal, ResizeRead, ResizeSend, ResizeEnd,
     SessionClose, HandleMessage
<1>4. CASE UNCHANGED vars BY <1>4, StreamFrame DEF vars
<1> QED BY <1>1, <1>2, <1>3, <1>4, DumpStep, ReadStep, PutStep DEF Next, MainStep, SessionStep

LEMMA StreamInit == Init => StreamInv
<1> SUFFICES ASSUME Init PROVE StreamInv
  OBVIOUS
<1>1. PICK d \in 0 .. MaxOut : dump = UpTo(d) /\ out = d BY DEF Init
<1>2. /\ d \in Nat /\ Len(dump) = d /\ \A i \in 1 .. d : dump[i] = i
  BY <1>1, Counting, ClientAssumption
<1>3. DumpOrder BY <1>1, <1>2, EmptySeq DEF Init, DumpOrder
<1>4. DownOrder
  <2>1. Seen = d /\ Outputs(down) = {} BY <1>2 DEF Init, Seen, Outputs
  <2> QED BY <1>1, <1>2, <2>1 DEF DownOrder, Ordered
<1> QED BY <1>3, <1>4 DEF StreamInv

\* The dump is shown unless RunAttach has created a session without a command.
LEMMA StreamInvariant == Spec => [](Types /\ (Command \/ ~created => StreamInv))
<1>1. Init => (Command \/ ~created => StreamInv) BY StreamInit
<1>2. Types /\ (Command \/ ~created => StreamInv) /\ [Next]_vars
        => (Command \/ ~created => StreamInv)'
  <2>1. [Next]_vars => created' = created
    <3> SUFFICES ASSUME [Next]_vars PROVE created' = created
      OBVIOUS
    <3>1. MainStep => created' = created
      BY DEF MainStep, PushKitty, ReattachDump, MakeRaw, Drain, Spawn, writeCreatedCommandDump,
             SetupFail, ReadOutput, ReadClientsChanged, ReadExited, ReadError, ReadEnd, ReadFail,
             RestoreTerm, mainVars, optVars
    <3> QED BY <3>1, OnlyMain DEF HostBreaks, mainVars, optVars
  <2> QED BY <2>1, StreamStep
<1> QED BY <1>1, <1>2, ClientInvariant, PTL DEF Spec

LEMMA StreamShown == Types /\ StreamInv => HostStream
<1> SUFFICES ASSUME Types, StreamInv PROVE HostStream
  OBVIOUS
<1>1. out \in 0 .. MaxOut /\ shown \in Seq(1 .. MaxOut) BY DEF Types, TypeDown, TypeHost
<1>2. UpTo(out) \in Seq(1 .. MaxOut) BY <1>1, ClientAssumption DEF UpTo
<1>3. Len(UpTo(out)) = out /\ \A i \in 1 .. out : UpTo(out)[i] = i
  BY <1>1, Counting, ClientAssumption
<1>4. Len(shown) <= out /\ \A i \in 1 .. Len(shown) : shown[i] = i BY DEF StreamInv, DumpOrder
<1>5. \A i \in 1 .. Len(shown) : i \in 1 .. out BY <1>1, <1>4, LenProperties
<1> QED BY <1>1, <1>2, <1>3, <1>4, <1>5, Prefix DEF HostStream

\* RunAttach with a command, creating its session or not: whatever the session
\* puts out while the terminal is set up, the host terminal shows the output
\* from its first batch on, without a gap, a repetition or a change of order.
THEOREM ClientHostStream ==
  ASSUME Command
  PROVE  Spec => []HostStream
<1>1. Types /\ (Command \/ ~created => StreamInv) => HostStream BY StreamShown
<1> QED BY <1>1, StreamInvariant, PTL

\* RunAttach without a command shows the output in the same way in a session
\* that was there before it.
THEOREM ClientReattachStream == Spec => [](~created => HostStream)
<1>1. Types /\ (Command \/ ~created => StreamInv) => (~created => HostStream) BY StreamShown
<1> QED BY <1>1, StreamInvariant, PTL

-----------------------------------------------------------------------------
\* What the session is given

LEMMA ChainAppend ==
  ASSUME NEW log \in Seq(Key), NEW u \in Seq(MessageUp), NEW m \in MessageUp,
         NEW lo \in Nat, NEW hi \in Nat, Chain(log, u, lo, hi)
  PROVE  /\ m.type # "input" => Chain(log, Append(u, m), lo, hi)
         /\ m.type = "input" /\ PieceAt(log, m.data, hi)
              => Chain(log, Append(u, m), lo, hi + Len(m.data))
<1> DEFINE a == Append(u, m)
           z == Len(u) + 1
           Link(v, c, i) ==
             IF v[i].type = "input" THEN PieceAt(log, v[i].data, c[i]) /\ c[i + 1] = c[i] + Len(v[i].data)
                                    ELSE c[i + 1] = c[i]
<1>1. /\ a \in Seq(MessageUp) /\ Len(u) \in Nat /\ Len(a) = z /\ a[z] = m
      /\ \A i \in 1 .. Len(u) : a[i] = u[i]
  BY AppendProperties, LenProperties
<1>2. PICK b \in [1 .. z -> 0 .. Len(log)] :
        b[1] = lo /\ b[z] = hi /\ \A i \in 1 .. Len(u) : Link(u, b, i)
  BY DEF Chain
<1>3. ASSUME NEW e \in 0 .. Len(log),
             IF m.type = "input" THEN PieceAt(log, m.data, hi) /\ e = hi + Len(m.data) ELSE e = hi
      PROVE  Chain(log, a, lo, e)
  <2> DEFINE c == [i \in 1 .. z + 1 |-> IF i = z + 1 THEN e ELSE b[i]]
  <2>1. c \in [1 .. Len(a) + 1 -> 0 .. Len(log)] BY <1>1, <1>2
  <2>2. c[1] = lo /\ c[Len(a) + 1] = e /\ c[z] = hi /\ c[z + 1] = e BY <1>1, <1>2
  <2>3. \A i \in 1 .. Len(u) : c[i] = b[i] /\ c[i + 1] = b[i + 1] BY <1>1
  <2> HIDE DEF c
  <2>4. ASSUME NEW i \in 1 .. Len(a) PROVE Link(a, c, i)
    <3>1. CASE i \in 1 .. Len(u) BY <1>1, <1>2, <2>3, <3>1
    <3>2. CASE i = z BY <1>1, <1>3, <2>2, <3>2
    <3> QED BY <1>1, <3>1, <3>2
  <2> QED BY <2>1, <2>2, <2>4 DEF Chain
<1>4. hi \in 0 .. Len(log) BY <1>1, <1>2
<1>5. ASSUME m.type = "input", PieceAt(log, m.data, hi)
      PROVE  Chain(log, a, lo, hi + Len(m.data))
  <2>1. Len(m.data) \in Nat /\ Len(log) \in Nat
    BY <1>5, LenProperties DEF MessageUp
  <2>2. hi + Len(m.data) \in 0 .. Len(log) BY <1>5, <2>1 DEF PieceAt
  <2> QED BY <1>3, <1>5, <2>2
<1>6. ASSUME m.type # "input" PROVE Chain(log, a, lo, hi) BY <1>3, <1>4, <1>6
<1> QED BY <1>5, <1>6

LEMMA ChainTail ==
  ASSUME NEW log \in Seq(Key), NEW u \in Seq(MessageUp), u # <<>>,
         NEW lo \in Nat, NEW hi \in Nat, Chain(log, u, lo, hi)
  PROVE  /\ u[1].type # "input" => Chain(log, Tail(u), lo, hi)
         /\ u[1].type = "input" =>
              PieceAt(log, u[1].data, lo) /\ Chain(log, Tail(u), lo + Len(u[1].data), hi)
<1> DEFINE t == Tail(u)
           Link(v, c, i) ==
             IF v[i].type = "input" THEN PieceAt(log, v[i].data, c[i]) /\ c[i + 1] = c[i] + Len(v[i].data)
                                    ELSE c[i + 1] = c[i]
<1>1. Len(u) \in Nat \ {0} OBVIOUS
<1>2. /\ t \in Seq(MessageUp) /\ Len(t) = Len(u) - 1 /\ Len(t) \in Nat
      /\ \A i \in 1 .. Len(t) : t[i] = u[i + 1]
  BY <1>1, HeadTailProperties
<1>3. PICK b \in [1 .. Len(u) + 1 -> 0 .. Len(log)] :
        b[1] = lo /\ b[Len(u) + 1] = hi /\ \A i \in 1 .. Len(u) : Link(u, b, i)
  BY DEF Chain
<1>4. Link(u, b, 1) BY <1>1, <1>3
<1>5. Chain(log, t, b[2], hi)
  <2> DEFINE c == [i \in 1 .. Len(u) |-> b[i + 1]]
  <2>1. c \in [1 .. Len(t) + 1 -> 0 .. Len(log)] BY <1>1, <1>2, <1>3
  <2>2. c[1] = b[2] /\ c[Len(t) + 1] = hi BY <1>1, <1>2, <1>3
  <2>3. \A i \in 1 .. Len(t) : i + 1 \in 1 .. Len(u) /\ c[i] = b[i + 1] /\ c[i + 1] = b[(i + 1) + 1]
    BY <1>1, <1>2
  <2> HIDE DEF c
  <2>4. ASSUME NEW i \in 1 .. Len(t) PROVE Link(t, c, i)
    <3>1. Link(u, b, i + 1) /\ t[i] = u[i + 1] BY <1>2, <1>3, <2>3
    <3> QED BY <2>3, <3>1
  <2> QED BY <2>1, <2>2, <2>4 DEF Chain
<1> QED BY <1>3, <1>4, <1>5

LEMMA PieceLonger ==
  ASSUME NEW log \in Seq(Key), NEW x \in Seq(Key), NEW s \in Seq(Key), NEW b \in Nat,
         PieceAt(log, s, b)
  PROVE  PieceAt(log \o x, s, b)
<1>1. /\ Len(log) \in Nat /\ Len(x) \in Nat /\ Len(s) \in Nat BY LenProperties
<1>2. Len(log \o x) = Len(log) + Len(x) /\ \A i \in 1 .. Len(log) : (log \o x)[i] = log[i]
  BY <1>1, ConcatProperties
<1>3. \A j \in 1 .. Len(s) : b + j \in 1 .. Len(log) BY <1>1 DEF PieceAt
<1> QED BY <1>1, <1>2, <1>3 DEF PieceAt

LEMMA ChainLonger ==
  ASSUME NEW log \in Seq(Key), NEW x \in Seq(Key), NEW u \in Seq(MessageUp),
         NEW lo \in Nat, NEW hi \in Nat, Chain(log, u, lo, hi)
  PROVE  Chain(log \o x, u, lo, hi)
<1> DEFINE Link(l, c, i) ==
             IF u[i].type = "input" THEN PieceAt(l, u[i].data, c[i]) /\ c[i + 1] = c[i] + Len(u[i].data)
                                    ELSE c[i + 1] = c[i]
           l2 == log \o x
<1>1. Len(log) \in Nat /\ Len(x) \in Nat /\ Len(l2) = Len(log) + Len(x)
  BY LenProperties, ConcatProperties
<1>2. PICK b \in [1 .. Len(u) + 1 -> 0 .. Len(log)] :
        b[1] = lo /\ b[Len(u) + 1] = hi /\ \A i \in 1 .. Len(u) : Link(log, b, i)
  BY DEF Chain
<1>3. b \in [1 .. Len(u) + 1 -> 0 .. Len(l2)] BY <1>1, <1>2
<1>4. ASSUME NEW i \in 1 .. Len(u) PROVE Link(l2, b, i)
  <2>1. Link(log, b, i) BY <1>2
  <2>2. Len(u) \in Nat /\ i \in 1 .. Len(u) + 1 /\ u[i] \in MessageUp BY ElementOfSeq, LenProperties
  <2>3. b[i] \in Nat BY <1>1, <1>2, <2>2
  <2>4. CASE u[i].type = "input"
    <3>1. u[i].data \in Seq(Key) BY <2>2, <2>4 DEF MessageUp
    <3>2. PieceAt(l2, u[i].data, b[i]) BY <2>1, <2>3, <2>4, <3>1, PieceLonger
    <3> QED BY <2>1, <2>4, <3>2
  <2>5. CASE u[i].type # "input" BY <2>1, <2>5
  <2> QED BY <2>4, <2>5
<1> QED BY <1>2, <1>3, <1>4 DEF Chain

LEMMA InputFrame ==
  ASSUME InputOrder, UNCHANGED <<readOnly, data, readLog, up, got>>,
         inpc' \in {inpc, "gone"}, pc' \in Early => pc \in Early /\ inpc' = inpc,
         closed' => closed \/ inpc = "detach"
  PROVE  InputOrder'
<1>1. CASE readOnly
  BY <1>1 DEF InputOrder, PieceAt
<1>2. CASE ~readOnly
  <2>1. PICK e \in 0 .. Len(readLog) : Chain(readLog, up, Len(got), e) /\ SentUpTo(e)
    BY <1>2 DEF InputOrder
  <2>2. Chain(readLog', up', Len(got'), e) /\ e \in 0 .. Len(readLog') BY <2>1
  <2>3. findDetach(data') = findDetach(data) OBVIOUS
  <2>4. SentUpTo(e)' BY <2>1, <2>3 DEF SentUpTo
  <2>5. /\ pc' \in Early => inpc' = "none"
        /\ inpc' \in {"none", "read"} => data' = <<>>
        /\ PieceAt(readLog', got', 0)
    BY DEF InputOrder
  <2> QED BY <1>2, <2>2, <2>4, <2>5 DEF InputOrder
<1> QED BY <1>1, <1>2

LEMMA EmptyPiece ==
  ASSUME NEW log \in Seq(Key), NEW b \in 0 .. Len(log)
  PROVE  PieceAt(log, <<>>, b) /\ b + Len(<<>>) = b
  BY LenProperties DEF PieceAt

\* forwardHostInput starts with an empty buffer and nothing read.
LEMMA SpawnInput ==
  ASSUME Types, InputOrder, DetachLast, Spawn
  PROVE  InputOrder'
<1>1. /\ pc = "spawn" /\ pc' = "created" /\ inpc' = "read" /\ data' = data /\ readLog' = readLog
      /\ up' = up /\ got' = got /\ readOnly' = readOnly /\ closed' = closed
  BY DEF Spawn, goto, optVars, sockVars, dmnVars
<1>2. inpc = "none" /\ data = <<>> BY <1>1 DEF InputOrder, Early
<1>3. pc' \notin Early BY <1>1 DEF Early
<1>4. PieceAt(readLog', got', 0) BY <1>1 DEF InputOrder
<1>5. CASE readOnly BY <1>1, <1>2, <1>3, <1>4, <1>5 DEF InputOrder
<1>6. CASE ~readOnly
  <2>1. PICK e \in 0 .. Len(readLog) : Chain(readLog, up, Len(got), e) /\ SentUpTo(e)
    BY <1>6 DEF InputOrder
  <2>2. PieceAt(readLog, data, e) /\ e + Len(data) = Len(readLog) BY <1>2, <2>1 DEF SentUpTo
  <2>3. SentUpTo(e)' BY <1>1, <1>2, <2>2 DEF SentUpTo, DetachLast
  <2>4. Chain(readLog', up', Len(got'), e) /\ e \in 0 .. Len(readLog') BY <1>1, <2>1
  <2> QED BY <1>1, <1>2, <1>3, <1>4, <1>6, <2>3, <2>4 DEF InputOrder
<1> QED BY <1>5, <1>6

LEMMA ReadInput ==
  ASSUME Types, InputOrder, DetachLast, InputRead
  PROVE  InputOrder'
<1>1. /\ pc' = pc /\ up' = up /\ got' = got /\ readOnly' = readOnly /\ inpc = "read"
      /\ inpc' = "send" /\ readLog' = readLog \o data' /\ TypeGo' /\ closed' = closed
  BY Reading DEF InputRead, mainVars, optVars, sockVars, dmnVars, Types
<1>2. /\ readLog \in Seq(Key) /\ got \in Seq(Key) /\ up \in Seq(MessageUp) /\ data' \in Seq(Key)
      /\ Len(readLog) \in Nat /\ Len(got) \in Nat /\ Len(data') \in Nat
  BY <1>1, LenProperties DEF Types, TypeGo, TypeGot, TypeUp
<1>3. pc' \notin Early BY <1>1 DEF InputOrder
<1>4. PieceAt(readLog', got', 0) BY <1>1, <1>2, PieceLonger DEF InputOrder
<1>5. CASE readOnly BY <1>1, <1>3, <1>4, <1>5 DEF InputOrder
<1>6. CASE ~readOnly
  <2>1. PICK e \in Nat : e = Len(readLog) BY <1>2
  <2>2. Chain(readLog, up, Len(got), e)
    <3>1. PICK f \in 0 .. Len(readLog) :
            /\ Chain(readLog, up, Len(got), f) /\ f + Len(data) = Len(readLog) /\ data = <<>>
      BY <1>1, <1>6 DEF InputOrder, SentUpTo
    <3>2. f = e BY <1>2, <2>1, <3>1, EmptyPiece
    <3> QED BY <3>1, <3>2
  <2>3. Chain(readLog', up', Len(got'), e) BY <1>1, <1>2, <2>2, ChainLonger
  <2>4. /\ Len(readLog') = e + Len(data')
        /\ \A j \in 1 .. Len(data') : readLog'[e + j] = data'[j]
    BY <1>1, <1>2, <2>1, ConcatProperties
  <2>5. PieceAt(readLog', data', e) /\ e + Len(data') = Len(readLog') /\ e \in 0 .. Len(readLog')
    BY <1>2, <2>4 DEF PieceAt
  <2>6. ~closed' /\ inpc' # "detach" BY <1>1 DEF DetachLast
  <2>7. SentUpTo(e)' BY <2>5, <2>6 DEF SentUpTo
  <2> QED BY <1>1, <1>3, <1>4, <1>6, <2>3, <2>5, <2>7 DEF InputOrder
<1> QED BY <1>5, <1>6

LEMMA SendInput ==
  ASSUME Types, InputOrder, DetachLast, InputSend
  PROVE  InputOrder'
<1>1. /\ pc' = pc /\ got' = got /\ readOnly' = readOnly /\ readLog' = readLog
      /\ closed' = closed
  BY DEF InputSend, mainVars, optVars, dmnVars
<1>2. /\ \/ up' = up /\ (readOnly \/ Sent(data) = <<>>)
         \/ ~readOnly /\ send(Input(Sent(data)))
      /\ inpc = "send" /\ inpc' = IF findDetach(data) >= 0 THEN "detach" ELSE "read"
      /\ data' = IF findDetach(data) >= 0 THEN data ELSE <<>>
  BY Sending
<1>3. /\ readLog \in Seq(Key) /\ got \in Seq(Key) /\ up \in Seq(MessageUp) /\ data \in Seq(Key)
      /\ Len(readLog) \in Nat /\ Len(got) \in Nat /\ Len(data) \in Nat
  BY LenProperties DEF Types, TypeGo, TypeGot, TypeUp
<1>4. pc' \notin Early BY <1>1, <1>2 DEF InputOrder
<1>5. PieceAt(readLog', got', 0) BY <1>1 DEF InputOrder
<1>6. CASE readOnly BY <1>1, <1>2, <1>4, <1>5, <1>6 DEF InputOrder
<1>7. CASE ~readOnly
  <2> DEFINE x == Sent(data)
             m == Input(x)
  <2>1. PICK e \in 0 .. Len(readLog) :
          Chain(readLog, up, Len(got), e) /\ PieceAt(readLog, data, e) /\ e + Len(data) = Len(readLog)
    BY <1>2, <1>7 DEF InputOrder, SentUpTo
  <2>2. /\ x \in Seq(Key) /\ Len(x) \in 0 .. Len(data) /\ \A i \in 1 .. Len(x) : x[i] = data[i]
        /\ findDetach(data) \in Int /\ (findDetach(data) < 0 => x = data)
        /\ findDetach(data) >= 0 => Len(x) = findDetach(data)
    BY <1>3, SentPrefix
  <2>3. m \in MessageUp /\ m.type = "input" /\ m.data = x BY <2>2, Messages DEF Input
  <2> HIDE DEF x, m
  <2>4. PieceAt(readLog, x, e)
    <3>1. e + Len(x) <= Len(readLog) BY <1>3, <2>1, <2>2
    <3>2. \A j \in 1 .. Len(x) : j \in 1 .. Len(data) /\ x[j] = data[j] BY <1>3, <2>2
    <3> QED BY <2>1, <3>1, <3>2 DEF PieceAt
  <2>5. Chain(readLog, up', Len(got), e + Len(x))
    <3>1. CASE up' = up /\ x = <<>>
      <4>1. e + Len(x) = e BY <3>1, <1>3, EmptyPiece
      <4> QED BY <2>1, <3>1, <4>1
    <3>2. CASE send(m)
      <4>1. up' = Append(up, m) BY <3>2 DEF send
      <4>2. e \in Nat /\ PieceAt(readLog, m.data, e) BY <1>3, <2>3, <2>4
      <4>3. Chain(readLog, Append(up, m), Len(got), e + Len(m.data))
        BY <1>3, <2>1, <2>3, <4>2, ChainAppend
      <4> QED BY <2>3, <4>1, <4>3
    <3> QED BY <1>2, <1>7, <3>1, <3>2 DEF x, m
  <2>6. e + Len(x) \in 0 .. Len(readLog) BY <1>3, <2>1, <2>2
  <2>7. PICK f \in 0 .. Len(readLog) : f = e + Len(x) BY <2>6
  <2>8. ~closed' BY <1>1, <1>2 DEF DetachLast
  <2>9. CASE findDetach(data) >= 0
    <3>1. inpc' = "detach" /\ data' = data BY <1>2, <2>9
    <3>2. f + Len(data) = Len(readLog) + findDetach(data)
      <4>1. e + Len(data) = Len(readLog) /\ f = e + findDetach(data) BY <2>1, <2>2, <2>9, <2>7
      <4>2. e \in Int /\ findDetach(data) \in Int BY <1>3, <2>2
      <4>3. Len(data) \in Int /\ Len(readLog) \in Int BY <1>3
      <4>4. PICK d \in Int : d = findDetach(data) BY <4>2, Zenon
      <4>5. PICK q \in Int : q = Len(data) BY <4>3, Zenon
      <4>6. e + q = Len(readLog) /\ f = e + d BY <4>1, <4>4, <4>5, Zenon
      <4>7. f + q = Len(readLog) + d BY <4>2, <4>3, <4>6, SMT
      <4> QED BY <4>4, <4>5, <4>7, Zenon
    <3>3. f + Len(data') = Len(readLog') + findDetach(data') BY <1>1, <3>1, <3>2
    <3>4. SentUpTo(f)' BY <3>1, <3>3 DEF SentUpTo
    <3> QED BY <1>1, <1>4, <1>5, <1>7, <2>5, <2>7, <3>1, <3>4 DEF InputOrder
  <2>10. CASE findDetach(data) < 0
    <3>1. inpc' = "read" /\ data' = <<>> BY <1>2, <2>2, <2>10
    <3>2. f = Len(readLog) BY <2>1, <2>2, <2>10, <2>7
    <3>3. PieceAt(readLog', data', f) /\ f + Len(data') = Len(readLog')
      BY <1>1, <1>3, <2>6, <3>1, <3>2, EmptyPiece
    <3>4. SentUpTo(f)' BY <2>8, <3>1, <3>3 DEF SentUpTo
    <3> QED BY <1>1, <1>4, <1>5, <1>7, <2>5, <2>7, <3>1, <3>4 DEF InputOrder
  <2> QED BY <2>2, <2>9, <2>10
<1> QED BY <1>6, <1>7

\* A message without keys changes nothing of the order.
LEMMA SendOther ==
  ASSUME Types, InputOrder, NEW m \in MessageUp, m.type # "input", send(m),
         UNCHANGED <<readOnly, data, readLog, got>>, pc' = pc,
         \/ inpc' = inpc /\ closed' = closed
         \/ inpc = "detach" /\ inpc' = "gone"
  PROVE  InputOrder'
<1>1. up' = Append(up, m) BY DEF send
<1>2. /\ readLog \in Seq(Key) /\ got \in Seq(Key) /\ up \in Seq(MessageUp) /\ Len(got) \in Nat
      /\ Len(readLog) \in Nat
  BY LenProperties DEF Types, TypeGo, TypeGot, TypeUp
<1>3. pc' \in Early => inpc' = "none" BY DEF InputOrder
<1>4. PieceAt(readLog', got', 0) /\ (inpc' \in {"none", "read"} => data' = <<>>)
  BY DEF InputOrder
<1>5. CASE readOnly
  <2>1. \A i \in 1 .. Len(up') : up'[i].type # "input"
    BY <1>5, SendType DEF Types, InputOrder, TypeUp
  <2> QED BY <1>3, <1>4, <1>5, <2>1 DEF InputOrder
<1>6. CASE ~readOnly
  <2>1. PICK e \in 0 .. Len(readLog) : Chain(readLog, up, Len(got), e) /\ SentUpTo(e)
    BY <1>6 DEF InputOrder
  <2>2. Chain(readLog, up', Len(got), e) BY <1>1, <1>2, <2>1, ChainAppend
  <2>3. findDetach(data') = findDetach(data) OBVIOUS
  <2>4. SentUpTo(e)' BY <2>1, <2>3 DEF SentUpTo
  <2> QED BY <1>3, <1>4, <1>6, <2>1, <2>2, <2>4 DEF InputOrder
<1> QED BY <1>5, <1>6

LEMMA HandleInput ==
  ASSUME Types, InputOrder, HandleMessage
  PROVE  InputOrder'
<1>1. /\ pc' = pc /\ readOnly' = readOnly /\ readLog' = readLog /\ data' = data /\ inpc' = inpc
      /\ closed' = closed /\ up # <<>> /\ up' = Tail(up)
      /\ got' = IF Head(up).type = "input" /\ ~readOnly THEN got \o Head(up).data ELSE got
  BY DEF HandleMessage, mainVars, optVars, goVars
<1>2. /\ up \in Seq(MessageUp) /\ Len(up) \in Nat \ {0} /\ Head(up) = up[1]
      /\ up[1] \in MessageUp /\ Len(up') = Len(up) - 1
      /\ \A i \in 1 .. Len(up') : up'[i] = up[i + 1]
  BY HeadUp DEF Types
<1>3. /\ readLog \in Seq(Key) /\ got \in Seq(Key) /\ Len(got) \in Nat /\ Len(readLog) \in Nat
  BY LenProperties DEF Types, TypeGo, TypeGot
<1>4. (pc' \in Early => inpc' = "none") /\ (inpc' \in {"none", "read"} => data' = <<>>)
  BY <1>1 DEF InputOrder
<1>5. CASE readOnly
  <2>1. got' = <<>> /\ PieceAt(readLog', got', 0) BY <1>1, <1>5 DEF InputOrder
  <2>2. \A i \in 1 .. Len(up') : up'[i].type # "input" BY <1>2, <1>5 DEF InputOrder
  <2> QED BY <1>1, <1>4, <1>5, <2>1, <2>2 DEF InputOrder
<1>6. CASE ~readOnly
  <2>1. PICK e \in 0 .. Len(readLog) : Chain(readLog, up, Len(got), e) /\ SentUpTo(e)
    BY <1>6 DEF InputOrder
  <2>2. PieceAt(readLog, got', 0) /\ Chain(readLog, up', Len(got'), e)
    <3>1. CASE up[1].type = "input"
      <4> DEFINE x == up[1].data
      <4>1. x \in Seq(Key) /\ Len(x) \in Nat BY <1>2, <3>1, LenProperties DEF MessageUp
      <4>2. PieceAt(readLog, x, Len(got)) /\ Chain(readLog, Tail(up), Len(got) + Len(x), e)
        BY <1>1, <1>2, <1>3, <2>1, <3>1, ChainTail
      <4>3. got' = got \o x BY <1>1, <1>2, <1>6, <3>1
      <4> HIDE DEF x
      <4>4. /\ Len(got') = Len(got) + Len(x) /\ \A i \in 1 .. Len(got) : got'[i] = got[i]
            /\ \A i \in 1 .. Len(x) : got'[Len(got) + i] = x[i]
        BY <1>3, <4>1, <4>3, ConcatProperties
      <4>5. ASSUME NEW j \in 1 .. Len(got') PROVE got'[j] = readLog[0 + j]
        <5>1. CASE j \in 1 .. Len(got) BY <1>3, <4>4, <5>1 DEF InputOrder, PieceAt
        <5>2. CASE j \notin 1 .. Len(got)
          <6>1. j - Len(got) \in 1 .. Len(x) /\ Len(got) + (j - Len(got)) = j
            BY <1>3, <4>1, <4>4, <5>2
          <6>2. got'[j] = x[j - Len(got)] BY <4>4, <6>1
          <6>3. x[j - Len(got)] = readLog[j] BY <4>2, <6>1 DEF PieceAt
          <6> QED BY <6>2, <6>3
        <5> QED BY <5>1, <5>2
      <4>6. 0 + Len(got') <= Len(readLog) BY <1>3, <4>1, <4>2, <4>4 DEF PieceAt
      <4> QED BY <1>1, <4>2, <4>4, <4>5, <4>6 DEF PieceAt
    <3>2. CASE up[1].type # "input"
      <4>1. got' = got BY <1>1, <1>2, <3>2
      <4> QED BY <1>1, <1>2, <1>3, <2>1, <3>2, <4>1, ChainTail DEF InputOrder
    <3> QED BY <3>1, <3>2
  <2>3. findDetach(data') = findDetach(data) BY <1>1
  <2>4. SentUpTo(e)' BY <1>1, <2>1, <2>3 DEF SentUpTo
  <2> QED BY <1>1, <1>4, <1>6, <2>1, <2>2, <2>4 DEF InputOrder
<1> QED BY <1>5, <1>6

LEMMA InputStepOrder ==
  ASSUME Types, InputOrder, DetachLast, [Next]_vars
  PROVE  InputOrder'
<1> USE DEF mainVars, optVars, goVars, typeVars, sockVars, dmnVars, goto
<1>1. CASE PushKitty \/ ReattachDump \/ MakeRaw \/ Drain
  <2>1. pc \in Early BY <1>1 DEF PushKitty, ReattachDump, MakeRaw, Drain, Early
  <2> QED BY <1>1, <2>1, InputFrame DEF PushKitty, ReattachDump, MakeRaw, Drain
<1>2. CASE \/ writeCreatedCommandDump \/ SetupFail \/ ReadExited \/ ReadError \/ ReadEnd
           \/ ReadFail \/ RestoreTerm
  <2>1. pc' \in {"loop", "failed", "exiting", "detaching", "exited", "detached"}
    BY <1>2 DEF writeCreatedCommandDump, SetupFail, ReadExited, ReadError, ReadEnd, ReadFail,
                RestoreTerm
  <2>2. pc' \notin Early BY <2>1 DEF Early
  <2> QED
    BY <1>2, <2>2, InputFrame
       DEF writeCreatedCommandDump, SetupFail, ReadExited, ReadError, ReadEnd, ReadFail,
           RestoreTerm
<1>3. CASE \/ ReadOutput \/ ReadClientsChanged \/ Type \/ HostResize \/ HostBreaks
           \/ SessionStep \/ ResizeSignal \/ ResizeRead \/ ResizeEnd
  BY <1>3, InputFrame DEF ReadOutput, ReadClientsChanged, Type, HostResize, HostBreaks,
     SessionStep, SessionOutput, SessionChanged, SessionExited, SessionClose, ResizeSignal,
     ResizeRead, ResizeEnd
<1>4. CASE InputFail
  <2>1. pc' \notin Early BY <1>4 DEF InputFail, InputOrder
  <2> QED BY <1>4, <2>1, InputFrame DEF InputFail
<1>5. CASE InputDetach
  <2>1. inpc = "detach" /\ inpc' = "gone" /\ pc' = pc BY <1>5 DEF InputDetach
  <2>2. pc' \notin Early BY <2>1 DEF InputOrder
  <2>3. CASE canWrite
    <3>1. send(Detach) /\ Detach \in MessageUp /\ Detach.type # "input"
      BY <1>5, <2>3, Messages DEF InputDetach, Detach
    <3> QED BY <1>5, <2>1, <3>1, SendOther DEF InputDetach
  <2>4. CASE ~canWrite BY <1>5, <2>1, <2>2, <2>4, InputFrame DEF InputDetach
  <2> QED BY <2>3, <2>4
<1>6. CASE ResizeSend
  <2>1. send(Resize(ws)) /\ Resize(ws) \in MessageUp /\ Resize(ws).type # "input"
    BY <1>6, Messages DEF ResizeSend, Resize, Types, TypeGo
  <2> QED BY <1>6, <2>1, SendOther DEF ResizeSend
<1>7. CASE UNCHANGED vars BY <1>7, InputFrame DEF vars
<1> QED
  BY <1>1, <1>2, <1>3, <1>4, <1>5, <1>6, <1>7, SpawnInput, ReadInput, SendInput, HandleInput
     DEF Next, MainStep, InputStep, ResizeStep

LEMMA InputInit == Init => InputOrder
<1> SUFFICES ASSUME Init PROVE InputOrder
  OBVIOUS
<1>1. /\ inpc = "none" /\ data = <<>> /\ readLog = <<>> /\ up = <<>> /\ got = <<>>
      /\ Len(readLog) = 0 /\ Len(up) = 0 /\ Len(got) = 0
  BY DEF Init
<1>2. PieceAt(readLog, <<>>, 0) /\ 0 + Len(<<>>) = Len(readLog) BY <1>1 DEF PieceAt
<1>3. Chain(readLog, up, 0, 0)
  <2> DEFINE b == [i \in 1 .. Len(up) + 1 |-> 0]
  <2>1. /\ b \in [1 .. Len(up) + 1 -> 0 .. Len(readLog)] /\ b[1] = 0 /\ b[Len(up) + 1] = 0
    BY <1>1
  <2>2. \A i \in 1 .. Len(up) : FALSE BY <1>1
  <2> HIDE DEF b
  <2> QED BY <2>1, <2>2 DEF Chain
<1>4. SentUpTo(0) BY <1>1, <1>2 DEF Init, SentUpTo
<1>5. 0 \in 0 .. Len(readLog) /\ PieceAt(readLog, got, 0) BY <1>1, <1>2
<1> QED BY <1>1, <1>3, <1>4, <1>5 DEF InputOrder

LEMMA LastStep ==
  ASSUME Types, InputOrder, DetachLast, [Next]_vars
  PROVE  DetachLast'
<1> USE DEF mainVars, optVars, goVars, typeVars, sockVars, dmnVars
<1>1. CASE UNCHANGED <<closed, up>> /\ (inpc' = inpc \/ ~closed)
  BY <1>1 DEF DetachLast
<1>2. ASSUME NEW m \in MessageUp, send(m), closed' => inpc' = "gone" , m.type = "detach" => closed'
      PROVE  DetachLast'
  <2>1. /\ Len(up) \in Nat /\ Len(up') = Len(up) + 1 /\ up'[Len(up) + 1] = m
        /\ \A i \in 1 .. Len(up) : up'[i] = up[i]
    BY <1>2, SendType, LenProperties DEF Types, TypeUp
  <2>2. ~closed BY <1>2 DEF send, canWrite
  <2>3. \A i \in 1 .. Len(up) : up'[i].type # "detach" BY <2>1, <2>2 DEF DetachLast
  <2>4. \A i \in 1 .. Len(up') : i \in 1 .. Len(up) \/ i = Len(up') BY <2>1
  <2> QED BY <1>2, <2>1, <2>3, <2>4 DEF DetachLast
<1>3. CASE HandleMessage
  <2>1. /\ Len(up) \in Nat \ {0} /\ Len(up') = Len(up) - 1
        /\ \A i \in 1 .. Len(up') : up'[i] = up[i + 1]
    BY <1>3, HeadUp DEF Types
  <2>2. closed' = closed /\ inpc' = inpc BY <1>3 DEF HandleMessage
  <2>3. \A i \in 1 .. Len(up') : i + 1 \in 1 .. Len(up) BY <2>1
  <2>4. \A i \in 1 .. Len(up') : up'[i].type = "detach" => closed' /\ i = Len(up')
    BY <2>1, <2>2, <2>3 DEF DetachLast
  <2> QED BY <2>2, <2>4 DEF DetachLast
<1>4. CASE InputSend
  <2>1. closed' = closed /\ inpc = "send" BY <1>4 DEF InputSend
  <2>2. ~closed BY <2>1 DEF DetachLast
  <2>3. CASE up' = up BY <1>1, <2>1, <2>2, <2>3
  <2>4. CASE send(Input(Sent(data)))
    <3>1. Input(Sent(data)) \in MessageUp BY SentPrefix, Messages DEF Types, TypeGo
    <3>2. Input(Sent(data)).type # "detach" BY DEF Input
    <3> QED BY <1>2, <2>1, <2>2, <2>4, <3>1, <3>2
  <2> QED BY <1>4, <2>3, <2>4, Sending
<1>5. CASE InputDetach
  <2>1. closed' /\ inpc' = "gone" /\ inpc = "detach" BY <1>5 DEF InputDetach
  <2>2. CASE canWrite BY <1>2, <1>5, <2>1, <2>2, Messages DEF InputDetach
  <2>3. CASE ~canWrite
    <3>1. up' = up BY <1>5, <2>3 DEF InputDetach
    <3>2. ~closed BY <2>1 DEF DetachLast
    <3> QED BY <2>1, <3>1, <3>2 DEF DetachLast
  <2> QED BY <2>2, <2>3
<1>6. CASE ResizeSend
  <2>1. Resize(ws) \in MessageUp /\ Resize(ws).type # "detach"
    BY Messages DEF Types, TypeGo, Resize
  <2>2. closed' = closed /\ inpc' = inpc BY <1>6 DEF ResizeSend
  <2> QED BY <1>2, <1>6, <2>1, <2>2 DEF ResizeSend, DetachLast
<1>7. CASE Spawn
  <2>1. inpc = "none" BY <1>7 DEF Spawn, InputOrder, Early
  <2> QED BY <1>7, <2>1 DEF Spawn, DetachLast
<1> QED
  BY <1>1, <1>3, <1>4, <1>5, <1>6, <1>7
  DEF Next, MainStep, PushKitty, ReattachDump, MakeRaw, Drain, writeCreatedCommandDump, SetupFail,
      ReadOutput, ReadClientsChanged, ReadExited, ReadError, ReadEnd, ReadFail, RestoreTerm, Type,
      HostResize, HostBreaks, SessionStep, SessionOutput, SessionChanged, SessionExited,
      SessionClose, InputStep, InputRead, InputFail, ResizeStep, ResizeSignal, ResizeRead,
      ResizeEnd, vars, DetachLast

-----------------------------------------------------------------------------
\* Nothing of a detach key is given away

LEMMA KeyFrame ==
  ASSUME KeyInv, data' \in {data, <<>>}, UNCHANGED <<oneForm, got, up>>
  PROVE  KeyInv'
<1>1. OneForm(<<>>) BY DEF OneForm, Whole
<1> QED BY <1>1 DEF KeyInv, Plain, OneForm, Whole

LEMMA KeyStep ==
  ASSUME Types, KeyInv, [Next]_vars
  PROVE  KeyInv'
<1> USE DEF mainVars, optVars, goVars, typeVars, sockVars, dmnVars, goto
<1>1. CASE MainStep
  BY <1>1, KeyFrame DEF MainStep, PushKitty, ReattachDump, MakeRaw, Drain, Spawn,
     writeCreatedCommandDump, SetupFail, ReadOutput, ReadClientsChanged, ReadExited, ReadError,
     ReadEnd, ReadFail, RestoreTerm
<1>2. CASE \/ Type \/ HostResize \/ HostBreaks \/ SessionStep \/ ResizeSignal \/ ResizeRead
           \/ ResizeEnd \/ InputFail \/ UNCHANGED vars
  BY <1>2, KeyFrame DEF Type, HostResize, HostBreaks, SessionStep, SessionOutput, SessionChanged,
     SessionExited, SessionClose, ResizeSignal, ResizeRead, ResizeEnd, InputFail, vars
<1>3. CASE InputRead
  <2>1. got' = got /\ up' = up /\ oneForm' = (oneForm /\ OneForm(data'))
    BY <1>3, Reading DEF InputRead, Types
  <2>2. oneForm' => OneForm(data)' BY <2>1 DEF OneForm, Whole
  <2>3. \A s : Plain(s) => \A i \in 1 .. Len(s) : s[i] # "raw" /\ (oneForm' => s[i] = "x")
    BY <2>1 DEF Plain
  <2>4. Plain(got)' BY <2>1, <2>3 DEF KeyInv, Plain
  <2>5. \A i \in 1 .. Len(up') : up'[i].type = "input" =>
          \A j \in 1 .. Len(up'[i].data) :
            up'[i].data[j] # "raw" /\ (oneForm' => up'[i].data[j] = "x")
    BY <2>1, <2>3 DEF KeyInv
  <2> QED BY <2>2, <2>4, <2>5 DEF KeyInv, Plain
<1>4. ASSUME NEW m \in MessageUp, send(m), m.type = "input" => Plain(m.data),
             got' = got, oneForm' = oneForm, data' \in {data, <<>>}
      PROVE  KeyInv'
  <2>1. /\ Len(up) \in Nat /\ Len(up') = Len(up) + 1 /\ up'[Len(up) + 1] = m
        /\ \A i \in 1 .. Len(up) : up'[i] = up[i]
    BY <1>4, SendType, LenProperties DEF Types, TypeUp
  <2>2. \A i \in 1 .. Len(up') : up'[i].type = "input" => Plain(up'[i].data)
    BY <1>4, <2>1 DEF KeyInv
  <2>3. OneForm(<<>>) BY DEF OneForm, Whole
  <2>4. oneForm' => OneForm(data') BY <1>4, <2>3 DEF KeyInv
  <2> QED BY <1>4, <2>2, <2>4 DEF KeyInv, Plain, OneForm, Whole
<1>5. CASE InputSend
  <2>1. got' = got /\ oneForm' = oneForm /\ data' \in {data, <<>>} BY <1>5 DEF InputSend
  <2>2. data \in Seq(Key) BY DEF Types, TypeGo
  <2>3. Plain(Sent(data)) BY <2>2, SentPlain DEF KeyInv
  <2>4. CASE up' = up BY <2>1, <2>4, KeyFrame
  <2>5. CASE send(Input(Sent(data)))
    <3>1. Input(Sent(data)) \in MessageUp BY <2>2, SentPrefix, Messages
    <3>2. Input(Sent(data)).data = Sent(data) BY DEF Input
    <3> QED BY <1>4, <2>1, <2>3, <2>5, <3>1, <3>2
  <2> QED BY <1>5, <2>4, <2>5, Sending
<1>6. CASE InputDetach
  <2>1. got' = got /\ oneForm' = oneForm /\ data' = data BY <1>6 DEF InputDetach
  <2>2. CASE canWrite
    BY <1>4, <1>6, <2>1, <2>2, Messages DEF InputDetach, Detach
  <2>3. CASE ~canWrite BY <1>6, <2>1, <2>3, KeyFrame DEF InputDetach
  <2> QED BY <2>2, <2>3
<1>7. CASE ResizeSend
  <2>1. Resize(ws) \in MessageUp /\ Resize(ws).type # "input"
    BY Messages DEF Types, TypeGo, Resize
  <2> QED BY <1>4, <1>7, <2>1 DEF ResizeSend
<1>8. CASE HandleMessage
  <2>1. /\ Len(up) \in Nat \ {0} /\ Head(up) = up[1] /\ up[1] \in MessageUp
        /\ Len(up') = Len(up) - 1 /\ \A i \in 1 .. Len(up') : up'[i] = up[i + 1]
    BY <1>8, HeadUp DEF Types
  <2>2. \A i \in 1 .. Len(up') : up'[i].type = "input" => Plain(up'[i].data)
    BY <2>1 DEF KeyInv
  <2>3. Plain(got')
    <3>1. CASE up[1].type = "input" /\ ~readOnly
      <4> DEFINE x == up[1].data
      <4>1. x \in Seq(Key) /\ got \in Seq(Key)
        BY <2>1, <3>1 DEF MessageUp, Types, TypeGot
      <4>2. Plain(x) /\ Plain(got) BY <2>1, <3>1 DEF KeyInv
      <4>3. got' = got \o x BY <1>8, <2>1, <3>1 DEF HandleMessage
      <4> HIDE DEF x
      <4> QED BY <4>1, <4>2, <4>3 DEF Plain
    <3>2. CASE ~(up[1].type = "input" /\ ~readOnly)
      BY <1>8, <2>1, <3>2 DEF HandleMessage, KeyInv
    <3> QED BY <3>1, <3>2
  <2>4. oneForm' = oneForm /\ data' = data BY <1>8 DEF HandleMessage
  <2> QED BY <2>2, <2>3, <2>4 DEF KeyInv, Plain, OneForm, Whole
<1> QED
  BY <1>1, <1>2, <1>3, <1>5, <1>6, <1>7, <1>8 DEF Next, InputStep, ResizeStep

LEMMA InputGiven ==
  ASSUME Types, InputOrder
  PROVE  IsPrefix(got, IF readOnly THEN <<>> ELSE readLog)
<1>1. got \in Seq(Key) /\ readLog \in Seq(Key) BY DEF Types, TypeGot, TypeGo
<1>2. CASE readOnly
  <2>1. got = <<>> BY <1>2 DEF InputOrder
  <2> QED BY <1>2, <2>1 DEF IsPrefix
<1>3. CASE ~readOnly
  <2>1. Len(got) <= Len(readLog) /\ \A i \in 1 .. Len(got) : got[i] = readLog[i]
    BY <1>1, LenProperties DEF InputOrder, PieceAt
  <2> QED BY <1>1, <1>3, <2>1, Prefix
<1> QED BY <1>2, <1>3

\* By the time the daemon reads the Detach it has all that comes before the key.
LEMMA InputBefore ==
  ASSUME Types, InputOrder, DetachLast, up # <<>>, Head(up).type = "detach", ~readOnly
  PROVE  Len(got) = Len(readLog) - Len(data) + findDetach(data)
<1>1. up \in Seq(MessageUp) /\ up # <<>> BY DEF Types, TypeUp
<1>2. Len(up) \in Nat \ {0} /\ Head(up) = up[1] BY <1>1
<1>3. /\ readLog \in Seq(Key) /\ data \in Seq(Key) /\ Len(readLog) \in Nat /\ Len(data) \in Nat
      /\ got \in Seq(Key) /\ Len(got) \in Nat /\ findDetach(data) \in Int
  BY LenProperties, SentPrefix DEF Types, TypeGo, TypeGot
<1>4. closed /\ Len(up) = 1
  <2>1. 1 \in 1 .. Len(up) /\ up[1].type = "detach" BY <1>2
  <2> QED BY <2>1, Zenon DEF DetachLast
<1>5. PICK e \in 0 .. Len(readLog) : Chain(readLog, up, Len(got), e) /\ SentUpTo(e)
  BY DEF InputOrder
<1>6. e = Len(got)
  <2>1. up[1].type # "input" BY <1>2
  <2>2. PICK b \in [1 .. Len(up) + 1 -> 0 .. Len(readLog)] :
          /\ b[1] = Len(got) /\ b[Len(up) + 1] = e
          /\ \A i \in 1 .. Len(up) : up[i].type # "input" => b[i + 1] = b[i]
    BY <1>5 DEF Chain
  <2> QED BY <1>4, <2>1, <2>2
<1>7. e + Len(data) = Len(readLog) + findDetach(data) BY <1>4, <1>5 DEF SentUpTo
<1> QED BY <1>3, <1>6, <1>7

LEMMA InputInvariant == Spec => [](Types /\ InputOrder /\ DetachLast)
<1>1. Init => InputOrder /\ DetachLast
  <2>1. Init => DetachLast BY DEF Init, DetachLast
  <2> QED BY <2>1, InputInit
<1>2. Types /\ (InputOrder /\ DetachLast) /\ [Next]_vars => (InputOrder /\ DetachLast)'
  BY InputStepOrder, LastStep
<1> QED BY <1>1, <1>2, ClientInvariant, PTL DEF Spec

\* What the session is given is what forwardHostInput has read, in order and
\* from the first key on, wherever a read ends: nothing that follows a detach
\* key, never its raw byte, and all that goes before it by the time the daemon
\* reads the Detach; nothing of a CSI form as long as each read has one form of
\* the key at most and cuts none; and nothing of a read-only client.
THEOREM ClientInputUpToDetach == Spec => []InputUpToDetach
<1>1. Init => KeyInv
  <2>1. OneForm(<<>>) BY DEF OneForm, Whole
  <2> QED BY <2>1 DEF Init, KeyInv, Plain
<1>2. Types /\ KeyInv /\ [Next]_vars => KeyInv' BY KeyStep
<1>3. Types /\ InputOrder /\ DetachLast /\ KeyInv => InputUpToDetach
  BY InputGiven, InputBefore DEF KeyInv, Plain, InputUpToDetach
<1> QED BY <1>1, <1>2, <1>3, InputInvariant, PTL DEF Spec
=============================================================================
