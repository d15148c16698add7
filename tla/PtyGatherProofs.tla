--------------------------- MODULE PtyGatherProofs ---------------------------
(***************************************************************************)
(* Proofs about PtyGather for every size of read, batch and channel.       *)
(***************************************************************************)
EXTENDS PtyGather, SequenceTheorems, TLAPS

-----------------------------------------------------------------------------
\* The inductive invariant

\* Sent bytes, open batch, left-over and offered data follow each other.
Chain ==
  /\ Follows(sent, 0)
  /\ Follows(batch, Len(sent))
  /\ Follows(pending, Len(sent) + Len(batch))
  /\ Follows(rbuf, Len(sent) + Len(batch) + Len(pending))

\* They add up to what was read as long as readPTY reads.
Account ==
  (rpc \in {"read", "offer"} \/ ~done)
    => Len(sent) + Len(batch) + Len(pending) + Len(rbuf) = got

\* What each place of the two goroutines says of their data.
Shape ==
  /\ rpc = "offer" <=> rbuf # <<>>
  /\ gpc = "first" => batch = <<>>
  /\ gpc \in {"small", "gather", "send"} => batch # <<>>
  /\ Len(batch) <= BatchSize
  /\ gpc \in {"small", "gather"} => (pending = <<>> \/ Len(batch) = BatchSize)
  /\ sawClose => rpc = "ended"
  /\ (gpc = "closed" /\ ~done) => rpc = "ended" /\ batch = <<>> /\ pending = <<>>

Inv == TypeOK /\ Chain /\ Account /\ Shape /\ BatchFits

-----------------------------------------------------------------------------
\* Pieces of output: what cutting and joining does

\* Arithmetic.
LEMMA Regroup ==
  ASSUME NEW a \in Nat, NEW b \in Nat, NEW c \in Nat, NEW d \in Nat, b + c = d
  PROVE  a + b + c = a + d
  OBVIOUS

\* Front and Rest split a chunk without loss.
LEMMA FrontRest ==
  ASSUME NEW s \in Seq(Nat), NEW m \in Nat, NEW n \in 0 .. Len(s), Follows(s, m)
  PROVE  /\ Front(s, n) \in Seq(Nat) /\ Len(Front(s, n)) = n
         /\ Follows(Front(s, n), m)
         /\ Rest(s, n) \in Seq(Nat) /\ Len(Rest(s, n)) = Len(s) - n
         /\ Follows(Rest(s, n), m + n)
<1>1. /\ Front(s, n) \in Seq(Nat) /\ Len(Front(s, n)) = n
      /\ \A i \in 1 .. n : Front(s, n)[i] = s[i]
  BY SubSeqProperties DEF Front
<1>2. /\ Rest(s, n) \in Seq(Nat) /\ Len(Rest(s, n)) = Len(s) - n
      /\ \A i \in 1 .. Len(s) - n : Rest(s, n)[i] = s[n + i]
  BY SubSeqProperties DEF Rest
<1>3. Follows(Front(s, n), m)
  <2>1. SUFFICES ASSUME NEW i \in 1 .. n PROVE Front(s, n)[i] = m + i
    BY <1>1 DEF Follows
  <2>2. QED
    BY <1>1, i \in 1 .. Len(s) DEF Follows
<1>4. Follows(Rest(s, n), m + n)
  <2>1. SUFFICES ASSUME NEW i \in 1 .. Len(s) - n PROVE Rest(s, n)[i] = m + n + i
    BY <1>2 DEF Follows
  <2>2. QED
    BY <1>2, n + i \in 1 .. Len(s) DEF Follows
<1>5. QED
  BY <1>1, <1>2, <1>3, <1>4

\* An empty chunk follows anything.
LEMMA EmptyFollows ==
  /\ <<>> \in Seq(Nat) /\ <<>> \in Seq(Seq(Nat)) /\ Len(<<>>) = 0
  /\ \A m : Follows(<<>>, m)
  BY DEF Follows

\* Two chunks that follow each other make one.
LEMMA JoinFollows ==
  ASSUME NEW s \in Seq(Nat), NEW t \in Seq(Nat), NEW m \in Nat,
         Follows(s, m), Follows(t, m + Len(s))
  PROVE  /\ s \o t \in Seq(Nat) /\ Len(s \o t) = Len(s) + Len(t)
         /\ Follows(s \o t, m)
  BY DEF Follows

-----------------------------------------------------------------------------
\* Every step preserves the invariant

\* What a step that opens a batch from a non-empty piece x does.
LEMMA BeginEffect ==
  ASSUME NEW x \in Seq(Nat), x # <<>>, NEW m \in Nat, Follows(x, m), Begin(x)
  PROVE  /\ batch' \in Seq(Nat) /\ pending' \in Seq(Nat)
         /\ batch' # <<>> /\ Len(batch') <= BatchSize
         /\ Len(batch') + Len(pending') = Len(x)
         /\ Follows(batch', m) /\ Follows(pending', m + Len(batch'))
         /\ gpc' \in {"small", "gather"}
         /\ pending' = <<>> \/ Len(batch') = BatchSize
<1>1. CASE Len(x) > BatchSize
  <2>1. BatchSize \in 0 .. Len(x)
    BY <1>1, GatherAssumption
  <2>2. batch' = Front(x, BatchSize) /\ pending' = Rest(x, BatchSize)
    BY <1>1 DEF Begin
  <2>3. /\ batch' \in Seq(Nat) /\ Len(batch') = BatchSize /\ Follows(batch', m)
        /\ pending' \in Seq(Nat) /\ Len(pending') = Len(x) - BatchSize
        /\ Follows(pending', m + BatchSize)
    BY <2>1, <2>2, FrontRest
  <2>4. batch' # <<>> /\ Len(batch') + Len(pending') = Len(x)
    BY <2>3, GatherAssumption
  <2>5. gpc' \in {"small", "gather"}
    BY DEF Begin
  <2>6. QED
    BY <2>3, <2>4, <2>5, GatherAssumption
<1>2. CASE ~(Len(x) > BatchSize)
  <2>1. batch' = x /\ pending' = <<>>
    BY <1>2 DEF Begin
  <2>2. QED
    BY <2>1, <1>2, GatherAssumption, EmptyFollows DEF Begin
<1>3. QED
  BY <1>1, <1>2

\* What a step that adds a non-empty piece x to the open batch does.
LEMMA TakeEffect ==
  ASSUME NEW x \in Seq(Nat), NEW m \in Nat, TypeOK, Len(batch) < BatchSize,
         pending = <<>>, batch # <<>>, gpc = "gather",
         Follows(batch, m), Follows(x, m + Len(batch)), Take(x)
  PROVE  /\ batch' \in Seq(Nat) /\ pending' \in Seq(Nat)
         /\ batch' # <<>> /\ Len(batch') <= BatchSize
         /\ Len(batch') + Len(pending') = Len(batch) + Len(x)
         /\ Follows(batch', m) /\ Follows(pending', m + Len(batch'))
         /\ gpc' \in {gpc, "send"}
         /\ gpc' = gpc => pending' = <<>>
<1> DEFINE room == BatchSize - Len(batch)
<1>0. batch \in Seq(Nat) /\ room \in Nat /\ Len(batch) > 0
  BY GatherAssumption DEF TypeOK
<1>1. CASE Len(x) > room
  <2>1. room \in 0 .. Len(x)
    BY <1>0, <1>1
  <2>2. batch' = batch \o Front(x, room) /\ pending' = Rest(x, room) /\ gpc' = "send"
    BY <1>1 DEF Take
  <2>3. /\ Front(x, room) \in Seq(Nat) /\ Len(Front(x, room)) = room
        /\ Follows(Front(x, room), m + Len(batch))
        /\ Rest(x, room) \in Seq(Nat) /\ Len(Rest(x, room)) = Len(x) - room
        /\ Follows(Rest(x, room), m + Len(batch) + room)
    BY <2>1, <1>0, FrontRest
  <2>4. /\ batch' \in Seq(Nat) /\ Len(batch') = Len(batch) + room
        /\ Follows(batch', m)
    <3> DEFINE front == Front(x, room)
    <3>1. /\ front \in Seq(Nat) /\ Len(front) = room
          /\ Follows(front, m + Len(batch)) /\ batch' = batch \o front
      BY <2>2, <2>3
    <3> HIDE DEF front
    <3>2. /\ batch \o front \in Seq(Nat)
          /\ Len(batch \o front) = Len(batch) + Len(front)
          /\ Follows(batch \o front, m)
      BY <3>1, <1>0, JoinFollows
    <3>3. QED
      BY <3>1, <3>2
  <2>5. /\ Len(batch') = BatchSize /\ batch' # <<>>
        /\ m + Len(batch) + room = m + Len(batch')
        /\ Len(batch') + Len(pending') = Len(batch) + Len(x)
    <3>1. Len(batch') = BatchSize /\ Len(pending') = Len(x) - room
      BY <2>2, <2>3, <2>4, <1>0, GatherAssumption
    <3>2. QED
      BY <3>1, <2>4, <1>0, GatherAssumption
  <2>6. Follows(pending', m + Len(batch'))
    BY <2>2, <2>3, <2>5
  <2>7. gpc' # gpc
    BY <2>2
  <2>8. QED
    BY <2>2, <2>3, <2>4, <2>5, <2>6, <2>7, GatherAssumption
<1>2. CASE ~(Len(x) > room)
  <2>1. batch' = batch \o x /\ pending' = <<>> /\ gpc' = gpc
    BY <1>2 DEF Take
  <2>2. /\ batch' \in Seq(Nat) /\ Len(batch') = Len(batch) + Len(x)
        /\ Follows(batch', m)
    BY <2>1, <1>0, JoinFollows
  <2>3. QED
    BY <2>1, <2>2, <1>0, <1>2, GatherAssumption, EmptyFollows
<1>3. QED
  BY <1>1, <1>2

\* A new session satisfies the invariant.
LEMMA InitInv == Init => Inv
<1> SUFFICES ASSUME Init PROVE Inv
  OBVIOUS
<1> USE GatherAssumption, EmptyFollows DEF Init
<1>1. TypeOK
  <2>1. batches \in Seq(Seq(Nat)) /\ Len(batches) <= PtyCap
    OBVIOUS
  <2>2. QED
    BY <2>1 DEF TypeOK
<1>2. Chain
  BY DEF Chain
<1>3. Account /\ Shape /\ BatchFits
  BY DEF Account, Shape, BatchFits
<1>4. QED
  BY <1>1, <1>2, <1>3 DEF Inv

\* Every step, and every stuttering step, preserves the invariant.
LEMMA NextInv == Inv /\ [Next]_vars => Inv'
<1> SUFFICES ASSUME Inv, [Next]_vars PROVE Inv'
  OBVIOUS
<1> USE GatherAssumption, EmptyFollows DEF Inv
<1>1. ASSUME NEW n \in 1 .. ReadSize, PtmxRead(n) PROVE Inv'
  <2>1. /\ rbuf' \in Seq(Nat) /\ Len(rbuf') = n /\ \A i \in 1 .. n : rbuf'[i] = got + i
    BY <1>1 DEF PtmxRead, TypeOK
  <2>2. rbuf = <<>> /\ Len(sent) + Len(batch) + Len(pending) = got
    BY <1>1 DEF PtmxRead, Account, Shape, TypeOK
  <2>3. Follows(rbuf', got)
    BY <2>1 DEF Follows
  <2>4. QED
    <3>1. TypeOK'
      BY <1>1, <2>1 DEF PtmxRead, gVars, TypeOK
    <3>2. Chain'
      BY <1>1, <2>2, <2>3 DEF PtmxRead, gVars, Chain
    <3>3. Account'
      BY <1>1, <2>1, <2>2 DEF PtmxRead, gVars, Account, TypeOK
    <3>4. rbuf' # <<>> /\ rpc' = "offer" /\ rpc = "read"
      BY <1>1, <2>1 DEF PtmxRead
    <3>5. Shape'
      BY <1>1, <3>4 DEF PtmxRead, gVars, Shape
    <3>6. BatchFits'
      BY <1>1 DEF PtmxRead, BatchFits
    <3>7. QED
      BY <3>1, <3>2, <3>3, <3>5, <3>6
<1>2. CASE ReadEnd
  BY <1>2 DEF ReadEnd, gVars, TypeOK, Chain, Account, Shape, BatchFits
<1>3. CASE Reap
  BY <1>3 DEF Reap, gVars, TypeOK, Chain, Account, Shape, BatchFits, Follows
<1>4. CASE First
  <2>1. /\ rbuf \in Seq(Nat) /\ rbuf # <<>> /\ Len(sent) \in Nat
        /\ batch = <<>> /\ pending = <<>> /\ Follows(rbuf, Len(sent)) /\ Begin(rbuf)
    BY <1>4 DEF First, TypeOK, Shape, Chain
  <2>2. /\ batch' \in Seq(Nat) /\ pending' \in Seq(Nat)
        /\ batch' # <<>> /\ Len(batch') <= BatchSize
        /\ Len(batch') + Len(pending') = Len(rbuf)
        /\ Follows(batch', Len(sent)) /\ Follows(pending', Len(sent) + Len(batch'))
        /\ gpc' \in {"small", "gather"}
        /\ pending' = <<>> \/ Len(batch') = BatchSize
    BY <2>1, BeginEffect
  <2>3. Len(sent) + Len(rbuf) = got
    BY <1>4, <2>1 DEF First, Account, TypeOK
  <2>4. QED
    <3>1. TypeOK'
      BY <1>4, <2>2 DEF First, Received, TypeOK
    <3>2. Chain'
      BY <1>4, <2>1, <2>2, <2>3 DEF First, Received, Chain
    <3>3. Account'
      <4>1. rbuf' = <<>> /\ got' = got /\ sent' = sent
        BY <1>4 DEF First, Received
      <4>2. /\ Len(batch') \in Nat /\ Len(pending') \in Nat
            /\ Len(batch') + Len(pending') = Len(rbuf)
        BY <2>2
      <4>3. Len(sent) + Len(batch') + Len(pending') = got
        <5>1. Len(sent) \in Nat /\ Len(rbuf) \in Nat
          BY DEF TypeOK
        <5>2. Len(sent) + Len(batch') + Len(pending') = Len(sent) + Len(rbuf)
          BY <4>2, <5>1, Regroup
        <5>3. QED
          BY <5>2, <2>3
      <4>4. QED
        BY <4>1, <4>2, <4>3 DEF Account
    <3>4. Shape' /\ BatchFits'
      BY <1>4, <2>1, <2>2, <2>3 DEF First, Received, Shape, BatchFits, TypeOK
    <3>5. QED
      BY <3>1, <3>2, <3>3, <3>4
<1>5. CASE FirstPending
  <2>1. /\ pending \in Seq(Nat) /\ pending # <<>> /\ Len(sent) \in Nat
        /\ batch = <<>> /\ Follows(pending, Len(sent)) /\ Begin(pending)
    BY <1>5 DEF FirstPending, TypeOK, Shape, Chain
  <2>2. /\ batch' \in Seq(Nat) /\ pending' \in Seq(Nat)
        /\ batch' # <<>> /\ Len(batch') <= BatchSize
        /\ Len(batch') + Len(pending') = Len(pending)
        /\ Follows(batch', Len(sent)) /\ Follows(pending', Len(sent) + Len(batch'))
        /\ gpc' \in {"small", "gather"}
        /\ pending' = <<>> \/ Len(batch') = BatchSize
    BY <2>1, BeginEffect
  <2>3. QED
    <3>1. TypeOK'
      BY <1>5, <2>2 DEF FirstPending, rVars, TypeOK
    <3>2. Chain'
      <4>0. /\ Len(batch') \in Nat /\ Len(pending') \in Nat /\ Len(pending) \in Nat
            /\ Len(batch) = 0 /\ Len(batch') + Len(pending') = Len(pending)
        BY <2>1, <2>2
      <4>1. Len(sent) + Len(batch') + Len(pending') = Len(sent) + Len(batch) + Len(pending)
        BY <4>0, <2>1
      <4>2. QED
        BY <1>5, <2>2, <4>1 DEF FirstPending, rVars, Chain
    <3>3. Account'
      <4>0. /\ Len(batch') \in Nat /\ Len(pending') \in Nat /\ Len(pending) \in Nat
            /\ Len(batch) = 0 /\ Len(batch') + Len(pending') = Len(pending)
        BY <2>1, <2>2
      <4>1. Len(sent) + Len(batch') + Len(pending') = Len(sent) + Len(batch) + Len(pending)
        BY <4>0, <2>1
      <4>2. QED
        BY <1>5, <4>1 DEF FirstPending, rVars, Account
    <3>4. Shape' /\ BatchFits'
      BY <1>5, <2>1, <2>2 DEF FirstPending, rVars, Shape, BatchFits, TypeOK
    <3>5. QED
      BY <3>1, <3>2, <3>3, <3>4
<1>6. CASE GatherMore
  <2>1. /\ rbuf \in Seq(Nat) /\ rbuf # <<>> /\ Len(sent) \in Nat
        /\ batch # <<>> /\ pending = <<>> /\ Len(batch) < BatchSize
        /\ Follows(batch, Len(sent)) /\ Follows(rbuf, Len(sent) + Len(batch))
        /\ Take(rbuf) /\ gpc = "gather"
    BY <1>6 DEF GatherMore, Gathering, TypeOK, Shape, Chain
  <2>2. /\ batch' \in Seq(Nat) /\ pending' \in Seq(Nat)
        /\ batch' # <<>> /\ Len(batch') <= BatchSize
        /\ Len(batch') + Len(pending') = Len(batch) + Len(rbuf)
        /\ Follows(batch', Len(sent)) /\ Follows(pending', Len(sent) + Len(batch'))
        /\ gpc' \in {gpc, "send"}
        /\ gpc' = gpc => pending' = <<>>
    BY <2>1, TakeEffect
  <2>3. Len(sent) + Len(batch) + Len(rbuf) = got
    BY <1>6, <2>1 DEF GatherMore, Account, TypeOK
  <2>4. QED
    <3>1. TypeOK'
      BY <1>6, <2>2 DEF GatherMore, Received, TypeOK
    <3>2. Chain'
      BY <1>6, <2>1, <2>2, <2>3 DEF GatherMore, Received, Chain
    <3>3. Account'
      <4>1. rbuf' = <<>> /\ got' = got /\ sent' = sent
        BY <1>6 DEF GatherMore, Received
      <4>2. /\ Len(batch') \in Nat /\ Len(pending') \in Nat
            /\ Len(batch') + Len(pending') = Len(batch) + Len(rbuf)
        BY <2>2
      <4>3. Len(sent) + Len(batch') + Len(pending') = got
        <5>1. Len(sent) \in Nat /\ Len(batch) \in Nat /\ Len(rbuf) \in Nat
          BY DEF TypeOK
        <5>2. Len(sent) + Len(batch') + Len(pending') = Len(sent) + (Len(batch) + Len(rbuf))
          BY <4>2, <5>1, Regroup
        <5>3. QED
          BY <5>1, <5>2, <2>3
      <4>4. QED
        BY <4>1, <4>2, <4>3 DEF Account
    <3>4. Shape' /\ BatchFits'
      BY <1>6, <2>1, <2>2, <2>3 DEF GatherMore, Received, Shape, BatchFits, TypeOK
    <3>5. QED
      BY <3>1, <3>2, <3>3, <3>4
<1>7. CASE GatherSawClose
  BY <1>7 DEF GatherSawClose, Gathering, rVars, TypeOK, Chain, Account, Shape,
              BatchFits, Follows
<1>8. CASE GatherStop
  BY <1>8 DEF GatherStop, rVars, TypeOK, Chain, Account, Shape, BatchFits, Follows
<1>9. CASE Send
  <2>1. /\ sent' \in Seq(Nat) /\ Len(sent') = Len(sent) + Len(batch)
        /\ Follows(sent', 0)
    BY <1>9, JoinFollows DEF Send, TypeOK, Chain
  <2>2. Len(batch) \in 1 .. BatchSize
    BY <1>9 DEF Send, TypeOK, Shape
  <2>3. BatchFits' /\ batches' \in Seq(Seq(Nat)) /\ Len(batches') <= PtyCap
    BY <1>9, <2>2 DEF Send, HasRoom, TypeOK, BatchFits
  <2>4. /\ batch' = <<>> /\ gpc' = "first" /\ Len(batch') = 0
        /\ UNCHANGED <<got, rpc, rbuf, pending, sawClose, done>>
    BY <1>9 DEF Send, rVars
  <2>5. TypeOK'
    BY <2>1, <2>3, <2>4 DEF TypeOK
  <2>6. Chain'
    <3>1. Len(sent) \in Nat /\ Len(batch) \in Nat
      BY DEF TypeOK
    <3>2. Len(sent') + Len(batch') = Len(sent) + Len(batch)
      BY <2>1, <2>4, <3>1
    <3>3. Follows(batch', Len(sent'))
      BY <2>4 DEF Follows
    <3>4. QED
      BY <2>1, <2>4, <3>2, <3>3 DEF Chain
  <2>7. Account' /\ Shape'
    BY <1>9, <2>1, <2>4 DEF Send, Account, Shape, TypeOK
  <2>8. QED
    BY <2>3, <2>5, <2>6, <2>7
<1>10. CASE Return
  BY <1>10 DEF Return, AtEnd, rVars, TypeOK, Chain, Account, Shape, BatchFits,
               Follows
<1>11. CASE Accept
  <2>1. BatchFits' /\ batches' \in Seq(Seq(Nat)) /\ Len(batches') <= PtyCap
    BY <1>11 DEF Accept, TypeOK, BatchFits
  <2>2. QED
    BY <1>11, <2>1 DEF Accept, rVars, gVars, TypeOK, Chain, Account, Shape, Follows
<1>12. CASE RunEnds
  BY <1>12 DEF RunEnds, rVars, gVars, TypeOK, Chain, Account, Shape, BatchFits,
               Follows
<1>13. CASE UNCHANGED vars
  BY <1>13 DEF vars, rVars, gVars, TypeOK, Chain, Account, Shape, BatchFits,
               Follows
<1>14. QED
  BY <1>1, <1>2, <1>3, <1>4, <1>5, <1>6, <1>7, <1>8, <1>9, <1>10, <1>11, <1>12,
     <1>13 DEF Next, GatherNext

-----------------------------------------------------------------------------

\* The gather stage always satisfies the invariant.
THEOREM GatherInvariant == Spec => []Inv
  BY InitInv, NextInv, PTL DEF Spec

\* The reader, the gatherer and the channel between them stay within their
\* types, the channel within its capacity, for every limit (readPTYOutput).
THEOREM GatherTypeOK == Spec => []TypeOK
<1>1. Inv => TypeOK BY DEF Inv
<1> QED BY <1>1, GatherInvariant, PTL

\* However the PTY is read and batched, run() is sent the output from its first
\* byte on, without a gap or a repetition (gatherPTYReads).
THEOREM GatherInOrder == Spec => []InOrder
<1>1. Inv => InOrder
  BY DEF Inv, Chain, InOrder
<1>2. QED
  BY <1>1, GatherInvariant, PTL

\* No byte read from the PTY is lost while the session runs.
THEOREM GatherLossless == Spec => []Lossless
<1>1. Inv => Lossless
  BY DEF Inv, Account, Lossless
<1>2. QED
  BY <1>1, GatherInvariant, PTL

\* Every batch fits the pool buffer run() copies it into, and none is empty.
THEOREM GatherBatchFits == Spec => []BatchFits
<1>1. Inv => BatchFits
  BY DEF Inv
<1>2. QED
  BY <1>1, GatherInvariant, PTL

\* The channel is closed only after the last byte and after the child was
\* reaped, unless the session ended first.
THEOREM GatherClosedLast == Spec => []ClosedLast
<1>1. Inv => ClosedLast
  BY DEF Inv, TypeOK, Shape, Account, ClosedLast
<1>2. QED
  BY <1>1, GatherInvariant, PTL
=============================================================================
