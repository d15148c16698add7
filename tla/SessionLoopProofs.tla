--------------------------- MODULE SessionLoopProofs ---------------------------
(***************************************************************************)
(* The safety of SessionLoop, for any number of connections, any capacity  *)
(* of the channels and any amount of output.                               *)
(*                                                                         *)
(* First what applyResizePolicy returns for every non-empty set of         *)
(* clients.  Then the types: what every helper returns, and one step per   *)
(* action.  TypeOK is not inductive alone: that Attached fits into a fresh *)
(* channel needs Unused and AttachOnce, and that the policies give a size  *)
(* at all needs IdBound.  Then one lemma for each other part of the        *)
(* inductive invariant IInv of SessionLoopInv.  A frame lemma says which   *)
(* steps can disturb the part; each of these is one step of the proof.     *)
(* At last, that SessionLoop implements SessionView.                       *)
(***************************************************************************)
EXTENDS SessionLoopInv, WellFoundedInduction, TLAPS

-----------------------------------------------------------------------------
\* The resize policies

\* A non-empty set of naturals has a least element, and Min is it.
LEMMA MinInSet ==
  ASSUME NEW S \in SUBSET Nat, S # {}
  PROVE  Min(S) \in S /\ \A y \in S : Min(S) <= y
<1>1. PICK x \in S : \A y \in S : ~(<<y, x>> \in OpToRel(<, Nat))
  BY NatLessThanWellFounded, WFMin
<1>2. ASSUME NEW y \in S, y < x
      PROVE  <<y, x>> \in OpToRel(<, Nat)
  BY <1>2, Zenon DEF OpToRel
<1>3. \A y \in S : ~(y < x)
  BY <1>1, <1>2, Zenon
<1>4. \A y \in S : x <= y
  BY <1>3
<1>5. QED
  BY <1>4 DEF Min

\* A non-empty bounded set of naturals has a greatest element, and Max is it.
LEMMA MaxInSet ==
  ASSUME NEW n \in Nat, NEW S, S \subseteq 0 .. n, S # {}
  PROVE  Max(S) \in S /\ \A y \in S : y <= Max(S)
<1> DEFINE T == {n - y : y \in S}
<1>1. \A y \in S : y \in Nat /\ n - y \in Nat
  OBVIOUS
<1>2. T \in SUBSET Nat /\ T # {}
  BY <1>1
<1>3. Min(T) \in T /\ \A z \in T : Min(T) <= z
  BY <1>2, MinInSet
<1>4. PICK x \in S : Min(T) = n - x
  BY <1>3
<1>5. ASSUME NEW y \in S
      PROVE  y <= x
  <2>1. n - x <= n - y
    BY <1>3, <1>4
  <2>2. QED
    BY <2>1, <1>1
<1>6. QED
  BY <1>5 DEF Max

\* The largest dimension is a natural number.
LEMMA MaxUint16Nat == MaxUint16 \in Nat
BY SMT DEF MaxUint16

\* The candidate that Joined looks up is there when its number is.
LEMMA JoinedType ==
  ASSUME NEW cand \in SUBSET Candidate, NEW i \in {x.id : x \in cand}
  PROVE  \E x \in cand : x.id = i /\ Joined(cand, i) = x.size
BY DEF Joined

\* Every policy gives a size of the right type, whatever the clients.  The
\* numbers of the clients are bounded by the session's counter.
THEOREM PolicyType ==
  ASSUME NEW policy, NEW n \in Nat,
         NEW cand \in SUBSET Candidate, cand # {},
         \A x \in cand : x.id <= n
  PROVE  applyResizePolicy(policy, cand) \in TermSize
<1> DEFINE Cols == {x.size.cols : x \in cand}
           Rows == {x.size.rows : x \in cand}
           Ids  == {x.id : x \in cand}
<1>1. \A x \in cand : /\ x.id \in 0 .. n /\ x.size \in TermSize
                      /\ x.size.cols \in Uint16 /\ x.size.rows \in Uint16
  BY DEF Candidate, TermSize
<1>2. /\ Cols \subseteq 0 .. MaxUint16 /\ Cols # {}
      /\ Rows \subseteq 0 .. MaxUint16 /\ Rows # {}
      /\ Ids \subseteq 0 .. n /\ Ids # {}
  BY <1>1 DEF Uint16
<1>3. \A S : S \subseteq 0 .. MaxUint16 /\ S # {} =>
        Max(S) \in 0 .. MaxUint16 /\ Min(S) \in 0 .. MaxUint16
  <2>1. SUFFICES ASSUME NEW S, S \subseteq 0 .. MaxUint16, S # {}
                 PROVE  Max(S) \in 0 .. MaxUint16 /\ Min(S) \in 0 .. MaxUint16
    OBVIOUS
  <2>2. S \in SUBSET Nat
    BY <2>1, MaxUint16Nat
  <2>3. Max(S) \in S
    BY <2>1, MaxInSet, MaxUint16Nat
  <2>4. Min(S) \in S
    BY <2>1, <2>2, MinInSet
  <2>5. QED
    BY <2>1, <2>3, <2>4
<1>4. Max(Ids) \in Ids
  BY <1>2, MaxInSet
<1>5. Min(Ids) \in Ids
  <2>1. Ids \in SUBSET Nat
    BY <1>2
  <2>2. QED
    BY <1>2, <2>1, MinInSet
<1>6. \A i \in Ids : Joined(cand, i) \in TermSize
  BY <1>1, JoinedType
<1>7. CASE policy = "largest"
  BY <1>2, <1>3, <1>7 DEF applyResizePolicy, TermSize, Uint16
<1>8. CASE policy = "last"
  BY <1>4, <1>6, <1>8 DEF applyResizePolicy
<1>9. CASE policy = "first"
  BY <1>5, <1>6, <1>9 DEF applyResizePolicy
<1>10. CASE policy \notin {"largest", "last", "first"}
  BY <1>2, <1>3, <1>10 DEF applyResizePolicy, TermSize, Uint16
<1>11. QED
  BY <1>7, <1>8, <1>9, <1>10

\* The policy "smallest" (and any unknown one) gives a size that fits on the
\* terminal of every client, and each dimension of it is that of some client.
THEOREM SmallestFits ==
  ASSUME NEW policy, policy \notin {"largest", "last", "first"},
         NEW cand \in SUBSET Candidate, NEW x \in cand
  PROVE  /\ applyResizePolicy(policy, cand).cols <= x.size.cols
         /\ applyResizePolicy(policy, cand).rows <= x.size.rows
         /\ \E y \in cand : applyResizePolicy(policy, cand).cols = y.size.cols
         /\ \E y \in cand : applyResizePolicy(policy, cand).rows = y.size.rows
<1> DEFINE Cols == {y.size.cols : y \in cand}
           Rows == {y.size.rows : y \in cand}
<1>1. \A y \in cand : y.size.cols \in Nat /\ y.size.rows \in Nat
  BY MaxUint16Nat DEF Candidate, TermSize, Uint16
<1>2. /\ Cols \in SUBSET Nat /\ x.size.cols \in Cols
      /\ Rows \in SUBSET Nat /\ x.size.rows \in Rows
  BY <1>1
<1>3. Min(Cols) \in Cols /\ Min(Cols) <= x.size.cols
  BY <1>2, MinInSet
<1>4. Min(Rows) \in Rows /\ Min(Rows) <= x.size.rows
  BY <1>2, MinInSet
<1>5. applyResizePolicy(policy, cand) = [cols |-> Min(Cols), rows |-> Min(Rows)]
  BY DEF applyResizePolicy
<1>6. /\ \E y \in cand : Min(Cols) = y.size.cols
      /\ \E y \in cand : Min(Rows) = y.size.rows
  BY <1>3, <1>4
<1> HIDE DEF Cols, Rows
<1>7. QED
  BY <1>3, <1>4, <1>5, <1>6

-----------------------------------------------------------------------------
\* Types

\* The messages run() makes are messages.
LEMMA MessageType ==
  /\ ClientsChanged \in Message
  /\ \A k \in Nat : Output(k) \in Message
  /\ \A s \in Seq(Nat) : Attached(s) \in Message
BY DEF ClientsChanged, Output, Attached, Message

\* A message sent on a channel with room respects its capacity.
LEMMA AppendType ==
  ASSUME NEW q \in Seq(Message), NEW m \in Message, Len(q) < OutCap
  PROVE  Append(q, m) \in Seq(Message) /\ Len(Append(q, m)) <= OutCap
BY SessionAssumption

\* notifyClientsChanged respects the capacity of every channel.
LEMMA NotifiedType ==
  ASSUME NEW out, ChanType(out), NEW S
  PROVE  ChanType(Notified(out, S))
<1>1. \A c \in Conn : /\ Notified(out, S)[c] \in Seq(Message)
                      /\ Len(Notified(out, S)[c]) <= OutCap
  BY AppendType, MessageType DEF Notified, ChanType
<1>2. QED
  BY <1>1 DEF Notified, ChanType

\* So does queueOutput.
LEMMA QueuedType ==
  ASSUME ChanType(outCh), NEW S, NEW k \in Nat
  PROVE  ChanType(Queued(S, k))
<1>1. \A c \in Conn : /\ Queued(S, k)[c] \in Seq(Message)
                      /\ Len(Queued(S, k)[c]) <= OutCap
  BY AppendType, MessageType DEF Queued, HasRoom, ChanType
<1>2. QED
  BY <1>1 DEF Queued, ChanType

\* Counting the closes of some channels keeps the counters natural.
LEMMA ClosedType ==
  ASSUME closes \in [Conn -> Nat], NEW S
  PROVE  Closed(S) \in [Conn -> Nat]
BY DEF Closed

\* The fields of a session action, by its type.
LEMMA ActionFields ==
  ASSUME NEW a \in SessionAction
  PROVE  /\ a.type = "attach" =>
              a.conn \in Conn /\ a.size \in Sizes /\ a.readOnly \in BOOLEAN
         /\ a.type = "resize" => a.conn \in Conn /\ a.size \in Sizes
         /\ a.type = "detach" => a.conn \in Conn
         /\ a.type = "kick" => a.id \in Nat
BY DEF SessionAction

\* The session actions that the callers make.
LEMMA ActionTypes ==
  /\ \A c \in Conn, sz \in Sizes, ro \in BOOLEAN :
       [type |-> "attach", conn |-> c, size |-> sz, readOnly |-> ro]
         \in SessionAction
  /\ \A c \in Conn, sz \in Sizes :
       [type |-> "resize", conn |-> c, size |-> sz] \in SessionAction
  /\ \A c \in Conn : [type |-> "detach", conn |-> c] \in SessionAction
  /\ \A k \in Nat : [type |-> "kick", id |-> k] \in SessionAction
  /\ [type |-> "info"] \in SessionAction /\ Stop \in SessionAction
BY DEF SessionAction, Stop

\* A send on actions waits for room.
LEMMA SendType ==
  ASSUME actions \in Seq(SessionAction), Len(actions) <= ActCap,
         NEW a \in SessionAction, SendAction(a)
  PROVE  actions' \in Seq(SessionAction) /\ Len(actions') <= ActCap
BY SessionAssumption DEF SendAction

\* collectClientSizes makes candidates whose numbers were given out.
LEMMA CollectedType ==
  ASSUME id \in [Conn -> Nat], IdBound, nextClientID \in Nat,
         NEW S \in SUBSET Conn, NEW sizes \in [Conn -> Sizes]
  PROVE  /\ collectClientSizes(S, sizes) \in SUBSET Candidate
         /\ \A x \in collectClientSizes(S, sizes) : x.id <= nextClientID
<1>1. \A c \in Conn : /\ [id |-> id[c], size |-> sizes[c]] \in Candidate
                      /\ id[c] <= nextClientID
  BY SessionAssumption DEF Candidate, IdBound
<1>2. QED
  BY <1>1 DEF collectClientSizes

\* arbitrateResize leaves a proper size.
LEMMA ArbitrateType ==
  ASSUME id \in [Conn -> Nat], IdBound, nextClientID \in Nat, size \in TermSize,
         NEW S \in SUBSET Conn, NEW sizes \in [Conn -> Sizes]
  PROVE  arbitrateResize(S, sizes) \in TermSize
BY CollectedType, PolicyType DEF arbitrateResize

\* So does resizeForPending.
LEMMA PendingSizeType ==
  ASSUME id \in [Conn -> Nat], IdBound, nextClientID \in Nat,
         clients \in SUBSET Conn, csize \in [Conn -> Sizes], NEW sz \in Sizes
  PROVE  resizeForPending(sz) \in TermSize
<1> DEFINE new == [id |-> nextClientID + 1, size |-> sz]
           all == collectClientSizes(clients, csize) \cup {new}
<1>1. new \in Candidate /\ new.id = nextClientID + 1
  BY SessionAssumption DEF Candidate
<1>2. \A x \in collectClientSizes(clients, csize) :
        x \in Candidate /\ x.id <= nextClientID
  BY CollectedType
<1>3. \A x \in all : x \in Candidate /\ x.id <= nextClientID + 1
  BY <1>1, <1>2 DEF Candidate
<1>4. all \in SUBSET Candidate /\ all # {}
  BY <1>3
<1>5. applyResizePolicy(Policy, all) \in TermSize
  <2>1. nextClientID + 1 \in Nat
    OBVIOUS
  <2>2. QED
    BY <1>3, <1>4, <2>1, PolicyType
<1>6. QED
  BY <1>5 DEF resizeForPending


\* The request that is handled when the dump is taken.
LEMMA AttachTarget ==
  ASSUME TypeOK, Unused, AttachOnce, pc = "attach"
  PROVE  /\ IsAttach(cur) /\ cur \in SessionAction
         /\ cur.conn \in Conn /\ cur.size \in Sizes /\ cur.readOnly \in BOOLEAN
         /\ wpc[cur.conn] = "none" /\ cur.conn \notin clients
         /\ outCh[cur.conn] = <<>> /\ closes[cur.conn] = 0
         /\ hand[cur.conn] = <<>> /\ view[cur.conn] = <<>>
         /\ ~final[cur.conn] /\ ~gotExited[cur.conn]
<1>1. IsAttach(cur) /\ cur \in SessionAction
  BY DEF AttachOnce, TypeOK, TypeRun, IsAttach, None
<1>2. /\ cur.conn \in Conn /\ cur.size \in Sizes /\ cur.readOnly \in BOOLEAN
      /\ wpc[cur.conn] = "none"
  BY <1>1, ActionFields DEF AttachOnce, IsAttach
<1>3. QED
  BY <1>1, <1>2 DEF Unused

\* What pruneFinishedClients does to the types.
LEMMA PruneType ==
  ASSUME TypeOK, pruneFinishedClients
  PROVE  /\ clients' \subseteq Conn /\ pendingClients' \subseteq Conn
         /\ pendingOutput' \in Nat
         /\ closes' \in [Conn -> Nat] /\ ChanType(outCh')
<1>1. /\ clients' \subseteq Conn /\ pendingClients' \subseteq Conn
      /\ pendingOutput' \in Nat
  BY DEF TypeOK, TypeRun, pruneFinishedClients, StillPending
<1>2. closes' \in [Conn -> Nat]
  BY ClosedType DEF TypeOK, TypeChan, pruneFinishedClients
<1>3. ChanType(outCh')
  BY NotifiedType, Zenon DEF TypeOK, TypeChan, pruneFinishedClients
<1>4. QED
  BY <1>1, <1>2, <1>3

\* What a detach or a kick does to the types.
LEMMA LeaveType ==
  ASSUME TypeOK, IdBound, NEW c, Leave(c)
  PROVE  /\ clients' \subseteq Conn /\ pendingClients' \subseteq Conn
         /\ pendingOutput' \in Nat /\ size' \in TermSize
         /\ closes' \in [Conn -> Nat] /\ ChanType(outCh')
<1>1. /\ clients' \subseteq Conn /\ pendingClients' \subseteq Conn
      /\ pendingOutput' \in Nat
  BY DEF TypeOK, TypeRun, Leave
<1>2. closes' \in [Conn -> Nat]
  BY ClosedType DEF TypeOK, TypeChan, Leave
<1>3. ChanType(outCh')
  BY NotifiedType DEF TypeOK, TypeChan, Leave
<1>4. size' \in TermSize
  <2>1. clients \ {c} \in SUBSET Conn
    BY DEF TypeOK, TypeRun
  <2>2. QED
    BY <2>1, ArbitrateType DEF TypeOK, TypeRun, TypeSize, Leave, SizeWithout
<1>5. QED
  BY <1>1, <1>2, <1>3, <1>4


\* A step preserves the types.
LEMMA TypeStep ==
  ASSUME TypeOK, IdBound, Unused, AttachOnce, Next
  PROVE  TypeOK'
<1> USE SessionAssumption
    DEF TypeOK, vars, ptyVars, feedVars, runVars, listVars, loopVars, clientVars,
        ioVars, chanVars, writerVars, envVars, connVars, callVars, closeVars
<1>1. CASE RunEOF
  BY <1>1 DEF RunEOF, TypePty, TypeFeed, TypeRun, TypeActions, TypeSize,
     TypeChan, TypeWriter, TypeEnv, PtyEnabled
<1>2. CASE RunExitCloseFeed
  BY <1>2 DEF RunExitCloseFeed, TypePty, TypeFeed, TypeRun, TypeActions,
     TypeSize, TypeChan, TypeWriter, TypeEnv
<1>3. CASE RunFeed
  BY <1>3 DEF RunFeed, TypePty, TypeFeed, TypeRun, TypeActions, TypeSize,
     TypeChan, TypeWriter, TypeEnv
<1>4. CASE RunAttachFlush
  BY <1>4 DEF RunAttachFlush, TypePty, TypeFeed, TypeRun, TypeActions,
     TypeSize, TypeChan, TypeWriter, TypeEnv
<1>5. CASE RunDetachGone
  BY <1>5 DEF RunDetachGone, TypePty, TypeFeed, TypeRun, TypeActions, TypeSize,
     TypeChan, TypeWriter, TypeEnv
<1>6. CASE RunKickUnknown
  BY <1>6 DEF RunKickUnknown, TypePty, TypeFeed, TypeRun, TypeActions,
     TypeSize, TypeChan, TypeWriter, TypeEnv
<1>7. CASE RunInfo
  BY <1>7 DEF RunInfo, TypePty, TypeFeed, TypeRun, TypeActions, TypeSize,
     TypeChan, TypeWriter, TypeEnv
<1>8. CASE RunStop
  BY <1>8 DEF RunStop, TypePty, TypeFeed, TypeRun, TypeActions, TypeSize,
     TypeChan, TypeWriter, TypeEnv
<1>9. CASE PtyBatch
  BY <1>9 DEF PtyBatch, TypePty, TypeFeed, TypeRun, TypeActions, TypeSize,
     TypeChan, TypeWriter, TypeEnv
<1>10. CASE PtyReap
  BY <1>10 DEF PtyReap, TypePty, TypeFeed, TypeRun, TypeActions, TypeSize,
     TypeChan, TypeWriter, TypeEnv
<1>11. CASE GatherClose
  BY <1>11 DEF GatherClose, TypePty, TypeFeed, TypeRun, TypeActions, TypeSize,
     TypeChan, TypeWriter, TypeEnv
<1>12. CASE FeedApply
  <2>1. TypeFeed'
    BY <1>12 DEF FeedApply, TypeFeed
  <2>2. /\ TypePty' /\ TypeRun' /\ TypeActions'
        /\ TypeSize' /\ TypeChan' /\ TypeWriter' /\ TypeEnv'
    BY <1>12 DEF FeedApply, TypePty, TypeRun, TypeActions, TypeSize, TypeChan,
       TypeWriter, TypeEnv
  <2>3. QED
    BY <2>1, <2>2
<1>13. CASE FeedEnd
  BY <1>13 DEF FeedEnd, TypePty, TypeFeed, TypeRun, TypeActions, TypeSize,
     TypeChan, TypeWriter, TypeEnv
<1>14. CASE CallReturn
  BY <1>14 DEF CallReturn, TypePty, TypeFeed, TypeRun, TypeActions, TypeSize,
     TypeChan, TypeWriter, TypeEnv
<1>15. CASE Kill
  BY <1>15 DEF Kill, TypePty, TypeFeed, TypeRun, TypeActions, TypeSize,
     TypeChan, TypeWriter, TypeEnv
<1>16. CASE CloseCall
  BY <1>16 DEF CloseCall, TypePty, TypeFeed, TypeRun, TypeActions, TypeSize,
     TypeChan, TypeWriter, TypeEnv
<1>17. CASE CloseKill
  BY <1>17 DEF CloseKill, TypePty, TypeFeed, TypeRun, TypeActions, TypeSize,
     TypeChan, TypeWriter, TypeEnv
<1>18. CASE CloseTimeout
  BY <1>18 DEF CloseTimeout, TypePty, TypeFeed, TypeRun, TypeActions, TypeSize,
     TypeChan, TypeWriter, TypeEnv
<1>19. CASE RunPrune
  <2>1. TypeRun' /\ TypeChan'
    BY <1>19, PruneType DEF RunPrune, TypeRun, TypeChan, TypeSize
  <2>2. /\ TypePty' /\ TypeFeed' /\ TypeActions'
        /\ TypeSize' /\ TypeWriter' /\ TypeEnv'
    BY <1>19 DEF RunPrune, TypePty, TypeFeed, TypeActions, TypeSize,
       TypeWriter, TypeEnv
  <2>3. QED
    BY <2>1, <2>2
<1>20. CASE RunRetry
  <2>1. TypeRun'
    BY <1>20 DEF RunRetry, Blocked, TypeRun
  <2>2. TypeChan'
    BY <1>20, QueuedType DEF RunRetry, TypeRun, TypeChan, TypeSize
  <2>3. /\ TypePty' /\ TypeFeed' /\ TypeActions'
        /\ TypeSize' /\ TypeWriter' /\ TypeEnv'
    BY <1>20 DEF RunRetry, TypePty, TypeFeed, TypeActions, TypeSize,
       TypeWriter, TypeEnv
  <2>4. QED
    BY <2>1, <2>2, <2>3
<1>21. CASE RunAccept
  <2>1. TypePty' /\ TypeRun'
    BY <1>21 DEF RunAccept, Blocked, PtyEnabled, TypePty, TypeRun
  <2>2. Head(ptyOut) \in Nat
    BY <1>21 DEF RunAccept, TypePty
  <2>3. TypeChan'
    BY <1>21, QueuedType, <2>2 DEF RunAccept, TypeChan, TypeRun, TypeSize
  <2>4. TypeFeed' /\ TypeActions' /\ TypeSize' /\ TypeWriter' /\ TypeEnv'
    BY <1>21 DEF RunAccept, TypeFeed, TypeActions, TypeSize, TypeWriter, TypeEnv
  <2>5. QED
    BY <2>1, <2>2, <2>3, <2>4
<1>22. CASE RunExited
  <2>1. TypeRun'
    BY <1>22 DEF RunExited, TypeRun
  <2>2. TypeChan'
    BY <1>22, ClosedType DEF RunExited, TypeChan, TypeRun, TypeSize
  <2>3. /\ TypePty' /\ TypeFeed' /\ TypeActions'
        /\ TypeSize' /\ TypeWriter' /\ TypeEnv'
    BY <1>22 DEF RunExited, TypePty, TypeFeed, TypeActions, TypeSize,
       TypeWriter, TypeEnv
  <2>4. QED
    BY <2>1, <2>2, <2>3
<1>23. CASE RunTake
  <2>1. TypeRun' /\ TypeActions' /\ TypeChan'
    BY <1>23, PruneType DEF RunTake, TakeEnabled, TypeRun, TypeActions,
       TypeChan, TypeSize
  <2>2. TypePty' /\ TypeFeed' /\ TypeSize' /\ TypeWriter' /\ TypeEnv'
    BY <1>23 DEF RunTake, TypePty, TypeFeed, TypeSize, TypeWriter, TypeEnv
  <2>3. QED
    BY <2>1, <2>2
<1>24. CASE RunAttachResize
  <2>1. TypeRun'
    BY <1>24 DEF RunAttachResize, TypeRun
  <2>2. TypeSize'
    BY <1>24, ActionFields, PendingSizeType DEF RunAttachResize, TypeRun, None,
       TypeSize, TypeChan
  <2>3. /\ TypePty' /\ TypeFeed' /\ TypeActions'
        /\ TypeChan' /\ TypeWriter' /\ TypeEnv'
    BY <1>24 DEF RunAttachResize, TypePty, TypeFeed, TypeActions, TypeChan,
       TypeWriter, TypeEnv
  <2>4. QED
    BY <2>1, <2>2, <2>3
<1>25. CASE RunAttachFail
  <2>1. TypeRun' /\ TypeEnv'
    BY <1>25 DEF RunAttachFail, TypeRun, TypeEnv
  <2>2. /\ TypePty' /\ TypeFeed' /\ TypeActions'
        /\ TypeSize' /\ TypeChan' /\ TypeWriter'
    BY <1>25 DEF RunAttachFail, TypePty, TypeFeed, TypeActions, TypeSize,
       TypeChan, TypeWriter
  <2>3. QED
    BY <2>1, <2>2
<1>26. CASE RunDetach
  <2>1. TypeRun' /\ TypeSize' /\ TypeChan'
    BY <1>26, LeaveType DEF RunDetach, TypeRun, TypeSize, TypeChan
  <2>2. TypePty' /\ TypeFeed' /\ TypeActions' /\ TypeWriter' /\ TypeEnv'
    BY <1>26 DEF RunDetach, TypePty, TypeFeed, TypeActions, TypeWriter, TypeEnv
  <2>3. QED
    BY <2>1, <2>2
<1>27. CASE RunResize
  <2>1. TypeRun'
    BY <1>27 DEF RunResize, TypeRun
  <2>2. csize' \in [Conn -> Sizes]
    BY <1>27, ActionFields, ArbitrateType DEF RunResize, TypeRun, TypeSize, None
  <2>3. TypeSize'
    BY <1>27, ActionFields, ArbitrateType, <2>2 DEF RunResize, None, TypeSize,
       TypeRun, TypeChan
  <2>4. /\ TypePty' /\ TypeFeed' /\ TypeActions'
        /\ TypeChan' /\ TypeWriter' /\ TypeEnv'
    BY <1>27 DEF RunResize, TypePty, TypeFeed, TypeActions, TypeChan,
       TypeWriter, TypeEnv
  <2>5. QED
    BY <2>1, <2>2, <2>3, <2>4
<1>28. CASE RunReady
  <2>1. TypeRun'
    BY <1>28 DEF RunReady, TypeRun
  <2>2. TypeWriter'
    BY <1>28, Zenon DEF RunReady, TypeWriter, TypeRun, TypeSize, TypeChan
  <2>3. /\ TypePty' /\ TypeFeed' /\ TypeActions'
        /\ TypeSize' /\ TypeChan' /\ TypeEnv'
    BY <1>28 DEF RunReady, TypePty, TypeFeed, TypeActions, TypeSize, TypeChan,
       TypeEnv
  <2>4. QED
    BY <2>1, <2>2, <2>3
<1>29. CASE CloseTerm
  <2>1. TypeEnv'
    BY <1>29, Zenon DEF CloseTerm, TypeEnv, TypeRun, TypeSize, TypeChan
  <2>2. /\ TypePty' /\ TypeFeed' /\ TypeRun'
        /\ TypeActions' /\ TypeSize' /\ TypeChan' /\ TypeWriter'
    BY <1>29 DEF CloseTerm, TypePty, TypeFeed, TypeRun, TypeActions, TypeSize,
       TypeChan, TypeWriter
  <2>3. QED
    BY <2>1, <2>2
<1>30. CASE RunStopped
  <2>1. TypeRun'
    BY <1>30 DEF RunStopped, TypeRun
  <2>2. TypeChan'
    BY <1>30, ClosedType DEF RunStopped, TypeChan, TypeRun, TypeSize
  <2>3. TypeEnv'
    BY <1>30 DEF RunStopped, TypeEnv
  <2>4. TypePty' /\ TypeFeed' /\ TypeActions' /\ TypeSize' /\ TypeWriter'
    BY <1>30 DEF RunStopped, TypePty, TypeFeed, TypeActions, TypeSize,
       TypeWriter
  <2>5. QED
    BY <2>1, <2>2, <2>3, <2>4
<1>31. CASE RunKick
  <2>1. TypeRun' /\ TypeSize' /\ TypeChan' /\ TypeEnv'
    BY <1>31, LeaveType DEF RunKick, TypeRun, TypeSize, TypeChan, TypeEnv
  <2>2. TypePty' /\ TypeFeed' /\ TypeActions' /\ TypeWriter'
    BY <1>31 DEF RunKick, TypePty, TypeFeed, TypeActions, TypeWriter
  <2>3. QED
    BY <2>1, <2>2
<1>32. CASE CloseStop
  <2>1. TypeActions' /\ TypeEnv'
    BY <1>32, SendType, ActionTypes DEF CloseStop, TypeActions, TypeEnv,
       TypeRun, TypeSize, TypeChan
  <2>2. /\ TypePty' /\ TypeFeed' /\ TypeRun'
        /\ TypeSize' /\ TypeChan' /\ TypeWriter'
    BY <1>32 DEF CloseStop, TypePty, TypeFeed, TypeRun, TypeSize, TypeChan,
       TypeWriter
  <2>3. QED
    BY <2>1, <2>2
<1>33. CASE clientInfo
  <2>1. TypeActions' /\ TypeEnv'
    BY <1>33, SendType, ActionTypes DEF clientInfo, Call, TypeActions, TypeEnv,
       TypeRun, TypeSize, TypeChan
  <2>2. /\ TypePty' /\ TypeFeed' /\ TypeRun'
        /\ TypeSize' /\ TypeChan' /\ TypeWriter'
    BY <1>33 DEF clientInfo, Call, TypePty, TypeFeed, TypeRun, TypeSize,
       TypeChan, TypeWriter
  <2>3. QED
    BY <2>1, <2>2
<1>34. CASE RunAttach
  <2> DEFINE first == [outCh EXCEPT ![cur.conn] = Append(@, Attached(screen))]
  <2>1. /\ pc = "attach"
        /\ cur.conn \in Conn /\ cur.size \in Sizes /\ cur.readOnly \in BOOLEAN
        /\ outCh[cur.conn] = <<>>
    BY <1>34, AttachTarget DEF RunAttach, DumpReady
  <2>2. TypeRun'
    BY <1>34, <2>1 DEF RunAttach, TypeRun
  <2>3. TypeSize'
    BY <1>34, <2>1, PendingSizeType DEF RunAttach, TypeSize, TypeRun
  <2>4. Attached(screen) \in Message
    BY MessageType DEF TypeFeed
  <2>5. /\ Append(outCh[cur.conn], Attached(screen)) \in Seq(Message)
        /\ Len(Append(outCh[cur.conn], Attached(screen))) <= OutCap
    BY <2>1, <2>4
  <2>6. ChanType(first)
    BY <2>1, <2>5 DEF TypeChan, ChanType
  <2>7. TypeChan'
    <3> HIDE DEF first
    <3>1. /\ outCh' = Notified(first, clients \cup {cur.conn})
          /\ UNCHANGED <<closes, final>>
      BY <1>34 DEF RunAttach, first
    <3>2. QED
      BY <2>6, <3>1, NotifiedType DEF TypeChan
  <2>8. TypeWriter' /\ TypeEnv'
    BY <1>34, <2>1 DEF RunAttach, TypeWriter, TypeEnv
  <2>9. TypePty' /\ TypeFeed' /\ TypeActions'
    BY <1>34 DEF RunAttach, TypePty, TypeFeed, TypeActions
  <2>10. QED
    BY <2>2, <2>3, <2>7, <2>8, <2>9
<1>35. ASSUME NEW c \in Conn, WriterClosed(c)
      PROVE  TypeOK'
  <2>1. TypeWriter'
    BY <1>35 DEF WriterClosed, TypeWriter
  <2>2. /\ TypePty' /\ TypeFeed' /\ TypeRun' /\ TypeActions'
        /\ TypeSize' /\ TypeChan' /\ TypeEnv'
    BY <1>35 DEF WriterClosed, TypePty, TypeFeed, TypeRun, TypeActions,
       TypeSize, TypeChan, TypeEnv
  <2>3. QED
    BY <2>1, <2>2
<1>36. ASSUME NEW c \in Conn, WriteOK(c)
      PROVE  TypeOK'
  <2>1. TypeWriter'
    BY <1>36 DEF WriteOK, TypeWriter
  <2>2. /\ TypePty' /\ TypeFeed' /\ TypeRun' /\ TypeActions'
        /\ TypeSize' /\ TypeChan' /\ TypeEnv'
    BY <1>36 DEF WriteOK, TypePty, TypeFeed, TypeRun, TypeActions, TypeSize,
       TypeChan, TypeEnv
  <2>3. QED
    BY <2>1, <2>2
<1>37. ASSUME NEW c \in Conn, WriteFinal(c)
      PROVE  TypeOK'
  <2>1. TypeWriter'
    BY <1>37 DEF WriteFinal, TypeWriter
  <2>2. /\ TypePty' /\ TypeFeed' /\ TypeRun' /\ TypeActions'
        /\ TypeSize' /\ TypeChan' /\ TypeEnv'
    BY <1>37 DEF WriteFinal, TypePty, TypeFeed, TypeRun, TypeActions,
       TypeSize, TypeChan, TypeEnv
  <2>3. QED
    BY <2>1, <2>2
<1>38. ASSUME NEW c \in Conn, WriteErr(c)
      PROVE  TypeOK'
  <2>1. TypeWriter' /\ TypeEnv'
    BY <1>38 DEF WriteErr, TypeWriter, TypeEnv
  <2>2. /\ TypePty' /\ TypeFeed' /\ TypeRun' /\ TypeActions'
        /\ TypeSize' /\ TypeChan'
    BY <1>38 DEF WriteErr, TypePty, TypeFeed, TypeRun, TypeActions, TypeSize,
       TypeChan
  <2>3. QED
    BY <2>1, <2>2
<1>39. ASSUME NEW c \in Conn, WriterLeave(c)
      PROVE  TypeOK'
  <2>1. TypeWriter'
    BY <1>39 DEF WriterLeave, Signal, TypeWriter
  <2>2. /\ TypePty' /\ TypeFeed' /\ TypeRun' /\ TypeActions'
        /\ TypeSize' /\ TypeChan' /\ TypeEnv'
    BY <1>39 DEF WriterLeave, TypePty, TypeFeed, TypeRun, TypeActions,
       TypeSize, TypeChan, TypeEnv
  <2>3. QED
    BY <2>1, <2>2
<1>40. ASSUME NEW c \in Conn, PeerGone(c)
      PROVE  TypeOK'
  <2>1. TypeEnv'
    BY <1>40 DEF PeerGone, TypeEnv
  <2>2. /\ TypePty' /\ TypeFeed' /\ TypeRun' /\ TypeActions'
        /\ TypeSize' /\ TypeChan' /\ TypeWriter'
    BY <1>40 DEF PeerGone, TypePty, TypeFeed, TypeRun, TypeActions, TypeSize,
       TypeChan, TypeWriter
  <2>3. QED
    BY <2>1, <2>2
<1>41. ASSUME NEW c \in Conn, HandleAttached(c)
      PROVE  TypeOK'
  <2>1. TypeEnv'
    BY <1>41 DEF HandleAttached, TypeEnv
  <2>2. /\ TypePty' /\ TypeFeed' /\ TypeRun' /\ TypeActions'
        /\ TypeSize' /\ TypeChan' /\ TypeWriter'
    BY <1>41 DEF HandleAttached, TypePty, TypeFeed, TypeRun, TypeActions,
       TypeSize, TypeChan, TypeWriter
  <2>3. QED
    BY <2>1, <2>2
<1>42. ASSUME NEW c \in Conn, HandleAttachDone(c)
      PROVE  TypeOK'
  <2>1. TypeEnv'
    BY <1>42 DEF HandleAttachDone, TypeEnv
  <2>2. /\ TypePty' /\ TypeFeed' /\ TypeRun' /\ TypeActions'
        /\ TypeSize' /\ TypeChan' /\ TypeWriter'
    BY <1>42 DEF HandleAttachDone, TypePty, TypeFeed, TypeRun, TypeActions,
       TypeSize, TypeChan, TypeWriter
  <2>3. QED
    BY <2>1, <2>2
<1>43. ASSUME NEW c \in Conn, HandleEnd(c)
      PROVE  TypeOK'
  <2>1. TypeEnv'
    BY <1>43 DEF HandleEnd, TypeEnv
  <2>2. /\ TypePty' /\ TypeFeed' /\ TypeRun' /\ TypeActions'
        /\ TypeSize' /\ TypeChan' /\ TypeWriter'
    BY <1>43 DEF HandleEnd, TypePty, TypeFeed, TypeRun, TypeActions, TypeSize,
       TypeChan, TypeWriter
  <2>3. QED
    BY <2>1, <2>2
<1>44. ASSUME NEW c \in Conn, HandleDetach(c)
      PROVE  TypeOK'
  <2>1. TypeActions' /\ TypeEnv'
    BY <1>44, SendType, ActionTypes DEF HandleDetach, TypeActions, TypeEnv
  <2>2. /\ TypePty' /\ TypeFeed' /\ TypeRun' /\ TypeSize'
        /\ TypeChan' /\ TypeWriter'
    BY <1>44 DEF HandleDetach, TypePty, TypeFeed, TypeRun, TypeSize, TypeChan,
       TypeWriter
  <2>3. QED
    BY <2>1, <2>2
<1>45. ASSUME NEW c \in Conn, NEW sz \in Sizes, NEW ro \in Modes,
              HandleAttach(c, sz, ro)
      PROVE  TypeOK'
  <2>1. TypeActions' /\ TypeEnv'
    BY <1>45, SendType, ActionTypes DEF HandleAttach, TypeActions, TypeEnv
  <2>2. /\ TypePty' /\ TypeFeed' /\ TypeRun' /\ TypeSize'
        /\ TypeChan' /\ TypeWriter'
    BY <1>45 DEF HandleAttach, TypePty, TypeFeed, TypeRun, TypeSize, TypeChan,
       TypeWriter
  <2>3. QED
    BY <2>1, <2>2
<1>46. ASSUME NEW c \in Conn, NEW sz \in Sizes, HandleResize(c, sz)
      PROVE  TypeOK'
  <2>1. TypeActions'
    BY <1>46, SendType, ActionTypes DEF HandleResize, TypeActions
  <2>2. /\ TypePty' /\ TypeFeed' /\ TypeRun' /\ TypeSize'
        /\ TypeChan' /\ TypeWriter' /\ TypeEnv'
    BY <1>46 DEF HandleResize, TypePty, TypeFeed, TypeRun, TypeSize, TypeChan,
       TypeWriter, TypeEnv
  <2>3. QED
    BY <2>1, <2>2
<1>47. ASSUME NEW k \in Nat, kickClient(k)
      PROVE  TypeOK'
  BY <1>47, SendType, ActionTypes DEF kickClient, Call, TypePty, TypeFeed,
     TypeRun, TypeActions, TypeSize, TypeChan, TypeWriter, TypeEnv
<1>48. ASSUME NEW c \in Conn, WriterRecv(c)
      PROVE  TypeOK'
  <2>1. /\ Head(outCh[c]) \in Message /\ Tail(outCh[c]) \in Seq(Message)
        /\ Len(Tail(outCh[c])) <= OutCap
    BY <1>48 DEF WriterRecv, TypeChan, ChanType
  <2>2. Head(outCh[c]).data \in Seq(Nat)
    BY <2>1 DEF Message
  <2>3. TypeChan' /\ TypeWriter'
    BY <1>48, <2>1, <2>2 DEF WriterRecv, Signal, TypeChan, ChanType, TypeWriter
  <2>4. /\ TypePty' /\ TypeFeed' /\ TypeRun'
        /\ TypeActions' /\ TypeSize' /\ TypeEnv'
    BY <1>48 DEF WriterRecv, TypePty, TypeFeed, TypeRun, TypeActions, TypeSize,
       TypeEnv
  <2>5. QED
    BY <2>3, <2>4
<1>49. QED
  BY <1>1, <1>2, <1>3, <1>4, <1>5, <1>6, <1>7, <1>8, <1>9, <1>10, <1>11, <1>12,
     <1>13, <1>14, <1>15, <1>16, <1>17, <1>18, <1>19, <1>20, <1>21, <1>22,
     <1>23, <1>24, <1>25, <1>26, <1>27, <1>28, <1>29, <1>30, <1>31, <1>32,
     <1>33, <1>34, <1>35, <1>36, <1>37, <1>38, <1>39, <1>40, <1>41, <1>42,
     <1>43, <1>44, <1>45, <1>46, <1>47, <1>48 DEF Next, RunNext, PtyNext,
     FeedNext, CallNext, CloseNext, WriterNext, HandlerNext

-----------------------------------------------------------------------------
\* Who changes what

\* The steps that change the list of clients, their channels or their writers.
LEMMA ListFrame ==
  ASSUME Next
  PROVE  \/ RunPrune \/ RunRetry \/ RunAccept \/ RunExited \/ RunTake
         \/ RunAttach \/ RunDetach \/ RunKick \/ RunStopped
         \/ \E c \in Conn : WriterNext(c)
         \/ UNCHANGED <<listVars, chanVars, writerVars, lastFeed>>
<1> USE DEF vars, ptyVars, feedVars, runVars, listVars, loopVars, clientVars,
            ioVars, chanVars, writerVars, envVars, connVars, callVars, closeVars
<1>1. CASE RunNext
  BY <1>1 DEF RunNext, RunEOF, RunExitCloseFeed, RunFeed, RunReady,
     RunAttachResize, RunAttachFlush, RunAttachFail, RunDetachGone,
     RunKickUnknown, RunResize, RunInfo, RunStop
<1>2. CASE PtyNext \/ FeedNext \/ CallNext \/ CloseNext
  BY <1>2 DEF PtyNext, PtyBatch, PtyReap, GatherClose, FeedNext, FeedApply,
     FeedEnd, CallNext, kickClient, clientInfo, Call, CallReturn, Kill,
     CloseNext, CloseCall, CloseStop, CloseKill, CloseTimeout, CloseTerm
<1>3. ASSUME NEW c \in Conn, HandlerNext(c) \/ PeerGone(c)
      PROVE  UNCHANGED <<listVars, chanVars, writerVars, lastFeed>>
  BY <1>3 DEF PeerGone, HandlerNext, HandleAttach, HandleAttached,
     HandleAttachDone, HandleResize, HandleEnd, HandleDetach
<1>4. QED
  BY <1>1, <1>2, <1>3 DEF Next

\* Only an attach gives out a number.
LEMMA IdFrame ==
  ASSUME Next
  PROVE  RunAttach \/ UNCHANGED <<id, nextClientID>>
<1> USE DEF vars, ptyVars, feedVars, runVars, listVars, loopVars, clientVars,
            ioVars, chanVars, writerVars, envVars, connVars, callVars, closeVars
<1>1. CASE RunNext
  BY <1>1 DEF RunNext, RunPrune, RunRetry, RunAccept, RunEOF, RunExitCloseFeed,
     RunExited, RunFeed, RunReady, RunTake, RunAttachResize, RunAttachFlush,
     RunAttachFail, RunDetach, RunDetachGone, RunKick, RunKickUnknown,
     RunResize, RunInfo, RunStop, RunStopped
<1>2. CASE PtyNext \/ FeedNext \/ CallNext \/ CloseNext
  BY <1>2 DEF PtyNext, PtyBatch, PtyReap, GatherClose, FeedNext, FeedApply,
     FeedEnd, CallNext, kickClient, clientInfo, Call, CallReturn, Kill,
     CloseNext, CloseCall, CloseStop, CloseKill, CloseTimeout, CloseTerm
<1>3. ASSUME NEW c \in Conn, WriterNext(c) \/ HandlerNext(c) \/ PeerGone(c)
      PROVE  UNCHANGED <<id, nextClientID>>
  BY <1>3 DEF WriterNext, WriterRecv, WriterClosed, WriteOK, WriteFinal,
     WriteErr, WriterLeave, PeerGone, HandlerNext, HandleAttach,
     HandleAttached, HandleAttachDone, HandleResize, HandleEnd, HandleDetach
<1>4. QED
  BY <1>1, <1>2, <1>3 DEF Next

-----------------------------------------------------------------------------
\* The list of clients

\* Every step keeps the counter ahead of the numbers.
LEMMA IdStep ==
  ASSUME TypeOK, IdBound, Unused, AttachOnce, Next
  PROVE  IdBound'
<1>1. CASE RunAttach
  <2>1. cur.conn \in Conn
    BY <1>1, AttachTarget DEF RunAttach, DumpReady
  <2>2. QED
    BY <1>1, <2>1 DEF RunAttach, IdBound, TypeOK, TypeSize, TypeRun
<1>2. CASE UNCHANGED <<id, nextClientID>>
  BY <1>2 DEF IdBound
<1>3. QED
  BY <1>1, <1>2, IdFrame

\* The helpers leave the channels of the others alone.
LEMMA OthersUntouched ==
  ASSUME NEW c \in Conn, NEW S, c \notin S
  PROVE  /\ \A out : Notified(out, S)[c] = out[c]
         /\ \A k : Queued(S, k)[c] = outCh[c]
         /\ Closed(S)[c] = closes[c]
BY DEF Notified, Queued, Closed

\* What an attach puts on the channels: the dump on the newcomer's, and on every
\* listed one the notification if there is room.
LEMMA AttachChan ==
  ASSUME TypeOK, Unused, AttachOnce, RunAttach
  PROVE  /\ \A c \in Conn \ {cur.conn} : outCh'[c] = Notified(outCh, clients)[c]
         /\ \/ outCh'[cur.conn] = <<Attached(screen)>>
            \/ outCh'[cur.conn] = Append(<<Attached(screen)>>, ClientsChanged)
<1> DEFINE first == [outCh EXCEPT ![cur.conn] = Append(@, Attached(screen))]
<1>1. /\ cur.conn \in Conn /\ outCh[cur.conn] = <<>>
      /\ outCh \in [Conn -> Seq(Message)]
  BY AttachTarget DEF RunAttach, DumpReady, TypeOK, TypeChan, ChanType
<1>2. outCh' = Notified(first, clients \cup {cur.conn})
  BY DEF RunAttach
<1>3. \A c \in Conn \ {cur.conn} : first[c] = outCh[c]
  BY <1>1
<1>4. first[cur.conn] = Append(<<>>, Attached(screen))
  BY <1>1
<1>5. Append(<<>>, Attached(screen)) = <<Attached(screen)>>
  OBVIOUS
<1> HIDE DEF first
<1>6. QED
  BY <1>1, <1>2, <1>3, <1>4, <1>5 DEF Notified

\* A connection without a sessionClient leaves no trace in any step.
LEMMA UnusedStep ==
  ASSUME TypeOK, Unused, AttachOnce, HeldBack, Next
  PROVE  Unused'
<1> SUFFICES ASSUME NEW c \in Conn, wpc'[c] = "none"
             PROVE  /\ c \notin clients' /\ outCh'[c] = <<>> /\ closes'[c] = 0
                    /\ ~final'[c] /\ hand'[c] = <<>> /\ view'[c] = <<>>
                    /\ ~gotExited'[c]
  BY DEF Unused
<1> DEFINE Old == /\ wpc[c] = "none" /\ c \notin clients /\ outCh[c] = <<>>
                  /\ closes[c] = 0 /\ ~final[c] /\ hand[c] = <<>>
                  /\ view[c] = <<>> /\ ~gotExited[c] /\ c \notin pendingClients
<1>0. wpc[c] = "none" => Old
  BY DEF Unused, HeldBack
<1>1. CASE pruneFinishedClients /\ UNCHANGED <<final, writerVars>>
  BY <1>0, <1>1, OthersUntouched DEF pruneFinishedClients, writerVars
<1>2. CASE RunRetry
  BY <1>0, <1>2, OthersUntouched DEF RunRetry, writerVars
<1>3. CASE RunAccept
  BY <1>0, <1>3, OthersUntouched DEF RunAccept, writerVars
<1>4. CASE RunExited \/ RunStopped
  <2>1. /\ UNCHANGED <<outCh, wpc, hand, view, gotExited>>
        /\ clients' = {} /\ closes' = Closed(clients)
        /\ final'[c] => final[c] \/ c \in clients
    BY <1>4 DEF RunExited, RunStopped, writerVars
  <2>2. Old
    BY <1>0, <2>1
  <2>3. closes'[c] = closes[c]
    BY <2>1, <2>2, OthersUntouched
  <2>4. QED
    BY <2>1, <2>2, <2>3
<1>5. ASSUME NEW d, Leave(d), d \in clients, UNCHANGED <<final, writerVars>>
      PROVE  Old => Old'
  BY <1>5, OthersUntouched DEF Leave, writerVars
<1>6. CASE RunAttach
  <2>1. cur.conn # c /\ wpc[c] = "none"
    BY <1>6, AttachTarget DEF RunAttach, DumpReady, TypeOK, TypeWriter
  <2>2. outCh'[c] = outCh[c]
    <3>1. outCh'[c] = Notified(outCh, clients)[c]
      BY <1>6, <2>1, AttachChan
    <3>2. Notified(outCh, clients)[c] = outCh[c]
      BY <1>0, <2>1, OthersUntouched
    <3>3. QED
      BY <3>1, <3>2
  <2>3. QED
    BY <1>6, <1>0, <2>1, <2>2 DEF RunAttach, TypeOK, TypeWriter
<1>7. ASSUME NEW d \in Conn, WriterNext(d)
      PROVE  Old'
  <2>1. d # c /\ wpc[c] = "none"
    BY <1>7 DEF WriterNext, WriterRecv, WriterClosed, WriteOK, WriteFinal,
       WriteErr, WriterLeave, TypeOK, TypeWriter
  <2>2. QED
    BY <1>7, <1>0, <2>1 DEF WriterNext, WriterRecv, WriterClosed, WriteOK,
       WriteFinal, WriteErr, WriterLeave, TypeOK, TypeWriter, TypeChan,
       ChanType, runVars, listVars, chanVars
<1>8. CASE UNCHANGED <<listVars, chanVars, writerVars, lastFeed>>
  BY <1>0, <1>8 DEF listVars, chanVars, writerVars
<1>9. QED
  <2>1. RunPrune \/ RunTake => pruneFinishedClients /\ UNCHANGED <<final, writerVars>>
    BY DEF RunPrune, RunTake
  <2>2. RunDetach \/ RunKick =>
          UNCHANGED <<final, writerVars>> /\ \E d \in clients : Leave(d)
    BY DEF RunDetach, RunKick, Listed
  <2>3. RunDetach \/ RunKick => wpc[c] = "none"
    BY <2>2 DEF writerVars
  <2>4. QED
    BY <1>0, <1>1, <1>2, <1>3, <1>4, <1>5, <1>6, <1>7, <1>8, <2>1, <2>2, <2>3,
       ListFrame

\* No step makes a second attach request for a connection.
LEMMA AttachOnceStep ==
  ASSUME TypeOK, Unused, AttachOnce, Next
  PROVE  AttachOnce'
<1> USE DEF vars, ptyVars, feedVars, runVars, listVars, loopVars, clientVars,
            ioVars, chanVars, writerVars, envVars, connVars, callVars, closeVars
<1>0. /\ actions \in Seq(SessionAction) /\ ~IsAttach(None)
      /\ hpc \in [Conn -> {"control", "attaching", "stream", "refused",
                           "detaching", "closed"}]
      /\ wpc \in [Conn -> {"none", "recv", "write", "final", "leaving", "done"}]
      /\ \A i \in 1 .. Len(actions) : IsAttach(actions[i]) => actions[i].conn \in Conn
      /\ IsAttach(cur) => cur.conn \in Conn
  BY ActionFields DEF TypeOK, TypeActions, TypeEnv, TypeWriter, TypeRun,
     IsAttach, None
\* nothing that matters changes
<1>1. CASE /\ UNCHANGED <<actions, cur, wpc, hpc>>
           /\ pc' # "attach" \/ pc' = pc
  BY <1>1 DEF AttachOnce
\* an action has been handled
<1>2. CASE UNCHANGED <<actions, wpc, hpc>> /\ cur' = None /\ pc' = "prune"
  BY <1>2, <1>0 DEF AttachOnce
<1>3. CASE RunTake
  <2>1. /\ cur' = actions[1] /\ Len(actions') = Len(actions) - 1
        /\ \A i \in 1 .. Len(actions') : actions'[i] = actions[i + 1]
        /\ 1 \in 1 .. Len(actions) /\ Len(actions) \in Nat
        /\ \A i \in 1 .. Len(actions') : i + 1 \in 1 .. Len(actions) /\ i + 1 # 1
    BY <1>3, <1>0 DEF RunTake, TakeEnabled
  <2>2. UNCHANGED <<wpc, hpc>> /\ pc' = "act"
    BY <1>3 DEF RunTake
  <2>3. ASSUME NEW i \in 1 .. Len(actions'), IsAttach(actions'[i])
        PROVE  /\ wpc'[actions'[i].conn] = "none" /\ hpc'[actions'[i].conn] # "control"
               /\ IsAttach(cur') => cur'.conn # actions'[i].conn
               /\ \A j \in 1 .. Len(actions') :
                    IsAttach(actions'[j]) /\ actions'[j].conn = actions'[i].conn => i = j
    <3>1. /\ i + 1 \in 1 .. Len(actions) /\ actions'[i] = actions[i + 1]
          /\ i + 1 # 1 /\ i \in Int
      BY <2>1
    <3>2. /\ wpc'[actions'[i].conn] = "none" /\ hpc'[actions'[i].conn] # "control"
      BY <2>2, <2>3, <3>1 DEF AttachOnce
    <3>3. IsAttach(cur') => cur'.conn # actions'[i].conn
      BY <2>1, <2>3, <3>1 DEF AttachOnce
    <3>4. ASSUME NEW j \in 1 .. Len(actions'), IsAttach(actions'[j]),
                 actions'[j].conn = actions'[i].conn
          PROVE  i = j
      <4>1. /\ j + 1 \in 1 .. Len(actions) /\ actions'[j] = actions[j + 1]
            /\ j \in Int
        BY <2>1
      <4>2. i + 1 = j + 1
        BY <2>3, <3>1, <3>4, <4>1 DEF AttachOnce
      <4>3. QED
        BY <3>1, <4>1, <4>2
    <3>5. QED
      BY <3>2, <3>3, <3>4
  <2>4. /\ IsAttach(cur') => wpc'[cur'.conn] = "none" /\ hpc'[cur'.conn] # "control"
        /\ \A c \in Conn : hpc'[c] = "control" => wpc'[c] = "none"
    BY <2>1, <2>2 DEF AttachOnce
  <2>5. QED
    BY <2>2, <2>3, <2>4 DEF AttachOnce
<1>4. CASE RunAttachResize
  BY <1>4 DEF RunAttachResize, AttachOnce, IsAttach
<1>5. CASE RunAttach
  <2>1. /\ cur.conn \in Conn /\ IsAttach(cur)
    BY <1>5, AttachTarget DEF RunAttach, DumpReady
  <2>2. UNCHANGED <<actions, hpc>> /\ cur' = None /\ pc' = "prune"
        /\ wpc' = [wpc EXCEPT ![cur.conn] = "recv"]
    BY <1>5 DEF RunAttach
  <2>3. QED
    BY <2>1, <2>2, <1>0 DEF AttachOnce
\* another action is sent
<1>6. CASE /\ \E a : actions' = Append(actions, a) /\ ~IsAttach(a)
           /\ UNCHANGED <<cur, pc, wpc>>
           /\ \A c \in Conn : \/ hpc'[c] = hpc[c]
                              \/ hpc[c] # "control" /\ hpc'[c] # "control"
  <2>0. PICK a : actions' = Append(actions, a) /\ ~IsAttach(a)
    BY <1>6
  <2>1. /\ Len(actions') = Len(actions) + 1 /\ Len(actions) \in Nat
        /\ \A i \in 1 .. Len(actions) : actions'[i] = actions[i]
        /\ actions'[Len(actions) + 1] = a
    BY <2>0, <1>0
  <2>2. \A i \in 1 .. Len(actions') : i \in 1 .. Len(actions) \/ i = Len(actions) + 1
    BY <2>1
  <2>3. QED
    BY <1>6, <2>0, <2>1, <2>2, <1>0 DEF AttachOnce
<1>7. ASSUME NEW c \in Conn, NEW sz, NEW ro, HandleAttach(c, sz, ro)
      PROVE  AttachOnce'
  <2> DEFINE a == [type |-> "attach", conn |-> c, size |-> sz, readOnly |-> ro]
  <2>1. /\ Len(actions') = Len(actions) + 1 /\ Len(actions) \in Nat
        /\ \A i \in 1 .. Len(actions) : actions'[i] = actions[i]
        /\ actions'[Len(actions) + 1] = a
    BY <1>7, <1>0 DEF HandleAttach, SendAction
  <2>2. \A i \in 1 .. Len(actions') : i \in 1 .. Len(actions) \/ i = Len(actions) + 1
    BY <2>1
  <2>3. /\ UNCHANGED <<cur, pc, wpc>> /\ hpc[c] = "control"
        /\ hpc' = [hpc EXCEPT ![c] = "attaching"]
    BY <1>7 DEF HandleAttach
  <2>4. a.conn = c
    OBVIOUS
  <2> HIDE DEF a
  <2>5. QED
    BY <2>1, <2>2, <2>3, <2>4, <1>0 DEF AttachOnce
\* a handler or a writer moves on
<1>8. CASE /\ UNCHANGED <<actions, cur, pc, wpc>>
           /\ \A c \in Conn : hpc'[c] # "control" \/ hpc'[c] = hpc[c]
  BY <1>8, <1>0 DEF AttachOnce
<1>9. CASE /\ UNCHANGED <<actions, cur, pc, hpc>>
           /\ \A c \in Conn : wpc'[c] = "none" <=> wpc[c] = "none"
  BY <1>9, <1>0 DEF AttachOnce
<1>10. QED
  <2>1. CASE RunNext
    BY <2>1, <1>1, <1>2, <1>3, <1>4, <1>5 DEF RunNext, RunPrune, RunRetry,
       RunAccept, RunEOF, RunExitCloseFeed, RunExited, RunFeed, RunReady,
       RunAttachFlush, RunAttachFail, RunDetach, RunDetachGone, RunKick,
       RunKickUnknown, RunResize, RunInfo, RunStop, RunStopped
  <2>2. CASE PtyNext \/ FeedNext \/ CallReturn \/ Kill
    BY <2>2, <1>1 DEF PtyNext, PtyBatch, PtyReap, GatherClose, FeedNext,
       FeedApply, FeedEnd, CallReturn, Kill
  <2>3. ASSUME NEW k, kickClient(k) \/ clientInfo
        PROVE  AttachOnce'
    <3> DEFINE r == [type |-> "kick", id |-> k]
               s == [type |-> "info"]
    <3>1. ~IsAttach(r) /\ ~IsAttach(s)
      BY DEF IsAttach
    <3>2. /\ UNCHANGED <<cur, pc, wpc, hpc>>
          /\ \/ actions' = Append(actions, r)
             \/ actions' = Append(actions, s)
      BY <2>3 DEF kickClient, clientInfo, Call, SendAction
    <3> HIDE DEF r, s
    <3>3. QED
      BY <1>6, <3>1, <3>2
  <2>4. CASE CloseNext
    <3>1. CASE CloseStop
      <4>1. ~IsAttach(Stop)
        BY DEF IsAttach, Stop
      <4>2. /\ UNCHANGED <<cur, pc, wpc, hpc>>
            /\ actions' = Append(actions, Stop) \/ UNCHANGED actions
        BY <3>1 DEF CloseStop, SendAction
      <4>3. QED
        BY <4>1, <4>2, <1>1, <1>6
    <3>2. CASE CloseCall \/ CloseKill \/ CloseTimeout \/ CloseTerm
      BY <3>2, <1>1 DEF CloseCall, CloseKill, CloseTimeout, CloseTerm
    <3>3. QED
      BY <2>4, <3>1, <3>2 DEF CloseNext
  <2>5. ASSUME NEW c \in Conn, WriterNext(c)
        PROVE  AttachOnce'
    BY <2>5, <1>9, <1>0 DEF WriterNext, WriterRecv, WriterClosed, WriteOK,
       WriteFinal, WriteErr, WriterLeave
  <2>6. ASSUME NEW c \in Conn, HandlerNext(c)
        PROVE  AttachOnce'
    <3>1. CASE HandleAttached(c) \/ HandleAttachDone(c) \/ HandleEnd(c)
      BY <3>1, <1>8, <1>0 DEF HandleAttached, HandleAttachDone, HandleEnd
    <3>2. ASSUME NEW sz, HandleResize(c, sz)
          PROVE  AttachOnce'
      <4> DEFINE r == [type |-> "resize", conn |-> c, size |-> sz]
      <4>1. ~IsAttach(r)
        BY DEF IsAttach
      <4>2. /\ UNCHANGED <<cur, pc, wpc, hpc>>
            /\ actions' = Append(actions, r)
        BY <3>2 DEF HandleResize, SendAction
      <4> HIDE DEF r
      <4>3. QED
        BY <4>1, <4>2, <1>6
    <3>3. CASE HandleDetach(c)
      <4> DEFINE r == [type |-> "detach", conn |-> c]
      <4>1. ~IsAttach(r)
        BY DEF IsAttach
      <4>2. /\ UNCHANGED <<cur, pc, wpc>>
            /\ actions' = Append(actions, r) \/ UNCHANGED actions
            /\ hpc[c] = "detaching" /\ hpc' = [hpc EXCEPT ![c] = "closed"]
        BY <3>3 DEF HandleDetach, SendAction
      <4>3. \A d \in Conn : \/ hpc'[d] = hpc[d]
                            \/ hpc[d] # "control" /\ hpc'[d] # "control"
        BY <4>2, <1>0
      <4> HIDE DEF r
      <4>4. QED
        BY <4>1, <4>2, <4>3, <1>6, <1>8
    <3>4. QED
      BY <2>6, <3>1, <3>2, <3>3, <1>7 DEF HandlerNext
  <2>7. ASSUME NEW c \in Conn, PeerGone(c)
        PROVE  AttachOnce'
    BY <2>7, <1>1 DEF PeerGone
  <2>8. QED
    BY <2>1, <2>2, <2>3, <2>4, <2>5, <2>6, <2>7 DEF Next, CallNext

-----------------------------------------------------------------------------
\* Channels are closed once, and output is held back for listed clients only

\* Every step that drops a client from the list drops it from pendingClients,
\* and intake stays off while a batch is held back.
LEMMA HeldBackStep ==
  ASSUME TypeOK, HeldBack, Next
  PROVE  HeldBack'
<1>1. CASE RunPrune \/ RunTake
  BY <1>1 DEF RunPrune, RunTake, pruneFinishedClients, StillPending, HeldBack,
     loopVars
<1>2. CASE RunRetry
  BY <1>2 DEF RunRetry, Blocked, HeldBack, loopVars
<1>3. CASE RunAccept
  BY <1>3 DEF RunAccept, Blocked, HeldBack
<1>4. CASE RunExited \/ RunStopped
  BY <1>4 DEF RunExited, RunStopped, HeldBack
<1>5. CASE RunDetach \/ RunKick
  BY <1>5 DEF RunDetach, RunKick, Leave, HeldBack
<1>6. CASE RunAttach
  BY <1>6 DEF RunAttach, HeldBack
<1>7. ASSUME NEW c \in Conn, WriterNext(c)
      PROVE  UNCHANGED <<clients, pendingClients, pendingOutput, lastFeed>>
  BY <1>7 DEF WriterNext, WriterRecv, WriterClosed, WriteOK, WriteFinal,
     WriteErr, WriterLeave, runVars, listVars, loopVars
<1>8. CASE UNCHANGED <<clients, pendingClients, pendingOutput, lastFeed>>
  BY <1>8 DEF HeldBack
<1>9. QED
  BY <1>1, <1>2, <1>3, <1>4, <1>5, <1>6, <1>7, <1>8, ListFrame DEF listVars

\* outCh of a client is open while the client is in a list, and closed at most
\* once.
ChannelOnce ==
  \A c \in Conn : closes[c] <= (IF c \in clients \cup pendingClients THEN 0 ELSE 1)

\* A client whose channel is closed leaves both lists in the same step.
LEMMA ChannelStep ==
  ASSUME TypeOK, Unused, AttachOnce, HeldBack, ChannelOnce, Next
  PROVE  ChannelOnce'
<1>0. /\ closes \in [Conn -> Nat] /\ clients \subseteq Conn
      /\ pendingClients \subseteq clients
  BY DEF TypeOK, TypeChan, TypeRun, HeldBack
\* nothing is closed
<1>2. CASE /\ UNCHANGED <<clients, closes>> /\ pendingClients' \subseteq clients
  BY <1>0, <1>2 DEF ChannelOnce
<1>3. CASE RunPrune \/ RunTake
  <2> DEFINE gone == {c \in clients : Finished(c)}
  <2>1. /\ clients' = clients \ gone /\ closes' = Closed(gone)
        /\ pendingClients' = pendingClients \ gone
    BY <1>3 DEF RunPrune, RunTake, pruneFinishedClients, StillPending
  <2>2. gone \subseteq clients
    OBVIOUS
  <2> HIDE DEF gone
  <2>3. pendingClients' \subseteq clients'
    BY <1>0, <2>1
  <2>4. QED
    BY <1>0, <2>1, <2>2, <2>3 DEF ChannelOnce, Closed
<1>4. CASE RunDetach \/ RunKick
  <2>1. PICK d \in clients : Leave(d)
    BY <1>4 DEF RunDetach, RunKick, Listed
  <2>2. QED
    BY <1>0, <2>1 DEF Leave, ChannelOnce, Closed
<1>5. CASE RunExited \/ RunStopped
  BY <1>0, <1>5 DEF RunExited, RunStopped, ChannelOnce, Closed
<1>6. CASE RunRetry
  BY <1>0, <1>2, <1>6 DEF RunRetry, Blocked
<1>7. CASE RunAccept
  BY <1>0, <1>2, <1>7 DEF RunAccept, Blocked
<1>8. CASE RunAttach
  <2>1. cur.conn \in Conn /\ closes[cur.conn] = 0
    BY <1>8, AttachTarget DEF RunAttach, DumpReady
  <2>2. QED
    BY <1>0, <1>8, <2>1 DEF RunAttach, ChannelOnce
<1>9. ASSUME NEW c \in Conn, WriterNext(c)
      PROVE  UNCHANGED <<clients, pendingClients, closes>>
  BY <1>9 DEF WriterNext, WriterRecv, WriterClosed, WriteOK, WriteFinal,
     WriteErr, WriterLeave, runVars, listVars, chanVars
<1>10. CASE UNCHANGED <<clients, pendingClients, closes>>
  BY <1>0, <1>2, <1>10
<1>11. QED
  BY <1>3, <1>4, <1>5, <1>6, <1>7, <1>8, <1>9, <1>10, ListFrame
     DEF listVars, chanVars

\* The steps that move run(), feed the emulator or close its channel.
LEMMA LoopFrame ==
  ASSUME Next
  PROVE  RunNext \/ PtyBatch \/ GatherClose \/ FeedNext
         \/ UNCHANGED <<pc, feedVars, pendingFeed, lastFeed, produced, ptyOut,
                        ptyClosed>>
<1> USE DEF vars, ptyVars, feedVars, runVars, listVars, loopVars, clientVars,
            ioVars, chanVars, writerVars, envVars, connVars, callVars, closeVars
<1>1. CASE PtyReap \/ CallNext \/ CloseNext
  BY <1>1 DEF PtyReap, CallNext, kickClient, clientInfo, Call, CallReturn, Kill,
     CloseNext, CloseCall, CloseStop, CloseKill, CloseTimeout, CloseTerm
<1>2. ASSUME NEW c \in Conn, WriterNext(c) \/ HandlerNext(c) \/ PeerGone(c)
      PROVE  UNCHANGED <<pc, feedVars, pendingFeed, lastFeed, produced, ptyOut,
                         ptyClosed>>
  BY <1>2 DEF WriterNext, WriterRecv, WriterClosed, WriteOK, WriteFinal,
     WriteErr, WriterLeave, PeerGone, HandlerNext, HandleAttach,
     HandleAttached, HandleAttachDone, HandleResize, HandleEnd, HandleDetach
<1>3. QED
  BY <1>1, <1>2 DEF Next, PtyNext

\* feedCh is closed on the way out only, and drained when run() has ended.
FeedOpen ==
  /\ pc \notin {"exitDrain", "stopDrain", "done"} => feed = "open"
  /\ DoneOrder

\* feedCh is closed in the two steps that lead run() out of its loop.
LEMMA FeedOpenStep ==
  ASSUME TypeOK, FeedOpen, Next
  PROVE  FeedOpen'
<1> USE DEF FeedOpen, DoneOrder, done, feedVars
<1>1. CASE RunExitCloseFeed \/ RunExited \/ RunStop \/ RunStopped
  BY <1>1 DEF RunExitCloseFeed, RunExited, RunStop, RunStopped
<1>2. CASE FeedNext
  BY <1>2 DEF FeedNext, FeedApply, FeedEnd, runVars
<1>3. CASE RunNext /\ ~(RunExitCloseFeed \/ RunExited \/ RunStop \/ RunStopped)
  <2>1. feed' = feed /\ pc \notin {"exitDrain", "stopDrain", "done"}
    BY <1>3 DEF RunNext, RunPrune, RunRetry, RunAccept, RunEOF, PtyEnabled,
       RunFeed, RunReady, RunTake, TakeEnabled, RunAttachResize,
       RunAttachFlush, RunAttachFail, RunAttach, DumpReady, RunDetach,
       RunDetachGone, RunKick, RunKickUnknown, RunResize, RunInfo
  <2>2. pc' \notin {"exitDrain", "stopDrain", "done"}
    BY <1>3 DEF RunNext, RunPrune, RunRetry, RunAccept, RunEOF, PtyEnabled,
       RunFeed, RunReady, RunTake, TakeEnabled, RunAttachResize,
       RunAttachFlush, RunAttachFail, RunAttach, DumpReady, RunDetach,
       RunDetachGone, RunKick, RunKickUnknown, RunResize, RunInfo
  <2>3. QED
    BY <2>1, <2>2
<1>4. CASE PtyBatch \/ GatherClose \/ UNCHANGED <<pc, feedVars>>
  BY <1>4 DEF PtyBatch, GatherClose, runVars
<1>5. QED
  BY <1>1, <1>2, <1>3, <1>4, LoopFrame

\* NoClosedChannel is about the channels of the clients and about feedCh.
LEMMA ClosedSplit == NoClosedChannel /\ DoneOrder <=> ChannelOnce /\ FeedOpen
BY DEF NoClosedChannel, ChannelOnce, FeedOpen

\* A session that has ended stays ended, and nothing starts in it.
LEMMA DoneStays ==
  ASSUME TypeOK, Next, done
  PROVE  /\ done' /\ (reaped => reaped')
         /\ \A c \in Conn : wpc[c] \in {"none", "done"} => wpc'[c] = wpc[c]
<1> USE DEF vars, ptyVars, feedVars, runVars, listVars, loopVars, clientVars,
            ioVars, chanVars, writerVars, envVars, connVars, callVars,
            closeVars, done
<1>1. ~RunNext
  BY DEF RunNext, RunPrune, RunRetry, RunAccept, RunEOF, PtyEnabled, RunFeed,
     RunReady, RunTake, TakeEnabled, RunAttachResize, RunAttachFlush,
     RunAttachFail, RunAttach, DumpReady, RunDetach, RunDetachGone, RunKick,
     RunKickUnknown, RunResize, RunInfo, RunExitCloseFeed, RunExited, RunStop,
     RunStopped
<1>2. CASE PtyReap
  BY <1>2, Zenon DEF PtyReap
<1>3. CASE PtyBatch \/ GatherClose \/ FeedNext \/ CallNext \/ CloseNext
  <2>1. UNCHANGED <<pc, reaped, wpc>>
    BY <1>3 DEF PtyBatch, GatherClose, FeedNext, FeedApply, FeedEnd, CallNext,
       kickClient, clientInfo, Call, CallReturn, Kill, CloseNext, CloseCall,
       CloseStop, CloseKill, CloseTimeout, CloseTerm
  <2>2. QED
    BY <2>1
<1>4. ASSUME NEW c \in Conn, HandlerNext(c) \/ PeerGone(c)
      PROVE  UNCHANGED <<pc, reaped, wpc>>
  BY <1>4 DEF PeerGone, HandlerNext, HandleAttach, HandleAttached,
     HandleAttachDone, HandleResize, HandleEnd, HandleDetach
<1>5. ASSUME NEW c \in Conn, WriterNext(c)
      PROVE  /\ UNCHANGED <<pc, reaped>> /\ wpc[c] \notin {"none", "done"}
             /\ \A d \in Conn \ {c} : wpc'[d] = wpc[d]
  BY <1>5 DEF WriterNext, WriterRecv, WriterClosed, WriteOK, WriteFinal,
     WriteErr, WriterLeave, TypeOK, TypeWriter
<1>6. QED
  BY <1>1, <1>2, <1>3, <1>4, <1>5 DEF Next, PtyNext

\* Nothing of the session runs when, and after, close() frees the terminal.
LEMMA TerminalStep ==
  ASSUME TypeOK, FeedOpen, TerminalClosedLast, Next
  PROVE  TerminalClosedLast'
<1>1. CASE ~termOpen
  <2>1. done /\ reaped /\ \A c \in Conn : wpc[c] \in {"none", "done"}
    BY <1>1 DEF TerminalClosedLast
  <2>2. done' /\ reaped' /\ \A c \in Conn : wpc'[c] \in {"none", "done"}
    BY <2>1, DoneStays
  <2>3. feed' = "done"
    BY <2>2, FeedOpenStep DEF FeedOpen, DoneOrder
  <2>4. QED
    BY <2>2, <2>3 DEF TerminalClosedLast
<1>2. CASE CloseTerm
  BY <1>2, Zenon DEF CloseTerm, WritersDone, FeedOpen, DoneOrder, done,
     TerminalClosedLast, feedVars, ptyVars, runVars, ioVars, writerVars
<1>3. CASE termOpen' = termOpen /\ termOpen
  BY <1>3 DEF TerminalClosedLast
<1>4. QED
  <2> USE DEF envVars, closeVars, vars, connVars, callVars
  <2>1. CASE RunNext
    BY <1>1, <1>3, <2>1 DEF RunNext, RunPrune, RunRetry, RunAccept, RunEOF,
       RunExitCloseFeed, RunExited, RunFeed, RunReady, RunTake,
       RunAttachResize, RunAttachFlush, RunAttachFail, RunAttach, RunDetach,
       RunDetachGone, RunKick, RunKickUnknown, RunResize, RunInfo, RunStop,
       RunStopped
  <2>2. CASE PtyNext \/ FeedNext \/ CallNext \/ CloseNext
    BY <1>1, <1>2, <1>3, <2>2 DEF PtyNext, PtyBatch, PtyReap, GatherClose,
       FeedNext, FeedApply, FeedEnd, CallNext, kickClient, clientInfo, Call,
       CallReturn, Kill, CloseNext, CloseCall, CloseStop, CloseKill, CloseTimeout
  <2>3. ASSUME NEW c \in Conn, WriterNext(c) \/ HandlerNext(c) \/ PeerGone(c)
        PROVE  termOpen' = termOpen
    BY <2>3 DEF WriterNext, WriterRecv, WriterClosed, WriteOK, WriteFinal,
       WriteErr, WriterLeave, PeerGone, HandlerNext, HandleAttach,
       HandleAttached, HandleAttachDone, HandleResize, HandleEnd, HandleDetach
  <2>4. QED
    BY <1>1, <1>3, <2>1, <2>2, <2>3 DEF Next

-----------------------------------------------------------------------------
\* The emulator's side of the output

\* No batch at all continues anything.
LEMMA ContinuesEmpty ==
  ASSUME NEW b
  PROVE  Continues(<<>>, b)
BY DEF Continues

\* A sequence without a gap continues from nothing.
LEMMA CountingContinues ==
  ASSUME NEW s \in Seq(Nat)
  PROVE  Counting(s) <=> Continues(s, 0)
BY DEF Counting, Continues

\* The next batch may be appended.
LEMMA ContinuesAppend ==
  ASSUME NEW s \in Seq(Nat), NEW b \in Nat, Continues(s, b),
         NEW k \in Nat, k = b + Len(s) + 1
  PROVE  Continues(Append(s, k), b) /\ Len(Append(s, k)) = Len(s) + 1
<1>1. Len(Append(s, k)) = Len(s) + 1 /\ Len(s) \in Nat
  OBVIOUS
<1>2. ASSUME NEW j \in 1 .. Len(s) + 1
      PROVE  Append(s, k)[j] = b + j
  <2>1. CASE j = Len(s) + 1
    BY <2>1, <1>1
  <2>2. CASE j \in 1 .. Len(s)
    BY <2>2 DEF Continues
  <2>3. QED
    BY <1>1, <2>1, <2>2
<1>3. QED
  BY <1>1, <1>2 DEF Continues

\* The first batch is the next one, and the others continue from it.
LEMMA ContinuesTail ==
  ASSUME NEW s \in Seq(Nat), NEW b \in Nat, Continues(s, b), s # <<>>
  PROVE  /\ Head(s) = b + 1 /\ Continues(Tail(s), b + 1)
         /\ Len(Tail(s)) = Len(s) - 1 /\ Len(s) > 0
<1>1. /\ Len(s) \in Nat /\ Len(s) > 0 /\ Head(s) = s[1]
      /\ Len(Tail(s)) = Len(s) - 1
      /\ \A j \in 1 .. Len(s) - 1 : Tail(s)[j] = s[j + 1]
  OBVIOUS
<1>2. Head(s) = b + 1
  BY <1>1 DEF Continues
<1>3. Continues(Tail(s), b + 1)
  BY <1>1 DEF Continues
<1>4. QED
  BY <1>1, <1>2, <1>3

\* Every step keeps the batches in order on the way to the emulator.
LEMMA FeedOrderStep ==
  ASSUME TypeOK, FeedOrder, Next
  PROVE  FeedOrder'
<1> USE DEF vars, ptyVars, feedVars, runVars, listVars, loopVars, clientVars,
            ioVars, chanVars, writerVars, envVars, connVars, callVars, closeVars
<1>0. /\ ptyOut \in Seq(Nat) /\ feedCh \in Seq(Nat) /\ screen \in Seq(Nat)
      /\ produced \in Nat /\ lastFeed \in Nat /\ pendingFeed \in Nat
      /\ Len(ptyOut) \in Nat /\ Len(feedCh) \in Nat /\ Len(screen) \in Nat
  BY DEF TypeOK, TypePty, TypeFeed, TypeRun
<1>1. CASE PtyBatch
  <2>1. ptyOut' = Append(ptyOut, produced + 1) /\ produced' = produced + 1
    BY <1>1 DEF PtyBatch
  <2>2. Continues(ptyOut, lastFeed) /\ produced + 1 = lastFeed + Len(ptyOut) + 1
    BY <1>0 DEF FeedOrder
  <2>3. Continues(ptyOut', lastFeed) /\ Len(ptyOut') = Len(ptyOut) + 1
    BY <2>1, <2>2, <1>0, ContinuesAppend
  <2>4. lastFeed + Len(ptyOut') = produced'
    BY <2>1, <2>2, <2>3, <1>0
  <2>5. QED
    BY <1>1, <2>3, <2>4 DEF PtyBatch, FeedOrder
<1>2. CASE FeedApply
  <2>1. /\ screen' = Append(screen, Head(feedCh)) /\ feedCh' = Tail(feedCh)
        /\ feedCh # <<>>
    BY <1>2 DEF FeedApply
  <2>2. Continues(screen, 0) /\ Continues(feedCh, Len(screen))
    BY <1>0, CountingContinues DEF FeedOrder
  <2>3. /\ Head(feedCh) = Len(screen) + 1 /\ Continues(feedCh', Len(screen) + 1)
        /\ Len(feedCh') = Len(feedCh) - 1
    BY <2>1, <2>2, <1>0, ContinuesTail
  <2>4. Continues(screen', 0) /\ Len(screen') = Len(screen) + 1
    <3>1. Head(feedCh) \in Nat /\ Head(feedCh) = 0 + Len(screen) + 1
      BY <2>3, <1>0
    <3>2. QED
      BY <2>1, <2>2, <3>1, <1>0, ContinuesAppend
  <2>5. Counting(screen')
    <3>1. screen' \in Seq(Nat)
      BY <2>1, <2>3, <1>0
    <3>2. QED
      BY <2>4, <3>1, CountingContinues
  <2>6. Len(screen') + Len(feedCh') = Len(screen) + Len(feedCh)
    BY <2>3, <2>4, <1>0
  <2>7. UNCHANGED <<ptyOut, lastFeed, produced, pendingFeed, pc>>
    BY <1>2 DEF FeedApply
  <2>8. QED
    BY <2>3, <2>4, <2>5, <2>6, <2>7 DEF FeedOrder
<1>3. CASE RunAccept
  <2>1. /\ ptyOut # <<>> /\ ptyOut' = Tail(ptyOut)
        /\ lastFeed' = Head(ptyOut) /\ pendingFeed' = Head(ptyOut)
        /\ pendingFeed = 0 /\ pc = "select" /\ UNCHANGED <<feedCh, screen, produced>>
    BY <1>3 DEF RunAccept, PtyEnabled
  <2>2. /\ Head(ptyOut) = lastFeed + 1 /\ Continues(ptyOut', lastFeed + 1)
        /\ Len(ptyOut') = Len(ptyOut) - 1
    BY <2>1, <1>0, ContinuesTail DEF FeedOrder
  <2>3. lastFeed' + Len(ptyOut') = produced
    BY <2>1, <2>2, <1>0 DEF FeedOrder
  <2>4. lastFeed = Len(screen) + Len(feedCh)
    BY <2>1, <1>0 DEF FeedOrder
  <2>5. QED
    BY <2>1, <2>2, <2>3, <2>4, <1>0 DEF FeedOrder
<1>4. CASE RunFeed \/ RunAttachFlush
  <2>1. /\ feedCh' = Append(feedCh, pendingFeed)
        /\ pendingFeed # 0 /\ pendingFeed' = 0 /\ pc \in {"select", "attach"}
        /\ UNCHANGED <<ptyOut, screen, lastFeed, produced>>
    BY <1>4 DEF RunFeed, RunAttachFlush
  <2>2. pendingFeed = lastFeed /\ lastFeed = Len(screen) + Len(feedCh) + 1
    BY <2>1 DEF FeedOrder
  <2>3. Continues(feedCh', Len(screen)) /\ Len(feedCh') = Len(feedCh) + 1
    BY <2>1, <2>2, <1>0, ContinuesAppend DEF FeedOrder
  <2>4. QED
    BY <2>1, <2>2, <2>3, <1>0 DEF FeedOrder
<1>5. CASE /\ UNCHANGED <<ptyOut, feedCh, screen, lastFeed, produced>>
           /\ \/ pc' \in {"stopDrain", "done"}
              \/ UNCHANGED pendingFeed /\ pc \notin {"stopDrain", "done"}
              \/ UNCHANGED <<pendingFeed, pc>>
  BY <1>5 DEF FeedOrder
<1>6. QED
  <2>1. CASE RunNext
    <3>1. CASE RunPrune \/ RunRetry \/ RunEOF \/ RunReady \/ RunTake
               \/ RunAttachResize \/ RunAttachFail \/ RunAttach
      BY <3>1, <1>5 DEF RunPrune, RunRetry, RunEOF, PtyEnabled, RunReady,
         RunTake, TakeEnabled, RunAttachResize, RunAttachFail, RunAttach,
         DumpReady
    <3>2. CASE RunDetach \/ RunDetachGone \/ RunKick \/ RunKickUnknown
               \/ RunResize \/ RunInfo
      BY <3>2, <1>5 DEF RunDetach, RunDetachGone, RunKick, RunKickUnknown,
         RunResize, RunInfo
    <3>3. CASE RunExitCloseFeed \/ RunExited \/ RunStop \/ RunStopped
      BY <3>3, <1>5 DEF RunExitCloseFeed, RunExited, RunStop, RunStopped
    <3>4. QED
      BY <2>1, <3>1, <3>2, <3>3, <1>3, <1>4 DEF RunNext
  <2>2. CASE GatherClose \/ FeedEnd
    BY <2>2, <1>5 DEF GatherClose, FeedEnd
  <2>3. CASE UNCHANGED <<pc, feedVars, pendingFeed, lastFeed, produced,
                         ptyOut, ptyClosed>>
    BY <2>3, <1>5
  <2>4. QED
    BY <2>1, <2>2, <2>3, <1>1, <1>2, LoopFrame DEF FeedNext

\* The dump that a newcomer gets is of all the output accepted so far.
LEMMA DumpComplete ==
  ASSUME TypeOK, FeedOrder, DumpReady
  PROVE  Len(screen) = lastFeed
<1>1. /\ Len(screen) \in Nat /\ Len(feedCh) \in Nat /\ lastFeed \in Nat
      /\ pc = "attach" /\ pendingFeed = 0
  BY DEF TypeOK, TypeFeed, TypeRun, DumpReady
<1>2. lastFeed = Len(screen) + Len(feedCh)
  BY <1>1 DEF FeedOrder
<1>3. lastFeed <= Len(screen)
  BY <1>1 DEF DumpReady, Applied, FeedOrder, Counting
<1>4. QED
  BY <1>1, <1>2, <1>3

-----------------------------------------------------------------------------
\* Queues of messages

\* Output and what continues it make one output.
LEMMA ContinuesConcat ==
  ASSUME NEW s \in Seq(Nat), NEW d \in Seq(Nat),
         Continues(s, 0), Continues(d, Len(s))
  PROVE  Continues(s \o d, 0) /\ Len(s \o d) = Len(s) + Len(d)
<1>1. Len(s) \in Nat /\ Len(d) \in Nat /\ Len(s \o d) = Len(s) + Len(d)
  OBVIOUS
<1>2. ASSUME NEW j \in 1 .. Len(s) + Len(d)
      PROVE  (s \o d)[j] = 0 + j
  <2>1. CASE j \in 1 .. Len(s)
    <3>1. (s \o d)[j] = s[j]
      BY <2>1
    <3>2. QED
      BY <2>1, <3>1 DEF Continues
  <2>2. CASE j - Len(s) \in 1 .. Len(d)
    <3>1. (s \o d)[j] = d[j - Len(s)]
      BY <2>2, <1>1
    <3>2. d[j - Len(s)] = Len(s) + (j - Len(s))
      BY <2>2 DEF Continues
    <3>3. QED
      BY <3>1, <3>2, <1>1
  <2>3. QED
    BY <2>1, <2>2, <1>1
<1>3. QED
  BY <1>1, <1>2 DEF Continues

\* No message takes a terminal nowhere.
LEMMA CarriesEmpty ==
  ASSUME NEW b \in Nat
  PROVE  Carries(<<>>, b, b)
<1> DEFINE f == [i \in 0 .. 0 |-> b]
<1>1. Len(<<>>) = 0
  OBVIOUS
<1>2. f \in [0 .. Len(<<>>) -> 0 .. b] /\ f[0] = b
  BY <1>1
<1>3. \A i \in 1 .. Len(<<>>) : FALSE
  BY <1>1
<1> HIDE DEF f
<1>4. QED
  BY <1>1, <1>2, <1>3 DEF Carries

\* Messages never take a terminal back.
LEMMA CarriesBounds ==
  ASSUME NEW q, NEW b, NEW t \in Nat, Carries(q, b, t), Len(q) \in Nat
  PROVE  b \in Nat /\ b <= t /\ (q = <<>> => b = t)
BY DEF Carries

\* A message that continues where the queue ends may be appended.
LEMMA CarriesAppend ==
  ASSUME NEW q \in Seq(Message), NEW m \in Message, NEW b, NEW t \in Nat,
         Carries(q, b, t), Continues(m.data, t)
  PROVE  Carries(Append(q, m), b, t + Len(m.data))
<1>1. PICK f \in [0 .. Len(q) -> 0 .. t] :
        /\ f[0] = b /\ f[Len(q)] = t
        /\ \A i \in 1 .. Len(q) : /\ f[i] = f[i - 1] + Len(q[i].data)
                                  /\ Continues(q[i].data, f[i - 1])
  BY DEF Carries
<1> DEFINE n == Len(q)
           u == t + Len(m.data)
           g == [i \in 0 .. n + 1 |-> IF i = n + 1 THEN u ELSE f[i]]
           r == Append(q, m)
<1>2. /\ n \in Nat /\ Len(r) = n + 1 /\ Len(m.data) \in Nat /\ u \in Nat
      /\ \A i \in 1 .. n : r[i] = q[i]
      /\ r[n + 1] = m
  BY DEF Message
<1>3. \A i \in 0 .. n : f[i] \in 0 .. u
  BY <1>2
<1>4. g \in [0 .. n + 1 -> 0 .. u]
  BY <1>2, <1>3
<1>5. g[0] = b /\ g[n + 1] = u /\ g[n] = t /\ \A i \in 0 .. n : g[i] = f[i]
  BY <1>1, <1>2
<1> HIDE DEF g, r, n
<1>6. ASSUME NEW i \in 1 .. n + 1
      PROVE  /\ g[i] = g[i - 1] + Len(r[i].data)
             /\ Continues(r[i].data, g[i - 1])
  <2>1. CASE i \in 1 .. n
    <3>1. i \in 0 .. n /\ i - 1 \in 0 .. n
      BY <2>1, <1>2
    <3>2. QED
      BY <1>1, <1>2, <1>5, <2>1, <3>1 DEF n
  <2>2. CASE i = n + 1
    <3>1. i - 1 = n
      BY <2>2, <1>2
    <3>2. QED
      BY <1>2, <1>5, <2>2, <3>1
  <2>3. QED
    BY <1>2, <2>1, <2>2
<1> HIDE DEF u
<1>7. Carries(r, b, u)
  BY <1>2, <1>4, <1>5, <1>6 DEF Carries
<1>8. QED
  BY <1>7 DEF r, u

\* The first message continues what the terminal shows, the others continue
\* from there.
LEMMA CarriesTail ==
  ASSUME NEW q \in Seq(Message), NEW b, NEW t \in Nat, Carries(q, b, t), q # <<>>
  PROVE  /\ Continues(Head(q).data, b)
         /\ Carries(Tail(q), b + Len(Head(q).data), t)
<1>1. PICK f \in [0 .. Len(q) -> 0 .. t] :
        /\ f[0] = b /\ f[Len(q)] = t
        /\ \A i \in 1 .. Len(q) : /\ f[i] = f[i - 1] + Len(q[i].data)
                                  /\ Continues(q[i].data, f[i - 1])
  BY DEF Carries
<1> DEFINE n == Len(q)
           r == Tail(q)
           g == [i \in 0 .. n - 1 |-> f[i + 1]]
<1>2. /\ n \in Nat /\ n > 0 /\ Len(r) = n - 1 /\ Head(q) = q[1]
      /\ \A i \in 1 .. n - 1 : r[i] = q[i + 1]
  OBVIOUS
<1>3. Continues(q[1].data, b) /\ f[1] = b + Len(q[1].data)
  BY <1>1, <1>2
<1>4. g \in [0 .. n - 1 -> 0 .. t]
  BY <1>2
<1>5. g[0] = f[1] /\ g[n - 1] = t /\ \A i \in 0 .. n - 1 : g[i] = f[i + 1]
  BY <1>1, <1>2
<1> HIDE DEF g, r, n
<1>6. ASSUME NEW i \in 1 .. n - 1
      PROVE  /\ g[i] = g[i - 1] + Len(r[i].data)
             /\ Continues(r[i].data, g[i - 1])
  <2>1. i \in 0 .. n - 1 /\ i - 1 \in 0 .. n - 1 /\ (i - 1) + 1 = i /\ i + 1 \in 1 .. n
        /\ (i + 1) - 1 = i
    BY <1>2
  <2>2. g[i] = f[i + 1] /\ g[i - 1] = f[i] /\ r[i] = q[i + 1]
    BY <1>2, <1>5, <2>1
  <2>3. f[i + 1] = f[i] + Len(q[i + 1].data) /\ Continues(q[i + 1].data, f[i])
    BY <1>1, <2>1 DEF n
  <2>4. QED
    BY <2>2, <2>3
<1>7. Carries(r, f[1], t)
  BY <1>2, <1>4, <1>5, <1>6 DEF Carries
<1>8. QED
  BY <1>2, <1>3, <1>7 DEF r

\* A notification shows nothing.
LEMMA NotifiedCarries ==
  ASSUME TypeOK, NEW c \in Conn, NEW S, NEW b, NEW t \in Nat,
         Carries(outCh[c], b, t)
  PROVE  Carries(Notified(outCh, S)[c], b, t)
<1>1. outCh[c] \in Seq(Message) /\ ClientsChanged \in Message
  BY MessageType DEF TypeOK, TypeChan, ChanType
<1>2. ClientsChanged.data = <<>> /\ Len(ClientsChanged.data) = 0
  BY DEF ClientsChanged
<1>3. Continues(ClientsChanged.data, t)
  BY <1>2, ContinuesEmpty
<1>4. Carries(Append(outCh[c], ClientsChanged), b, t + Len(ClientsChanged.data))
  BY <1>1, <1>3, CarriesAppend
<1>5. Carries(Append(outCh[c], ClientsChanged), b, t)
  BY <1>2, <1>4
<1>6. Notified(outCh, S)[c] \in {outCh[c], Append(outCh[c], ClientsChanged)}
  BY DEF Notified
<1>7. QED
  BY <1>5, <1>6

\* A batch of output shows that batch.
LEMMA OutputCarries ==
  ASSUME TypeOK, NEW c \in Conn, NEW b, NEW t \in Nat, Carries(outCh[c], b, t)
  PROVE  Carries(Append(outCh[c], Output(t + 1)), b, t + 1)
<1>1. outCh[c] \in Seq(Message) /\ Output(t + 1) \in Message
  BY MessageType DEF TypeOK, TypeChan, ChanType
<1>2. Output(t + 1).data = <<t + 1>> /\ Len(Output(t + 1).data) = 1
  BY DEF Output
<1>3. Continues(Output(t + 1).data, t)
  BY <1>2 DEF Continues
<1>4. Carries(Append(outCh[c], Output(t + 1)), b, t + Len(Output(t + 1).data))
  BY <1>1, <1>3, CarriesAppend
<1>5. QED
  BY <1>2, <1>4

-----------------------------------------------------------------------------
\* The client's side of the output

\* Clients leave the list, the others are told.
LEMMA StreamLeave ==
  ASSUME TypeOK, StreamOrder, ExitOrder, ~done, NEW S,
         clients' \subseteq clients,
         \A c \in clients' : c \in pendingClients' <=> c \in pendingClients,
         pendingClients' \subseteq pendingClients,
         outCh' = outCh \/ outCh' = Notified(outCh, S),
         UNCHANGED <<final, writerVars, lastFeed>>
  PROVE  StreamOrder'
<1>1. pendingClients' # {} => lastFeed' > 0
  BY DEF StreamOrder
<1>2. ASSUME NEW c \in Conn
      PROVE  StreamOf(c)'
  <2>1. StreamOf(c) /\ ~final[c]
    BY DEF StreamOrder, ExitOrder
  <2>2. UNCHANGED <<view, hand, wpc, final, lastFeed>>
    BY DEF writerVars
  <2>3. Base(c)' = Base(c) /\ (Finished(c)' <=> Finished(c))
    BY <2>2 DEF Base, Finished
  <2>4. \A t \in Nat :
          Carries(outCh[c], Base(c), t) => Carries(outCh'[c], Base(c), t)
    BY NotifiedCarries
  <2>5. lastFeed \in Nat /\ (c \in clients' => Reach(c)' = Reach(c) /\ Reach(c) \in Nat)
    BY <2>2 DEF Reach, TypeOK, TypeRun, StreamOrder
  <2>6. (c \in clients' \/ final'[c]) /\ ~Finished(c)' =>
          Carries(outCh'[c], Base(c)', Reach(c)')
    BY <2>1, <2>2, <2>3, <2>4, <2>5 DEF StreamOf
  <2>7. wpc'[c] # "none" =>
          \E t \in 0 .. lastFeed' : Carries(outCh'[c], Base(c)', t)
    BY <2>1, <2>2, <2>3, <2>4, <2>5 DEF StreamOf
  <2>8. QED
    BY <2>1, <2>2, <2>6, <2>7 DEF StreamOf
<1>3. QED
  BY <1>1, <1>2 DEF StreamOrder

\* Arithmetic.
LEMMA Predecessor ==
  ASSUME NEW k \in Nat, k > 0
  PROVE  k - 1 \in Nat /\ (k - 1) + 1 = k
OBVIOUS

\* A batch is queued for the clients S that lack it.
LEMMA StreamQueue ==
  ASSUME TypeOK, StreamOrder, ExitOrder, ~done, NEW S, S \subseteq clients,
         lastFeed' \in Nat, lastFeed' > 0, lastFeed' >= lastFeed,
         \A c \in S : Reach(c) = lastFeed' - 1,
         \A c \in clients \ S : Reach(c) = lastFeed',
         clients' = clients, outCh' = Queued(S, lastFeed'), pendingClients' = Blocked(S),
         UNCHANGED <<final, writerVars>>
  PROVE  StreamOrder'
<1>1. ASSUME NEW c \in Conn
      PROVE  StreamOf(c)'
  <2>0. lastFeed' - 1 \in Nat /\ (lastFeed' - 1) + 1 = lastFeed'
    BY Predecessor
  <2>1. StreamOf(c) /\ ~final[c]
    BY DEF StreamOrder, ExitOrder
  <2>2. UNCHANGED <<view, hand, wpc, final, clients>>
    BY DEF writerVars
  <2>3. /\ Base(c)' = Base(c) /\ (Finished(c)' <=> Finished(c))
        /\ lastFeed \in Nat /\ lastFeed' \in Nat
    BY <2>2 DEF Base, Finished, TypeOK, TypeRun
  <2>4. CASE c \in S /\ ~Finished(c) /\ HasRoom(c)
    <3>1. outCh'[c] = Append(outCh[c], Output(lastFeed')) /\ c \notin pendingClients'
      BY <2>4 DEF Queued, Blocked
    <3>2. Carries(outCh[c], Base(c), lastFeed' - 1)
      BY <2>1, <2>4 DEF StreamOf
    <3>3. Carries(Append(outCh[c], Output((lastFeed' - 1) + 1)), Base(c),
                  (lastFeed' - 1) + 1)
      BY <2>0, <2>3, <3>2, OutputCarries
    <3>5. Carries(outCh'[c], Base(c)', lastFeed')
      BY <2>0, <2>3, <3>1, <3>3
    <3>6. Reach(c)' = lastFeed' /\ lastFeed' \in 0 .. lastFeed'
      BY <2>3, <3>1 DEF Reach
    <3>7. QED
      BY <2>1, <2>2, <3>5, <3>6 DEF StreamOf
  <2>5. CASE ~(c \in S /\ ~Finished(c) /\ HasRoom(c))
    <3>1. outCh'[c] = outCh[c] /\ (c \in pendingClients' <=> c \in S /\ ~Finished(c))
      BY <2>5 DEF Queued, Blocked
    <3>2. c \in clients /\ ~Finished(c) => Reach(c)' = Reach(c)
      BY <2>3, <3>1 DEF Reach
    <3>3. (c \in clients' \/ final'[c]) /\ ~Finished(c)' =>
          Carries(outCh'[c], Base(c)', Reach(c)')
      BY <2>1, <2>2, <2>3, <3>1, <3>2 DEF StreamOf
    <3>4. wpc'[c] # "none" =>
          \E t \in 0 .. lastFeed' : Carries(outCh'[c], Base(c)', t)
      <4>1. \A t \in 0 .. lastFeed : t \in 0 .. lastFeed'
        BY <2>3
      <4>2. QED
        BY <2>1, <2>2, <2>3, <3>1, <4>1 DEF StreamOf
    <3>5. QED
      BY <2>1, <2>2, <3>3, <3>4 DEF StreamOf
  <2>6. QED
    BY <2>4, <2>5
<1>2. QED
  BY <1>1 DEF StreamOrder

\* The newcomer starts with a dump of all that was accepted; to the others the
\* step is a notification.
LEMMA StreamAttach ==
  ASSUME TypeOK, Unused, AttachOnce, HeldBack, FeedOrder, StreamOrder, ExitOrder,
         RunAttach
  PROVE  StreamOrder'
<1>1a. PICK n \in Conn : n = cur.conn
  BY AttachTarget DEF RunAttach, DumpReady
<1>0. /\ pc = "attach" /\ ~done
      /\ UNCHANGED <<pendingClients, lastFeed, final, hand, view>>
      /\ clients' = clients \cup {n} /\ wpc' = [wpc EXCEPT ![n] = "recv"]
  BY <1>1a DEF RunAttach, DumpReady, done
<1>1. /\ n \in Conn /\ n \notin clients /\ wpc[n] = "none" /\ hand[n] = <<>>
      /\ view[n] = <<>> /\ ~final[n]
  BY <1>1a, <1>0, AttachTarget
<1>2. lastFeed \in Nat /\ Len(screen) = lastFeed /\ Attached(screen) \in Message
  BY DumpComplete, MessageType DEF RunAttach, TypeOK, TypeRun, TypeFeed
<1>3. ASSUME NEW c \in Conn, c # n
      PROVE  StreamOf(c)'
  <2>1. StreamOf(c) /\ ~final[c]
    BY <1>0 DEF StreamOrder, ExitOrder
  <2>2. /\ Base(c)' = Base(c) /\ wpc'[c] = wpc[c] /\ (Finished(c)' <=> Finished(c))
        /\ Reach(c)' = Reach(c) /\ (c \in clients' <=> c \in clients)
    BY <1>0, <1>1, <1>3 DEF Base, Finished, Reach, TypeOK, TypeWriter
  <2>3. c \in clients => Reach(c) \in Nat
    BY <1>2 DEF Reach, StreamOrder
  <2>4. \A t \in Nat :
          Carries(outCh[c], Base(c), t) => Carries(outCh'[c], Base(c), t)
    BY <1>1a, <1>3, AttachChan, NotifiedCarries
  <2>5. (c \in clients' \/ final'[c]) /\ ~Finished(c)' =>
          Carries(outCh'[c], Base(c)', Reach(c)')
    BY <2>1, <2>2, <2>3, <2>4, <1>0 DEF StreamOf
  <2>6. wpc'[c] # "none" =>
          \E t \in 0 .. lastFeed' : Carries(outCh'[c], Base(c)', t)
    BY <2>1, <2>2, <2>4, <1>0, <1>2 DEF StreamOf
  <2>7. QED
    BY <2>1, <2>2, <2>5, <2>6, <1>0 DEF StreamOf
<1>4. StreamOf(n)'
  <2>1. Counting(view'[n]) /\ Continues(hand'[n], Len(view'[n])) /\ hand'[n] = <<>>
    BY <1>0, <1>1, ContinuesEmpty DEF Counting
  <2>2. Base(n)' = 0
    BY <1>0, <1>1 DEF Base
  <2>3. Reach(n)' = lastFeed
    BY <1>0, <1>1 DEF Reach, HeldBack
  <2>4. Attached(screen).data = screen /\ Continues(screen, 0)
    BY CountingContinues DEF Attached, FeedOrder, TypeOK, TypeFeed
  <2>5. Carries(Append(<<>>, Attached(screen)), 0, 0 + Len(Attached(screen).data))
    <3>1. Carries(<<>>, 0, 0) /\ <<>> \in Seq(Message)
      BY CarriesEmpty
    <3>2. Continues(Attached(screen).data, 0)
      BY <2>4
    <3>3. QED
      BY <1>2, <3>1, <3>2, CarriesAppend
  <2>6. Append(<<>>, Attached(screen)) = <<Attached(screen)>>
    OBVIOUS
  <2>7. Carries(<<Attached(screen)>>, 0, lastFeed)
    BY <1>2, <2>4, <2>5, <2>6
  <2>8. Carries(Append(<<Attached(screen)>>, ClientsChanged), 0, lastFeed)
    <3>1. /\ ClientsChanged \in Message /\ Len(ClientsChanged.data) = 0
          /\ ClientsChanged.data = <<>> /\ <<Attached(screen)>> \in Seq(Message)
      BY <1>2, MessageType DEF ClientsChanged
    <3>2. Carries(Append(<<Attached(screen)>>, ClientsChanged), 0,
                  lastFeed + Len(ClientsChanged.data))
      BY <1>2, <2>7, <3>1, ContinuesEmpty, CarriesAppend
    <3>3. QED
      BY <1>2, <3>1, <3>2
  <2>9. Carries(outCh'[n], 0, lastFeed)
    BY <1>1a, <2>7, <2>8, AttachChan
  <2>10. lastFeed \in 0 .. lastFeed
    BY <1>2
  <2>11. QED
    BY <1>0, <2>1, <2>2, <2>3, <2>9, <2>10 DEF StreamOf
<1>5. QED
  BY <1>0, <1>3, <1>4 DEF StreamOrder

\* The writer of c moves.
LEMMA StreamWriter ==
  ASSUME TypeOK, StreamOrder, NEW c \in Conn, WriterNext(c)
  PROVE  StreamOrder'
<1>0. /\ UNCHANGED <<clients, pendingClients, lastFeed, final>>
      /\ \A d \in Conn \ {c} : /\ wpc'[d] = wpc[d] /\ hand'[d] = hand[d]
                               /\ view'[d] = view[d] /\ outCh'[d] = outCh[d]
  BY DEF WriterNext, WriterRecv, WriterClosed, WriteOK, WriteFinal, WriteErr,
     WriterLeave, runVars, listVars, loopVars, chanVars, TypeOK, TypeWriter,
     TypeChan, ChanType
<1>1. ASSUME NEW d \in Conn \ {c}
      PROVE  StreamOf(d)'
  <2>1. StreamOf(d)
    BY DEF StreamOrder
  <2>2. QED
    BY <1>0, <2>1 DEF StreamOf, Base, Reach, Finished
<1>2. /\ StreamOf(c) /\ hand[c] \in Seq(Nat) /\ view[c] \in Seq(Nat)
      /\ Len(hand[c]) \in Nat /\ Len(view[c]) \in Nat /\ outCh[c] \in Seq(Message)
      /\ lastFeed \in Nat
      /\ c \in clients \/ final[c] => Reach(c) \in 0 .. lastFeed
  BY DEF StreamOrder, TypeOK, TypeWriter, TypeChan, ChanType, TypeRun, Reach
<1>3. Reach(c)' = Reach(c)
  BY <1>0 DEF Reach
<1>4. ASSUME WriterRecv(c)
      PROVE  StreamOf(c)'
  <2> DEFINE m == Head(outCh[c])
  <2>1. /\ wpc[c] = "recv" /\ outCh[c] # <<>> /\ hand'[c] = m.data
        /\ outCh'[c] = Tail(outCh[c]) /\ view' = view /\ wpc'[c] = "write"
    BY <1>4 DEF WriterRecv, TypeOK, TypeWriter, TypeChan, ChanType
  <2>2. hand[c] = <<>> /\ Base(c) = Len(view[c])
    <3>1. hand[c] = <<>>
      BY <1>2, <2>1 DEF StreamOf
    <3>2. QED
      BY <1>2, <3>1 DEF Base
  <2>3. m \in Message /\ Len(m.data) \in Nat
    <3>1. m \in Message
      BY <1>2, <2>1
    <3>2. QED
      BY <3>1 DEF Message
  <2>4. Base(c)' = Base(c) + Len(m.data)
    BY <2>1, <2>2 DEF Base
  <2>5. \A t \in 0 .. lastFeed : Carries(outCh[c], Base(c), t) =>
          /\ Continues(m.data, Base(c))
          /\ Carries(outCh'[c], Base(c)', t)
    BY <1>2, <2>1, <2>4, CarriesTail
  <2>6. PICK t \in 0 .. lastFeed : Carries(outCh[c], Base(c), t)
    BY <1>2, <2>1 DEF StreamOf
  <2>7. Continues(hand'[c], Len(view'[c])) /\ Carries(outCh'[c], Base(c)', t)
    BY <2>1, <2>2, <2>5, <2>6
  <2>8. c \in clients \/ final[c] => Carries(outCh'[c], Base(c)', Reach(c)')
    BY <1>2, <1>3, <2>1, <2>5 DEF StreamOf, Finished
  <2>9. Counting(view'[c])
    BY <1>2, <2>1 DEF StreamOf
  <2>10. QED
    BY <1>0, <2>1, <2>7, <2>8, <2>9 DEF StreamOf
<1>5. ASSUME WriteOK(c)
      PROVE  StreamOf(c)'
  <2>1. /\ view'[c] = view[c] \o hand[c] /\ hand'[c] = <<>> /\ outCh' = outCh
        /\ wpc[c] = "write" /\ wpc'[c] = "recv"
    BY <1>5 DEF WriteOK, TypeOK, TypeWriter, chanVars
  <2>2. Continues(view[c], 0) /\ Continues(hand[c], Len(view[c]))
    BY <1>2, CountingContinues DEF StreamOf
  <2>3. Continues(view'[c], 0) /\ Len(view'[c]) = Len(view[c]) + Len(hand[c])
    BY <1>2, <2>1, <2>2, ContinuesConcat
  <2>4. view'[c] \in Seq(Nat) /\ Len(hand'[c]) = 0
    BY <1>2, <2>1
  <2>5. Counting(view'[c])
    BY <2>3, <2>4, CountingContinues
  <2>6. Base(c)' = Base(c)
    BY <1>2, <2>3, <2>4 DEF Base
  <2>7. Continues(hand'[c], Len(view'[c]))
    BY <2>1, ContinuesEmpty
  <2>8. QED
    BY <1>0, <1>2, <1>3, <2>1, <2>5, <2>6, <2>7 DEF StreamOf, Finished
<1>6. ASSUME WriterClosed(c) \/ WriteFinal(c) \/ WriteErr(c) \/ WriterLeave(c)
      PROVE  StreamOf(c)'
  <2>1. /\ UNCHANGED <<view, hand, outCh>> /\ wpc[c] # "none"
        /\ wpc'[c] \in {"final", "leaving", "done"}
        /\ wpc'[c] = "final" => wpc[c] = "recv"
    BY <1>6 DEF WriterClosed, WriteFinal, WriteErr, WriterLeave, chanVars,
       TypeOK, TypeWriter
  <2>2. Base(c)' = Base(c) /\ (~Finished(c)' => ~Finished(c))
    BY <2>1 DEF Base, Finished
  <2>3. QED
    BY <1>0, <1>2, <1>3, <2>1, <2>2 DEF StreamOf
<1>7. StreamOf(c)'
  BY <1>4, <1>5, <1>6 DEF WriterNext
<1>8. QED
  BY <1>0, <1>1, <1>7 DEF StreamOrder

\* Every step keeps the output of every client without a gap.
LEMMA StreamStep ==
  ASSUME TypeOK, Unused, AttachOnce, HeldBack, FeedOrder, StreamOrder, ExitOrder,
         Next
  PROVE  StreamOrder'
<1>0. lastFeed \in Nat /\ pendingClients \subseteq clients
  BY DEF TypeOK, TypeRun, HeldBack
<1>1. CASE RunPrune \/ RunTake
  <2> DEFINE gone == {c \in clients : Finished(c)}
  <2>1. /\ clients' = clients \ gone /\ pendingClients' = pendingClients \ gone
        /\ outCh' = outCh \/ outCh' = Notified(outCh, clients \ gone)
        /\ UNCHANGED <<final, writerVars, lastFeed>> /\ ~done
    BY <1>1 DEF RunPrune, RunTake, TakeEnabled, pruneFinishedClients,
       StillPending, loopVars, done
  <2> HIDE DEF gone
  <2>2. /\ clients' \subseteq clients /\ pendingClients' \subseteq pendingClients
        /\ \A c \in clients' : c \in pendingClients' <=> c \in pendingClients
    BY <2>1
  <2>3. QED
    BY <2>1, <2>2, StreamLeave
<1>2. CASE RunDetach \/ RunKick
  <2>1. PICK d \in clients : Leave(d)
    BY <1>2 DEF RunDetach, RunKick, Listed
  <2>2. UNCHANGED <<final, writerVars, lastFeed>> /\ ~done
    BY <1>2 DEF RunDetach, RunKick, done
  <2>3. /\ clients' \subseteq clients /\ pendingClients' \subseteq pendingClients
        /\ \A c \in clients' : c \in pendingClients' <=> c \in pendingClients
        /\ outCh' = Notified(outCh, clients \ {d})
    BY <2>1 DEF Leave
  <2>4. QED
    BY <2>2, <2>3, StreamLeave
<1>3. CASE RunRetry
  <2>1. /\ clients' = clients /\ outCh' = Queued(pendingClients, pendingOutput)
        /\ pendingClients' = Blocked(pendingClients) /\ lastFeed' = lastFeed
        /\ UNCHANGED <<final, writerVars>> /\ ~done
    BY <1>3 DEF RunRetry, loopVars, done
  <2>2. CASE pendingClients = {}
    <3>1. outCh' = outCh /\ pendingClients' = {}
      BY <2>1, <2>2 DEF Queued, Blocked, TypeOK, TypeChan, ChanType
    <3>2. QED
      BY <2>1, <2>2, <3>1, StreamLeave
  <2>3. CASE pendingClients # {}
    <3>1. pendingOutput = lastFeed /\ lastFeed > 0
      BY <2>3 DEF HeldBack, StreamOrder
    <3>2. /\ \A c \in pendingClients : Reach(c) = lastFeed - 1
          /\ \A c \in clients \ pendingClients : Reach(c) = lastFeed
      BY DEF Reach
    <3>3. QED
      BY <1>0, <2>1, <3>1, <3>2, StreamQueue
  <2>4. QED
    BY <2>2, <2>3
<1>4. CASE RunAccept
  <2>1. /\ clients' = clients /\ outCh' = Queued(clients, Head(ptyOut))
        /\ pendingClients' = Blocked(clients) /\ lastFeed' = Head(ptyOut)
        /\ UNCHANGED <<final, writerVars>> /\ ~done
        /\ pendingOutput = 0 /\ ptyOut # <<>>
    BY <1>4 DEF RunAccept, PtyEnabled, done
  <2>2. Head(ptyOut) = lastFeed + 1
    BY <1>0, <2>1, ContinuesTail DEF FeedOrder, TypeOK, TypePty
  <2>3. pendingClients = {}
    BY <1>0, <2>1 DEF HeldBack, StreamOrder
  <2>4. /\ \A c \in clients : Reach(c) = lastFeed' - 1
        /\ lastFeed' \in Nat /\ lastFeed' > 0 /\ lastFeed' >= lastFeed
    BY <1>0, <2>1, <2>2, <2>3 DEF Reach
  <2>5. \A c \in clients \ clients : Reach(c) = lastFeed'
    OBVIOUS
  <2>6. QED
    BY <2>1, <2>4, <2>5, StreamQueue
<1>5. CASE RunExited \/ RunStopped
  <2>1. /\ UNCHANGED <<outCh, view, hand, wpc, lastFeed>> /\ clients' = {}
        /\ pendingClients' = {} /\ ~done
        /\ \/ final' = final
           \/ /\ pc = "exitDrain" /\ pendingClients = {}
              /\ \A c \in Conn : final'[c] => final[c] \/ c \in clients
    BY <1>5 DEF RunExited, RunStopped, loopVars, writerVars, done, ExitOrder
  <2>2. ASSUME NEW c \in Conn
        PROVE  StreamOf(c)'
    <3>1. StreamOf(c) /\ ~final[c]
      BY <2>1 DEF StreamOrder, ExitOrder
    <3>2. Base(c)' = Base(c) /\ (Finished(c)' <=> Finished(c)) /\ Reach(c)' = lastFeed
      BY <2>1 DEF Base, Finished, Reach
    <3>3. final'[c] => c \in clients /\ Reach(c) = lastFeed
      BY <2>1, <3>1 DEF Reach
    <3>4. QED
      BY <2>1, <3>1, <3>2, <3>3 DEF StreamOf
  <2>3. QED
    BY <2>1, <2>2 DEF StreamOrder
<1>6. CASE RunAttach
  BY <1>6, StreamAttach
<1>7. ASSUME NEW c \in Conn, WriterNext(c)
      PROVE  StreamOrder'
  BY <1>7, StreamWriter
<1>8. CASE UNCHANGED <<listVars, chanVars, writerVars, lastFeed>>
  BY <1>8 DEF listVars, chanVars, writerVars, StreamOrder, StreamOf, Base,
     Reach, Finished
<1>9. QED
  BY <1>1, <1>2, <1>3, <1>4, <1>5, <1>6, <1>7, <1>8, ListFrame

-----------------------------------------------------------------------------
\* The end of the session

\* While run() runs, no client has its final message.
LEMMA NotFinal ==
  ASSUME TypeOK, ExitOrder, ~done, NEW c \in Conn
  PROVE  ~final[c] /\ wpc[c] # "final" /\ ~gotExited[c]
BY DEF ExitOrder

\* run() sets the final messages only when all output is queued.
LEMMA ExitRun ==
  ASSUME TypeOK, Unused, AttachOnce, HeldBack, FeedOrder, StreamOrder, ExitOrder,
         RunNext
  PROVE  ExitOrder'
<1>1. ~done
  BY DEF done, RunNext, RunPrune, RunRetry, RunAccept, RunEOF, PtyEnabled,
     RunFeed, RunReady, RunTake, TakeEnabled, RunAttachResize, RunAttachFlush,
     RunAttachFail, RunAttach, DumpReady, RunDetach, RunDetachGone, RunKick,
     RunKickUnknown, RunResize, RunInfo, RunExitCloseFeed, RunExited, RunStop,
     RunStopped
<1>2. UNCHANGED <<reaped, ptyClosed, produced, gotExited>>
  BY DEF RunNext, RunPrune, RunRetry, RunAccept, RunEOF, RunFeed, RunReady,
     RunTake, RunAttachResize, RunAttachFlush, RunAttachFail, RunAttach,
     RunDetach, RunDetachGone, RunKick, RunKickUnknown, RunResize, RunInfo,
     RunExitCloseFeed, RunExited, RunStop, RunStopped, ptyVars, ioVars,
     writerVars
<1>3. ptyClosed' /\ ~done' => reaped'
  BY <1>1, <1>2 DEF ExitOrder
<1>4. \A c \in Conn : wpc'[c] # "final" /\ ~gotExited'[c]
  <2>1. CASE RunAttach
    BY <1>1, <1>2, <2>1, NotFinal DEF RunAttach, TypeOK, TypeWriter
  <2>2. CASE wpc' = wpc
    BY <1>1, <1>2, <2>2, NotFinal
  <2>3. QED
    BY <2>1, <2>2 DEF RunNext, RunPrune, RunRetry, RunAccept, RunEOF, RunFeed,
       RunReady, RunTake, RunAttachResize, RunAttachFlush, RunAttachFail,
       RunDetach, RunDetachGone, RunKick, RunKickUnknown, RunResize, RunInfo,
       RunExitCloseFeed, RunExited, RunStop, RunStopped, ioVars, writerVars
<1>5. CASE RunExited
  <2>1. /\ pc = "exitDrain" /\ pc' = "done" /\ pendingClients' = {}
        /\ UNCHANGED <<lastFeed, ptyOut>>
    BY <1>5 DEF RunExited, ptyVars, loopVars
  <2>2. reaped /\ ptyClosed /\ ptyOut = <<>>
    BY <1>1, <2>1 DEF ExitOrder
  <2>3. lastFeed = produced
    BY <2>2 DEF FeedOrder, TypeOK, TypePty, TypeRun
  <2>4. QED
    BY <1>2, <1>3, <1>4, <2>1, <2>2, <2>3 DEF ExitOrder, done
<1>6. CASE RunEOF
  <2>1. /\ pc' = "exitWait" /\ ptyClosed /\ ptyOut' = <<>> /\ pendingOutput = 0
        /\ UNCHANGED <<pendingClients, final>>
    BY <1>6 DEF RunEOF, PtyEnabled, listVars, ptyVars, ioVars, chanVars
  <2>2. pendingClients = {}
    BY <2>1 DEF HeldBack, StreamOrder
  <2>3. QED
    BY <1>1, <1>2, <1>3, <1>4, <2>1, <2>2, NotFinal DEF ExitOrder
<1>7. CASE RunExitCloseFeed
  <2>1. /\ pc = "exitWait" /\ UNCHANGED <<pendingClients, final, ptyOut>>
    BY <1>7 DEF RunExitCloseFeed, listVars, ptyVars, ioVars, chanVars
  <2>2. QED
    BY <1>1, <1>2, <1>3, <1>4, <2>1, NotFinal DEF ExitOrder
<1>8. CASE ~(RunExited \/ RunEOF \/ RunExitCloseFeed)
  <2>1. UNCHANGED final /\ pc' \notin {"exitWait", "exitDrain"}
    BY <1>8 DEF RunNext, RunPrune, RunRetry, RunAccept, RunFeed, RunReady,
       RunTake, RunAttachResize, RunAttachFlush, RunAttachFail, RunAttach,
       RunDetach, RunDetachGone, RunKick, RunKickUnknown, RunResize, RunInfo,
       RunStop, RunStopped, ioVars, chanVars
  <2>2. QED
    BY <1>1, <1>3, <1>4, <2>1, NotFinal DEF ExitOrder
<1>9. QED
  BY <1>5, <1>6, <1>7, <1>8

\* A writer that writes the final message has written all the rest.
LEMMA ExitWriter ==
  ASSUME TypeOK, StreamOrder, ExitOrder, NEW c \in Conn, WriterNext(c)
  PROVE  ExitOrder'
<1>0. /\ UNCHANGED <<pc, reaped, ptyClosed, ptyOut, produced, lastFeed,
                     pendingClients, final>>
      /\ \A d \in Conn \ {c} : /\ wpc'[d] = wpc[d] /\ outCh'[d] = outCh[d]
                               /\ view'[d] = view[d]
                               /\ gotExited'[d] = gotExited[d]
  BY DEF WriterNext, WriterRecv, WriterClosed, WriteOK, WriteFinal, WriteErr,
     WriterLeave, runVars, ptyVars, listVars, loopVars, chanVars, TypeOK,
     TypeWriter, TypeChan, ChanType
<1>1. /\ wpc'[c] = "final" => final'[c] /\ outCh'[c] = <<>>
      /\ gotExited'[c] => final'[c] /\ Finished(c)' /\ Len(view'[c]) = produced'
  <2>1. CASE WriteFinal(c)
    <3>1. /\ wpc[c] = "final" /\ wpc'[c] = "leaving" /\ view' = view
      BY <2>1 DEF WriteFinal, TypeOK, TypeWriter
    <3>2. /\ final[c] /\ outCh[c] = <<>> /\ hand[c] = <<>> /\ ~Finished(c)
          /\ lastFeed = produced /\ c \notin pendingClients
      BY <3>1 DEF ExitOrder, StreamOrder, StreamOf, Finished
    <3>3. Carries(<<>>, Base(c), lastFeed)
      BY <3>2 DEF StreamOrder, StreamOf, Reach
    <3>4. /\ Len(view[c]) \in Nat /\ Len(hand[c]) = 0 /\ lastFeed \in Nat
          /\ Len(<<>>) \in Nat
      BY <3>2 DEF TypeOK, TypeWriter, TypeRun
    <3>5. Base(c) = lastFeed
      BY <3>3, <3>4, CarriesBounds
    <3>6. Len(view[c]) = produced
      BY <3>2, <3>4, <3>5 DEF Base
    <3>7. QED
      BY <1>0, <3>1, <3>2, <3>6 DEF Finished
  <2>2. CASE WriterClosed(c)
    BY <1>0, <2>2 DEF WriterClosed, TypeOK, TypeWriter, chanVars, ExitOrder,
       Finished
  <2>3. CASE WriterRecv(c) \/ WriteOK(c) \/ WriteErr(c) \/ WriterLeave(c)
    BY <1>0, <2>3 DEF WriterRecv, WriteOK, WriteErr, WriterLeave, TypeOK,
       TypeWriter, ExitOrder, Finished
  <2>4. QED
    BY <2>1, <2>2, <2>3 DEF WriterNext
<1>2. QED
  BY <1>0, <1>1 DEF ExitOrder, Finished, done

\* Every step keeps the order of the end of a session.
LEMMA ExitStep ==
  ASSUME TypeOK, Unused, AttachOnce, HeldBack, FeedOrder, StreamOrder, ExitOrder,
         Next
  PROVE  ExitOrder'
<1> USE DEF vars, ptyVars, feedVars, runVars, listVars, loopVars, clientVars,
            ioVars, chanVars, writerVars, envVars, connVars, callVars, closeVars
<1> DEFINE Same == UNCHANGED <<pc, lastFeed, pendingClients, final, wpc, outCh,
                               view, gotExited>>
<1>1. CASE Same /\ UNCHANGED <<reaped, ptyClosed, produced, ptyOut>>
  BY <1>1 DEF ExitOrder, Finished, done
<1>2. CASE PtyBatch
  <2>1. Same /\ UNCHANGED <<reaped, ptyClosed>> /\ ~ptyClosed
    BY <1>2 DEF PtyBatch
  <2>2. \A c \in Conn : ~final[c]
    BY <2>1 DEF ExitOrder
  <2>3. QED
    BY <2>1, <2>2 DEF ExitOrder, Finished, done
<1>3. CASE PtyReap
  <2>1. Same /\ UNCHANGED <<ptyClosed, produced, ptyOut>> /\ reaped'
    BY <1>3, Zenon DEF PtyReap
  <2>2. QED
    BY <2>1 DEF ExitOrder, Finished, done
<1>4. CASE GatherClose
  <2>1. Same /\ UNCHANGED <<reaped, produced, ptyOut>> /\ ptyClosed'
    BY <1>4 DEF GatherClose
  <2>2. reaped \/ done
    BY <1>4 DEF GatherClose, ReadsClosed
  <2>3. QED
    BY <2>1, <2>2 DEF ExitOrder, Finished, done
<1>5. CASE FeedNext \/ CallNext \/ CloseNext
  BY <1>5, <1>1 DEF FeedNext, FeedApply, FeedEnd, CallNext, kickClient,
     clientInfo, Call, CallReturn, Kill, CloseNext, CloseCall, CloseStop,
     CloseKill, CloseTimeout, CloseTerm
<1>6. ASSUME NEW c \in Conn, HandlerNext(c) \/ PeerGone(c)
      PROVE  ExitOrder'
  BY <1>6, <1>1 DEF PeerGone, HandlerNext, HandleAttach, HandleAttached,
     HandleAttachDone, HandleResize, HandleEnd, HandleDetach
<1>7. QED
  BY <1>2, <1>3, <1>4, <1>5, <1>6, ExitRun, ExitWriter DEF Next, PtyNext

-----------------------------------------------------------------------------
\* The theorems

\* The invariant holds when startSession returns.
LEMMA InitIInv == Init => IInv
<1> SUFFICES ASSUME Init
             PROVE  IInv
  OBVIOUS
<1>1. TypeOK
  <2> USE SessionAssumption DEF Init
  <2>1. Len(<<>>) = 0 /\ \A S : <<>> \in Seq(S)
    OBVIOUS
  <2>2. 0 <= PtyCap /\ 0 <= FeedCap /\ 0 <= ActCap /\ 0 <= OutCap
    OBVIOUS
  <2>3. TypePty
    BY <2>1, <2>2 DEF TypePty
  <2>4. TypeFeed
    BY <2>1, <2>2 DEF TypeFeed
  <2>5. TypeRun
    BY DEF TypeRun
  <2>6. TypeActions
    BY <2>1, <2>2 DEF TypeActions
  <2>7. TypeSize
    BY DEF TypeSize
  <2>8. TypeChan
    BY <2>1, <2>2 DEF TypeChan, ChanType
  <2>9. TypeWriter
    BY <2>1 DEF TypeWriter
  <2>10. TypeEnv
    BY DEF TypeEnv
  <2>11. QED
    BY <2>3, <2>4, <2>5, <2>6, <2>7, <2>8, <2>9, <2>10 DEF TypeOK
<1>2. IdBound /\ Unused /\ NoClosedChannel /\ HeldBack
  BY DEF Init, IdBound, Unused, NoClosedChannel, HeldBack
<1>3. AttachOnce
  BY DEF Init, AttachOnce, IsAttach, None
<1>4. FeedOrder
  BY ContinuesEmpty DEF Init, FeedOrder, Counting
<1>5. StreamOrder
  BY ContinuesEmpty DEF Init, StreamOrder, StreamOf, Counting
<1>6. ExitOrder /\ DoneOrder /\ TerminalClosedLast
  BY DEF Init, ExitOrder, DoneOrder, TerminalClosedLast, done
<1>7. QED
  BY <1>1, <1>2, <1>3, <1>4, <1>5, <1>6 DEF IInv

\* Every step, and every stuttering step, preserves the invariant.
LEMMA NextIInv == IInv /\ [Next]_vars => IInv'
<1> SUFFICES ASSUME IInv, [Next]_vars
             PROVE  IInv'
  OBVIOUS
<1>0. /\ TypeOK /\ IdBound /\ Unused /\ AttachOnce /\ HeldBack /\ FeedOrder
      /\ StreamOrder /\ ExitOrder /\ TerminalClosedLast /\ ChannelOnce /\ FeedOpen
  BY ClosedSplit DEF IInv
<1>1. CASE Next
  <2>1. TypeOK' /\ IdBound' /\ Unused' /\ AttachOnce'
    BY <1>0, <1>1, TypeStep, IdStep, UnusedStep, AttachOnceStep
  <2>2. HeldBack' /\ ChannelOnce' /\ FeedOpen' /\ TerminalClosedLast'
    BY <1>0, <1>1, HeldBackStep, ChannelStep, FeedOpenStep, TerminalStep
  <2>3. FeedOrder' /\ StreamOrder' /\ ExitOrder'
    BY <1>0, <1>1, FeedOrderStep, StreamStep, ExitStep
  <2>4. NoClosedChannel' /\ DoneOrder'
    BY <2>2 DEF NoClosedChannel, ChannelOnce, FeedOpen
  <2>5. QED
    BY <2>1, <2>2, <2>3, <2>4 DEF IInv
<1>2. CASE UNCHANGED vars
  <2> USE <1>0, <1>2 DEF vars, ptyVars, feedVars, runVars, listVars, loopVars,
          clientVars, ioVars, chanVars, writerVars, envVars, connVars, callVars,
          closeVars
  <2>1. TypeOK'
    BY DEF TypeOK, TypePty, TypeFeed, TypeRun, TypeActions, TypeSize, TypeChan,
       ChanType, TypeWriter, TypeEnv
  <2>2. IdBound' /\ Unused' /\ AttachOnce'
    BY DEF IdBound, Unused, AttachOnce
  <2>3. NoClosedChannel' /\ HeldBack' /\ DoneOrder' /\ TerminalClosedLast'
    BY DEF IInv, NoClosedChannel, HeldBack, DoneOrder, TerminalClosedLast, done
  <2>4. FeedOrder' /\ StreamOrder' /\ ExitOrder'
    BY DEF FeedOrder, StreamOrder, StreamOf, Base, Reach, Finished, ExitOrder,
       done
  <2>5. QED
    BY <2>1, <2>2, <2>3, <2>4 DEF IInv
<1>3. QED
  BY <1>1, <1>2

\* The inductive invariant holds for any number of connections, any capacity of
\* the channels and any amount of output.
THEOREM SessionInvariant == Spec => []IInv
<1>1. Init => IInv
  BY InitIInv
<1>2. IInv /\ [Next]_vars => IInv'
  BY NextIInv
<1>3. QED
  BY <1>1, <1>2, PTL DEF Spec

\* Every variable keeps its type and no channel exceeds its capacity.
THEOREM SessionTypeOK == Spec => []TypeOK
<1>1. IInv => TypeOK
  BY DEF IInv
<1>2. QED
  BY <1>1, SessionInvariant, PTL

\* Whatever the interleaving of attaches, detaches, kicks, slow writers and
\* output, a client's terminal is given the session's output from the first
\* batch on, without a gap, a repetition or a swap.
THEOREM SessionClientStream == Spec => []ClientStream
<1>1. IInv => ClientStream
  BY DEF IInv, StreamOrder, StreamOf, ClientStream
<1>2. QED
  BY <1>1, SessionInvariant, PTL

\* A client is told that the shell exited only after all of its output, and
\* after the exit code was stored.
THEOREM SessionExitedLast == Spec => []ExitedLast
<1>1. IInv => ExitedLast
  BY DEF IInv, ExitOrder, ExitedLast
<1>2. QED
  BY <1>1, SessionInvariant, PTL

\* run() closes every channel at most once and sends on no closed channel, so
\* it cannot panic.
THEOREM SessionNoClosedChannel == Spec => []NoClosedChannel
<1>1. IInv => NoClosedChannel
  BY DEF IInv
<1>2. QED
  BY <1>1, SessionInvariant, PTL

\* Output is held back for listed clients only, one batch at a time.
THEOREM SessionHeldBack == Spec => []HeldBack
<1>1. IInv => HeldBack
  BY DEF IInv
<1>2. QED
  BY <1>1, SessionInvariant, PTL

\* close() frees the terminal when no goroutine of the session is left.
THEOREM SessionTerminalClosedLast == Spec => []TerminalClosedLast
<1>1. IInv => TerminalClosedLast
  BY DEF IInv
<1>2. QED
  BY <1>1, SessionInvariant, PTL

-----------------------------------------------------------------------------
\* The size of the session

\* arbitrateResize and the policy look at the same clients.
LEMMA ArbitratedSize ==
  ASSUME UNCHANGED <<id, readOnly>>, size' = arbitrateResize(clients', csize')
  PROVE  size' = PolicySize'
<1> DEFINE W == {d \in clients' : ~readOnly[d]}
           C == {[id |-> id[d], size |-> csize'[d]] : d \in W}
<1>1. collectClientSizes(clients', csize') = C
  BY DEF collectClientSizes
<1>2. size' = IF C = {} THEN size ELSE applyResizePolicy(Policy, C)
  BY <1>1 DEF arbitrateResize
<1>3. PolicySize' = IF W = {} THEN size' ELSE applyResizePolicy(Policy, C)
  BY DEF PolicySize
<1>4. W = {} <=> C = {}
  OBVIOUS
<1>5. QED
  BY <1>2, <1>3, <1>4

\* The size computed for a newcomer is the one the policy gives with it.
LEMMA NewcomerSize ==
  ASSUME TypeOK, NEW n \in Conn, n \notin clients, NEW sz,
         clients' = clients \cup {n}, ~readOnly'[n],
         id' = [id EXCEPT ![n] = nextClientID + 1],
         csize' = [csize EXCEPT ![n] = sz],
         \A c \in clients : readOnly'[c] = readOnly[c],
         size' = resizeForPending(sz)
  PROVE  size' = PolicySize'
<1> DEFINE new == [id |-> nextClientID + 1, size |-> sz]
           W == {d \in clients : ~readOnly[d]}
           C == {[id |-> id[d], size |-> csize[d]] : d \in W}
           V == {d \in clients' : ~readOnly'[d]}
           D == {[id |-> id'[d], size |-> csize'[d]] : d \in V}
<1>1. size' = applyResizePolicy(Policy, C \cup {new})
  BY DEF resizeForPending, collectClientSizes
<1>2. V = W \cup {n} /\ n \in V
  OBVIOUS
<1>3. /\ id'[n] = nextClientID + 1 /\ csize'[n] = sz
      /\ \A d \in W : id'[d] = id[d] /\ csize'[d] = csize[d]
  BY DEF TypeOK, TypeSize, TypeRun
<1>4. D = {[id |-> id'[d], size |-> csize'[d]] : d \in W}
            \cup {[id |-> id'[n], size |-> csize'[n]]}
  BY <1>2
<1>5. {[id |-> id'[d], size |-> csize'[d]] : d \in W} = C
  BY <1>3
<1>6. D = C \cup {new}
  BY <1>3, <1>4, <1>5
<1>7. PolicySize' = applyResizePolicy(Policy, D)
  BY <1>2 DEF PolicySize
<1>8. QED
  BY <1>1, <1>6, <1>7

\* Whatever the policy and the clients: a step that lists a writable client,
\* drops one that works or records a new size leaves the size of the policy.
THEOREM SessionArbitratedChange == Spec => ArbitratedChange
<1> DEFINE Change == \/ \E c \in clients' \ clients : ~readOnly'[c]
                     \/ /\ pc' # "done"
                        /\ \E c \in clients \ clients' : ~Finished(c)
                     \/ \E c \in clients : csize'[c] # csize[c]
<1>1. ASSUME IInv, Next, Change
      PROVE  size' = PolicySize'
  <2> USE DEF vars, ptyVars, feedVars, runVars, listVars, loopVars, clientVars,
              ioVars, chanVars, writerVars, envVars, connVars, callVars, closeVars
  <2>0. TypeOK /\ Unused /\ AttachOnce
    BY <1>1 DEF IInv
  <2>1. CASE RunAttach
    <3>1. PICK n \in Conn : n = cur.conn
      BY <2>0, <2>1, AttachTarget DEF RunAttach, DumpReady
    <3>2. n \notin clients /\ cur.readOnly \in BOOLEAN
      BY <2>0, <2>1, <3>1, AttachTarget DEF RunAttach, DumpReady
    <3>3. /\ clients' = clients \cup {n}
          /\ id' = [id EXCEPT ![n] = nextClientID + 1]
          /\ csize' = [csize EXCEPT ![n] = cur.size]
          /\ readOnly' = [readOnly EXCEPT ![n] = cur.readOnly]
          /\ size' = IF cur.readOnly THEN size ELSE resizeForPending(cur.size)
      BY <2>1, <3>1 DEF RunAttach
    <3>4. \A c \in clients : csize'[c] = csize[c] /\ readOnly'[c] = readOnly[c]
      BY <2>0, <3>2, <3>3 DEF TypeOK, TypeSize, TypeRun
    <3>5. ~readOnly'[n]
      BY <1>1, <3>3, <3>4
    <3>6. ~cur.readOnly
      BY <2>0, <3>3, <3>5 DEF TypeOK, TypeSize
    <3>7. size' = resizeForPending(cur.size)
      BY <3>3, <3>6
    <3>8. PICK sz : sz = cur.size
      OBVIOUS
    <3>9. QED
      BY <2>0, <3>2, <3>3, <3>4, <3>5, <3>7, <3>8, NewcomerSize
  <2>2. CASE RunDetach \/ RunKick
    <3>1. PICK d \in clients : Leave(d)
      BY <2>2 DEF RunDetach, RunKick, Listed
    <3>2. UNCHANGED <<id, readOnly, csize>>
      BY <2>2 DEF RunDetach, RunKick
    <3>3. size' = arbitrateResize(clients', csize')
      BY <3>1, <3>2 DEF Leave, SizeWithout
    <3>4. QED
      BY <3>2, <3>3, ArbitratedSize
  <2>3. CASE RunResize
    BY <2>3, ArbitratedSize DEF RunResize
  <2>4. CASE RunPrune \/ RunTake
    BY <1>1, <2>4 DEF RunPrune, RunTake, pruneFinishedClients
  <2>5. CASE RunExited \/ RunStopped
    BY <1>1, <2>5 DEF RunExited, RunStopped
  <2>6. CASE UNCHANGED <<clients, csize>>
    BY <1>1, <2>6
  <2>7. CASE RunNext
    BY <2>1, <2>2, <2>3, <2>4, <2>5, <2>6, <2>7 DEF RunNext, RunRetry,
       RunAccept, RunEOF, RunExitCloseFeed, RunFeed, RunReady,
       RunAttachResize, RunAttachFlush, RunAttachFail, RunDetachGone,
       RunKickUnknown, RunInfo, RunStop
  <2>8. CASE PtyNext \/ FeedNext \/ CallNext \/ CloseNext
    BY <2>6, <2>8 DEF PtyNext, PtyBatch, PtyReap, GatherClose, FeedNext,
       FeedApply, FeedEnd, CallNext, kickClient, clientInfo, Call, CallReturn,
       Kill, CloseNext, CloseCall, CloseStop, CloseKill, CloseTimeout, CloseTerm
  <2>9. ASSUME NEW c \in Conn, WriterNext(c) \/ HandlerNext(c) \/ PeerGone(c)
        PROVE  UNCHANGED <<clients, csize>>
    BY <2>9 DEF WriterNext, WriterRecv, WriterClosed, WriteOK, WriteFinal,
       WriteErr, WriterLeave, PeerGone, HandlerNext, HandleAttach,
       HandleAttached, HandleAttachDone, HandleResize, HandleEnd, HandleDetach
  <2>10. QED
    BY <1>1, <2>6, <2>7, <2>8, <2>9 DEF Next
<1>2. IInv /\ [Next]_vars => [Change => size' = PolicySize']_vars
  BY <1>1
<1>3. QED
  BY <1>2, SessionInvariant, PTL DEF Spec, ArbitratedChange

-----------------------------------------------------------------------------
\* SessionLoop implements SessionView: each step of the run loop and its
\* goroutines is a step of what a session promises, or leaves the clients'
\* terminals as they are.

\* At most one batch.
Brief(d) == Len(d) \in {0, 1}

\* A message of more than one batch is the dump of the screen.  It is the first
\* that a client is sent and the first that its writer takes up.
DumpOf(c) ==
  /\ Brief(hand[c]) \/ view[c] = <<>>
  /\ \A i \in 1 .. Len(outCh[c]) :
       Brief(outCh[c][i].data) \/ (i = 1 /\ hand[c] = <<>> /\ view[c] = <<>>)

DumpFirst == \A c \in Conn : DumpOf(c)

-----------------------------------------------------------------------------
\* The dump comes first

\* Nothing is queued, or one more message of at most one batch.
Grown(c) ==
  \/ outCh'[c] = outCh[c]
  \/ \E m \in Message : Brief(m.data) /\ outCh'[c] = Append(outCh[c], m)

LEMMA GrownDump ==
  ASSUME TypeOK, NEW c \in Conn, DumpOf(c), Grown(c),
         hand'[c] = hand[c], view'[c] = view[c]
  PROVE  DumpOf(c)'
<1>0. outCh[c] \in Seq(Message)
  BY DEF TypeOK, TypeChan, ChanType
<1>1. CASE outCh'[c] = outCh[c]
  BY <1>1 DEF DumpOf
<1>2. ASSUME NEW m \in Message, Brief(m.data), outCh'[c] = Append(outCh[c], m)
      PROVE  DumpOf(c)'
  <2>1. \A i \in 1 .. Len(outCh'[c]) :
          (i \in 1 .. Len(outCh[c]) /\ outCh'[c][i] = outCh[c][i]) \/ outCh'[c][i] = m
    BY <1>0, <1>2
  <2> QED
    BY <1>2, <2>1 DEF DumpOf
<1> QED BY <1>1, <1>2 DEF Grown

\* notifyClientsChanged and queueOutput send such messages.
LEMMA BriefMessages ==
  /\ ClientsChanged \in Message /\ Brief(ClientsChanged.data)
  /\ \A k \in Nat : Output(k) \in Message /\ Brief(Output(k).data)
  BY MessageType DEF ClientsChanged, Output, Brief

LEMMA HelpersGrow ==
  ASSUME NEW c \in Conn
  PROVE  /\ \A S : outCh' = Notified(outCh, S) => Grown(c)
         /\ \A S : \A k \in Nat : outCh' = Queued(S, k) => Grown(c)
  BY BriefMessages DEF Notified, Queued, Grown

\* An attach puts the dump on an empty channel, for an empty terminal.
LEMMA DumpAttach ==
  ASSUME TypeOK, Unused, AttachOnce, DumpFirst, RunAttach
  PROVE  DumpFirst'
<1>1. PICK n \in Conn : n = cur.conn /\ wpc[n] = "none"
  BY AttachTarget DEF RunAttach, DumpReady, AttachOnce
<1>2. UNCHANGED <<hand, view>>
  BY DEF RunAttach
<1>3. ASSUME NEW c \in Conn, c # n PROVE DumpOf(c)'
  <2>1. outCh'[c] = Notified(outCh, clients)[c]
    BY <1>1, <1>3, AttachChan
  <2>2. Grown(c)
    BY <2>1, BriefMessages DEF Notified, Grown
  <2> QED BY <1>2, <2>2, GrownDump DEF DumpFirst
<1>4. DumpOf(n)'
  <2> DEFINE d == Attached(screen)
  <2>1. hand'[n] = <<>> /\ view'[n] = <<>>
    BY <1>1, <1>2 DEF Unused
  <2>2. outCh'[n] = <<d>> \/ outCh'[n] = <<d, ClientsChanged>>
    BY <1>1, AttachChan
  <2>3. \A i \in 1 .. Len(outCh'[n]) : i = 1 \/ outCh'[n][i] = ClientsChanged
    BY <2>2
  <2> QED BY <2>1, <2>3, BriefMessages DEF DumpOf, Brief
<1> QED BY <1>3, <1>4 DEF DumpFirst

LEMMA DumpWriter ==
  ASSUME TypeOK, StreamOrder, DumpFirst, NEW c \in Conn, WriterNext(c)
  PROVE  DumpFirst'
<1>0. \A d \in Conn \ {c} : hand'[d] = hand[d] /\ view'[d] = view[d] /\ outCh'[d] = outCh[d]
  BY DEF WriterNext, WriterRecv, WriterClosed, WriteOK, WriteFinal, WriteErr,
     WriterLeave, chanVars, TypeOK, TypeWriter, TypeChan, ChanType
<1>1. \A d \in Conn \ {c} : DumpOf(d)'
  BY <1>0 DEF DumpFirst, DumpOf
<1>2. /\ outCh[c] \in Seq(Message) /\ hand[c] \in Seq(Nat) /\ view[c] \in Seq(Nat)
      /\ DumpOf(c)
  BY DEF TypeOK, TypeWriter, TypeChan, ChanType, DumpFirst
<1>3. ASSUME WriterRecv(c) PROVE DumpOf(c)'
  <2>1. /\ wpc[c] = "recv" /\ outCh[c] # <<>> /\ hand'[c] = Head(outCh[c]).data
        /\ outCh'[c] = Tail(outCh[c]) /\ view' = view
    BY <1>3 DEF WriterRecv, TypeOK, TypeWriter, TypeChan, ChanType
  <2>2. Brief(hand'[c]) \/ view'[c] = <<>>
    <3>1. Head(outCh[c]) = outCh[c][1] /\ 1 \in 1 .. Len(outCh[c])
      BY <1>2, <2>1
    <3> QED BY <1>2, <2>1, <3>1 DEF DumpOf
  <2>3. \A i \in 1 .. Len(outCh'[c]) :
          i + 1 \in 1 .. Len(outCh[c]) /\ i + 1 # 1 /\ outCh'[c][i] = outCh[c][i + 1]
    BY <1>2, <2>1
  <2>4. \A i \in 1 .. Len(outCh'[c]) : Brief(outCh'[c][i].data)
    BY <1>2, <2>3 DEF DumpOf
  <2> QED BY <2>2, <2>4 DEF DumpOf
<1>4. ASSUME WriteOK(c) PROVE DumpOf(c)'
  <2>1. /\ view'[c] = view[c] \o hand[c] /\ hand'[c] = <<>> /\ outCh' = outCh
    BY <1>4 DEF WriteOK, TypeOK, TypeWriter, chanVars
  <2>2. hand[c] = <<>> /\ view[c] = <<>> => view'[c] = <<>>
    BY <2>1
  <2>3. Brief(hand'[c])
    BY <2>1 DEF Brief
  <2> QED BY <1>2, <2>1, <2>2, <2>3 DEF DumpOf
<1>5. ASSUME WriterClosed(c) \/ WriteFinal(c) \/ WriteErr(c) \/ WriterLeave(c) PROVE DumpOf(c)'
  <2>1. UNCHANGED <<outCh, hand, view>>
    BY <1>5 DEF WriterClosed, WriteFinal, WriteErr, WriterLeave, chanVars
  <2> QED BY <1>2, <2>1 DEF DumpOf
<1>6. DumpOf(c)'
  BY <1>3, <1>4, <1>5 DEF WriterNext
<1> QED BY <1>1, <1>6 DEF DumpFirst

LEMMA DumpStep == IInv /\ DumpFirst /\ [Next]_vars => DumpFirst'
<1> SUFFICES ASSUME IInv, DumpFirst, [Next]_vars PROVE DumpFirst'
  OBVIOUS
<1>0. TypeOK /\ Unused /\ AttachOnce /\ FeedOrder /\ StreamOrder
  BY DEF IInv
<1>1. CASE UNCHANGED vars
  BY <1>1 DEF vars, ioVars, chanVars, writerVars, DumpFirst, DumpOf
<1>2. ASSUME UNCHANGED <<hand, view>>, \A c \in Conn : Grown(c) PROVE DumpFirst'
  BY <1>0, <1>2, GrownDump DEF DumpFirst
<1>3. CASE RunPrune \/ RunTake
  <2>1. outCh' = outCh \/ \E S : outCh' = Notified(outCh, S)
    BY <1>3 DEF RunPrune, RunTake, pruneFinishedClients
  <2> QED BY <1>2, <1>3, <2>1, HelpersGrow DEF RunPrune, RunTake, writerVars, Grown
<1>4. CASE RunDetach \/ RunKick
  <2>1. \E S : outCh' = Notified(outCh, S)
    BY <1>4 DEF RunDetach, RunKick, Leave
  <2> QED BY <1>2, <1>4, <2>1, HelpersGrow DEF RunDetach, RunKick, writerVars
<1>5. CASE RunRetry \/ RunAccept
  <2>1. \E S : \E k \in Nat : outCh' = Queued(S, k)
    BY <1>0, <1>5 DEF RunRetry, RunAccept, TypeOK, TypeRun, TypePty
  <2> QED BY <1>2, <1>5, <2>1, HelpersGrow DEF RunRetry, RunAccept, writerVars
<1>6. CASE RunAttach
  BY <1>0, <1>6, DumpAttach
<1>7. ASSUME NEW c \in Conn, WriterNext(c) PROVE DumpFirst'
  BY <1>0, <1>7, DumpWriter
<1>8. CASE RunExited \/ RunStopped
  BY <1>8 DEF RunExited, RunStopped, writerVars, DumpFirst, DumpOf
<1>9. CASE UNCHANGED <<listVars, chanVars, writerVars, lastFeed>>
  BY <1>9 DEF chanVars, writerVars, DumpFirst, DumpOf
<1> QED
  BY <1>1, <1>3, <1>4, <1>5, <1>6, <1>7, <1>8, <1>9, ListFrame

\* No message but the dump of the screen carries more than one batch, and it is
\* the first that a client is given (attachReq in run).
THEOREM SessionDumpFirst == Spec => []DumpFirst
<1>1. Init => DumpFirst
  BY DEF Init, DumpFirst, DumpOf, Brief
<1> QED BY <1>1, DumpStep, SessionInvariant, PTL DEF Spec

-----------------------------------------------------------------------------
\* The refinement, step by step

\* The variables of SessionView that a step of SessionLoop changes.
LEMMA ViewFrame ==
  ASSUME Next
  PROVE  \/ PtyBatch \/ GatherClose \/ \E c \in Conn : WriteOK(c) \/ WriteFinal(c)
         \/ UNCHANGED <<produced, ptyClosed, view, gotExited>>
<1> USE DEF vars, ptyVars, feedVars, runVars, listVars, loopVars, clientVars,
            ioVars, chanVars, writerVars, envVars, connVars, callVars, closeVars
<1>1. CASE RunNext
  BY <1>1 DEF RunNext, RunPrune, RunRetry, RunAccept, RunEOF, RunExitCloseFeed,
     RunExited, RunFeed, RunReady, RunTake, RunAttachResize, RunAttachFlush,
     RunAttachFail, RunAttach, RunDetach, RunDetachGone, RunKick, RunKickUnknown,
     RunResize, RunInfo, RunStop, RunStopped
<1>2. CASE PtyNext \/ FeedNext \/ CallNext \/ CloseNext
  BY <1>2 DEF PtyNext, PtyReap, FeedNext, FeedApply, FeedEnd, CallNext, kickClient,
     clientInfo, Call, CallReturn, Kill, CloseNext, CloseCall, CloseStop, CloseKill,
     CloseTimeout, CloseTerm
<1>3. ASSUME NEW c \in Conn, WriterNext(c) \/ HandlerNext(c) \/ PeerGone(c)
      PROVE  WriteOK(c) \/ WriteFinal(c) \/ UNCHANGED <<produced, ptyClosed, view, gotExited>>
  BY <1>3 DEF WriterNext, WriterRecv, WriterClosed, WriteErr, WriterLeave, PeerGone,
     HandlerNext, HandleAttach, HandleAttached, HandleAttachDone, HandleResize,
     HandleEnd, HandleDetach
<1> QED BY <1>1, <1>2, <1>3 DEF Next

\* A sequence that counts is what SessionView shows.
LEMMA CountingUpTo ==
  ASSUME NEW s \in Seq(Nat), Counting(s)
  PROVE  s = View!UpTo(Len(s))
  BY DEF Counting, View!UpTo

\* A message written shows the dump, the next batch, or nothing.
LEMMA WriteShows ==
  ASSUME IInv, IInv', DumpFirst, NEW c \in Conn, WriteOK(c)
  PROVE  View!Show(c) \/ UNCHANGED <<produced, ptyClosed, view, gotExited>>
<1>1. /\ view' = [view EXCEPT ![c] = view[c] \o hand[c]] /\ wpc[c] = "write"
      /\ UNCHANGED <<produced, ptyClosed, gotExited, lastFeed>>
      /\ view'[c] = view[c] \o hand[c]
  BY DEF WriteOK, ptyVars, runVars, loopVars, IInv, TypeOK, TypeWriter
<1>2. /\ view \in [Conn -> Seq(Nat)] /\ view[c] \in Seq(Nat) /\ hand[c] \in Seq(Nat)
      /\ view'[c] \in Seq(Nat) /\ produced \in Nat /\ lastFeed \in Nat
      /\ outCh[c] \in Seq(Message)
  BY DEF IInv, TypeOK, TypeWriter, TypePty, TypeRun, TypeChan, ChanType
<1>3. Len(view'[c]) = Len(view[c]) + Len(hand[c])
  BY <1>1, <1>2
<1>4. Len(view'[c]) <= produced
  <2>1. PICK t \in 0 .. lastFeed : Carries(outCh[c], Base(c), t)
    BY <1>1 DEF IInv, StreamOrder, StreamOf
  <2>2. Base(c) <= t
    BY <1>2, <2>1, CarriesBounds
  <2>3. lastFeed <= produced
    BY <1>2 DEF IInv, FeedOrder, TypeOK, TypePty
  <2> QED BY <1>2, <1>3, <2>2, <2>3 DEF Base
<1>5. ~gotExited[c]
  BY <1>1 DEF IInv, ExitOrder, Finished
<1>6. view'[c] = View!UpTo(Len(view'[c]))
  <2>1. Counting(view'[c])
    BY DEF IInv, StreamOrder, StreamOf
  <2> QED BY <1>2, <2>1, CountingUpTo
<1>7. CASE hand[c] = <<>>
  <2>1. view[c] \o hand[c] = view[c]
    BY <1>2, <1>7
  <2> QED BY <1>1, <1>2, <2>1
<1>8. CASE hand[c] # <<>>
  <2> DEFINE k == Len(view'[c])
  <2>1. k \in Len(view[c]) + 1 .. produced
    BY <1>2, <1>3, <1>4, <1>8
  <2>2. k = Len(view[c]) + 1 \/ view[c] = <<>>
    <3>1. Len(hand[c]) # 0
      BY <1>2, <1>8
    <3>2. Len(hand[c]) \in {0, 1} \/ view[c] = <<>>
      BY DEF DumpFirst, DumpOf, Brief
    <3> QED BY <1>3, <3>1, <3>2
  <2>3. view' = [view EXCEPT ![c] = View!UpTo(k)]
    BY <1>1, <1>6
  <2> HIDE DEF k
  <2> QED BY <1>1, <1>5, <2>1, <2>2, <2>3 DEF View!Show
<1> QED BY <1>7, <1>8

\* Exited is written to a terminal that shows everything, when nothing is left
\* to come.
LEMMA FinalTells ==
  ASSUME IInv, IInv', NEW c \in Conn, WriteFinal(c)
  PROVE  View!Tell(c)
<1>1. /\ wpc[c] = "final" /\ gotExited' = [gotExited EXCEPT ![c] = TRUE]
      /\ UNCHANGED <<produced, ptyClosed, view>> /\ gotExited'[c]
  BY DEF WriteFinal, ptyVars, IInv, TypeOK, TypeWriter
<1>2. ptyClosed /\ ~gotExited[c]
  BY <1>1 DEF IInv, ExitOrder, Finished
<1>3. Len(view[c]) = produced
  <2>1. Len(view'[c]) = produced'
    BY <1>1 DEF IInv, ExitOrder
  <2> QED BY <1>1, <2>1
<1>4. view[c] = View!UpTo(produced)
  BY <1>3, CountingUpTo DEF IInv, StreamOrder, StreamOf, TypeOK, TypeWriter
<1> QED BY <1>1, <1>2, <1>4 DEF View!Tell

LEMMA ViewStep ==
  IInv /\ IInv' /\ DumpFirst /\ [Next]_vars => [View!Next]_(View!view)
<1> SUFFICES ASSUME IInv, IInv', DumpFirst, [Next]_vars
             PROVE  View!Next \/ UNCHANGED <<produced, ptyClosed, view, gotExited>>
  BY DEF View!view
<1>1. CASE UNCHANGED vars
  BY <1>1 DEF vars, ptyVars, ioVars, writerVars
<1>2. CASE PtyBatch
  BY <1>2 DEF PtyBatch, View!Next, View!Produce, ioVars, writerVars
<1>3. CASE GatherClose
  BY <1>3 DEF GatherClose, View!Next, View!End, ioVars, writerVars
<1>4. ASSUME NEW c \in Conn, WriteOK(c)
      PROVE  View!Next \/ UNCHANGED <<produced, ptyClosed, view, gotExited>>
  BY <1>4, WriteShows DEF View!Next
<1>5. ASSUME NEW c \in Conn, WriteFinal(c) PROVE View!Next
  BY <1>5, FinalTells DEF View!Next
<1> QED BY <1>1, <1>2, <1>3, <1>4, <1>5, ViewFrame

\* The session implements what it promises: with any number of clients that
\* attach, stall and leave at any moment, a terminal gets one dump, then batch
\* after batch, and Exited after the last (run, writeLoop, gatherPTYReads).
THEOREM SessionImplementsView == Spec => ImplementsView
<1>1. Init => View!Init
  BY DEF Init, View!Init
<1> QED
  BY <1>1, ViewStep, SessionInvariant, SessionDumpFirst, PTL
     DEF Spec, ImplementsView, View!Spec
================================================================================
