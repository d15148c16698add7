------------------------------ MODULE PtyGather ------------------------------
(***************************************************************************)
(* readPTY and gatherPTYReads of session_lifecycle.go: the two goroutines  *)
(* that turn reads of the PTY into the batches run() accepts.              *)
(*                                                                         *)
(*   ptmx -- Read --> readPTY -- reads --> gatherPTYReads -- batches -->   *)
(*                                                                         *)
(* A byte of output is its position in the output, so a piece of data is a *)
(* sequence of consecutive positions.  reads is unbuffered: a piece moves  *)
(* when the gatherer receives what readPTY is offering.                    *)
(***************************************************************************)
EXTENDS Integers, Sequences

CONSTANTS
  Total,      \* bound: bytes the child writes
  ReadSize,   \* ptyReadSize       (32 KiB)
  BatchSize,  \* ptyBatchSize      (64 KiB), also the size of a feedPool buffer
  Threshold,  \* ptyBatchThreshold (1 KiB)
  PtyCap      \* capacity of batches, the session's ptyOut (64)

ASSUME GatherAssumption ==
  /\ Total \in Nat
  /\ ReadSize \in Nat \ {0} /\ BatchSize \in Nat \ {0} /\ PtyCap \in Nat \ {0}
  /\ Threshold \in Nat /\ Threshold <= BatchSize

VARIABLES
  got,      \* bytes read from the PTY
  rpc,      \* readPTY: "read", "offer", "wait" (in cmd.Wait) or "ended"
  rbuf,     \* the data it offers on reads
  gpc,      \* gatherPTYReads: "first", "small", "gather", "send" or "closed"
  batch,    \* first, or the batch under construction
  pending,  \* the part of a read that did not fit
  sawClose, \* the local readsClosed
  batches,  \* channel to run()
  sent,     \* all the bytes sent on it so far
  done      \* s.done is closed

rVars == <<got, rpc, rbuf>>
gVars == <<gpc, batch, pending, sawClose>>
vars  == <<rVars, gVars, batches, sent, done>>

Init ==
  /\ got = 0 /\ rpc = "read" /\ rbuf = <<>>
  /\ gpc = "first" /\ batch = <<>> /\ pending = <<>> /\ sawClose = FALSE
  /\ batches = <<>> /\ sent = <<>> /\ done = FALSE

-----------------------------------------------------------------------------
\* readPTY

PtmxRead(n) ==
  /\ rpc = "read" /\ got + n <= Total
  /\ rbuf' = [i \in 1 .. n |-> got + i]
  /\ got' = got + n
  /\ rpc' = "offer"
  /\ UNCHANGED <<gVars, batches, sent, done>>

\* The read fails, or s.done is closed while data is being offered.
ReadEnd ==
  /\ rpc = "read" \/ (rpc = "offer" /\ done)
  /\ rpc' = "wait"
  /\ rbuf' = <<>>
  /\ UNCHANGED <<got, gVars, batches, sent, done>>

\* cmd.Wait has returned: reads is closed.
Reap ==
  /\ rpc = "wait"
  /\ rpc' = "ended"
  /\ UNCHANGED <<got, rbuf, gVars, batches, sent, done>>

Received == rpc' = "read" /\ rbuf' = <<>> /\ UNCHANGED got

-----------------------------------------------------------------------------
\* gatherPTYReads

\* Mutant: the remainder repeats the last byte taken.
RestOverlaps(s, n) == SubSeq(s, n, Len(s))

Front(s, n) == SubSeq(s, 1, n)
Rest(s, n) == SubSeq(s, n + 1, Len(s))

\* A short read goes out at once; a longer one opens a batch and a timer.
Begin(x) ==
  /\ gpc' = IF Len(x) < Threshold THEN "small" ELSE "gather"
  /\ IF Len(x) > BatchSize
     THEN batch' = Front(x, BatchSize) /\ pending' = Rest(x, BatchSize)
     ELSE batch' = x /\ pending' = <<>>

First ==
  /\ gpc = "first" /\ pending = <<>> /\ ~sawClose
  /\ rpc = "offer" /\ Received
  /\ Begin(rbuf)
  /\ UNCHANGED <<sawClose, batches, sent, done>>

FirstPending ==
  /\ gpc = "first" /\ pending # <<>>
  /\ Begin(pending)
  /\ UNCHANGED <<rVars, sawClose, batches, sent, done>>

Gathering ==
  gpc = "gather" /\ Len(batch) < BatchSize /\ pending = <<>> /\ ~sawClose

\* Mutant: the next read is appended whole.
TakeWhole(x) == batch' = batch \o x /\ UNCHANGED <<pending, gpc>>

\* Mutant: what does not fit is dropped.
TakeDrops(x) ==
  /\ batch' = batch \o Front(x, IF Len(x) > BatchSize - Len(batch)
                                THEN BatchSize - Len(batch) ELSE Len(x))
  /\ UNCHANGED <<pending, gpc>>

Take(x) ==
  LET room == BatchSize - Len(batch)
  IN  IF Len(x) > room
      THEN batch' = batch \o Front(x, room) /\ pending' = Rest(x, room) /\ gpc' = "send"
      ELSE batch' = batch \o x /\ UNCHANGED <<pending, gpc>>

GatherMore ==
  /\ Gathering /\ rpc = "offer" /\ Received
  /\ Take(rbuf)
  /\ UNCHANGED <<sawClose, batches, sent, done>>

GatherSawClose ==
  /\ Gathering /\ rpc = "ended"
  /\ sawClose' = TRUE
  /\ gpc' = "send"
  /\ UNCHANGED <<rVars, batch, pending, batches, sent, done>>

\* Mutant: no timer, the batch waits until it is full.
GatherStopNoTimer ==
  /\ gpc = "gather" /\ ~Gathering
  /\ gpc' = "send"
  /\ UNCHANGED <<rVars, batch, pending, sawClose, batches, sent, done>>

\* The window has passed, or the loop condition fails.
GatherStop ==
  /\ gpc = "gather"
  /\ gpc' = "send"
  /\ UNCHANGED <<rVars, batch, pending, sawClose, batches, sent, done>>

\* Mutant: the channel takes any number of batches.
NoLimit == TRUE

HasRoom == Len(batches) < PtyCap

Send ==
  /\ gpc \in {"small", "send"} /\ HasRoom
  /\ batches' = Append(batches, batch)
  /\ sent' = sent \o batch
  /\ batch' = <<>>
  /\ gpc' = "first"
  /\ UNCHANGED <<rVars, pending, sawClose, done>>

\* Mutant: a closed reads ends the goroutine although data is pending.
EndDropsPending == gpc = "first" /\ (sawClose \/ rpc = "ended")

AtEnd == gpc = "first" /\ pending = <<>> /\ (sawClose \/ rpc = "ended")

\* The goroutine returns, and batches is closed: at the end of reads, or at
\* once at any select when s.done is closed.
Return ==
  /\ \/ AtEnd
     \/ done /\ gpc # "closed" /\ (gpc = "first" => pending = <<>>)
  /\ gpc' = "closed"
  /\ UNCHANGED <<rVars, batch, pending, sawClose, batches, sent, done>>

-----------------------------------------------------------------------------
\* run()

Accept ==
  /\ batches # <<>> /\ ~done
  /\ batches' = Tail(batches)
  /\ UNCHANGED <<rVars, gVars, sent, done>>

RunEnds ==
  /\ ~done
  /\ done' = TRUE
  /\ UNCHANGED <<rVars, gVars, batches, sent>>

GatherNext ==
  \/ First \/ FirstPending \/ GatherMore \/ GatherSawClose \/ GatherStop
  \/ Send \/ Return

Next ==
  \/ \E n \in 1 .. ReadSize : PtmxRead(n)
  \/ ReadEnd \/ Reap \/ GatherNext \/ Accept \/ RunEnds

Spec == Init /\ [][Next]_vars

\* The timer fires, so the gatherer never waits for ever once a batch is open;
\* run() takes batches again and again.  Nothing makes the child write more.
FairSpec == Spec /\ WF_vars(GatherNext) /\ SF_vars(Accept) /\ WF_vars(Reap)

-----------------------------------------------------------------------------

\* Every variable has its type, and the channel respects its capacity.
TypeOK ==
  /\ got \in Nat /\ rpc \in {"read", "offer", "wait", "ended"}
  /\ rbuf \in Seq(Nat)
  /\ gpc \in {"first", "small", "gather", "send", "closed"}
  /\ batch \in Seq(Nat) /\ pending \in Seq(Nat) /\ sawClose \in BOOLEAN
  /\ batches \in Seq(Seq(Nat)) /\ Len(batches) <= PtyCap /\ sent \in Seq(Nat) /\ done \in BOOLEAN

\* s is the piece of output that follows the first n bytes.
Follows(s, n) == \A i \in 1 .. Len(s) : s[i] = n + i

\* The bytes sent are the output from its first byte on, without a gap or a
\* repetition, however reads were split and joined.
InOrder == Follows(sent, 0)

\* No byte is lost on the way: what was read is sent, in the open batch, left
\* over from a split read, or still offered - unless the session is ending.
Lossless ==
  done \/ Len(sent) + Len(batch) + Len(pending) + Len(rbuf) = got

\* run() copies a batch into a buffer of BatchSize bytes: a longer one would
\* panic, an empty one would be a wakeup for nothing.
BatchFits ==
  \A i \in 1 .. Len(batches) : Len(batches[i]) \in 1 .. BatchSize

\* ptyOut is closed only when the child has been reaped and everything it wrote
\* was sent, or because the session ended: run() may then report the exit.
ClosedLast ==
  (gpc = "closed" /\ ~done) => (rpc = "ended" /\ Len(sent) = got)

\* What was read reaches run() although the child writes nothing more.
Flushed == \A n \in 1 .. Total : (got >= n) ~> (Len(sent) >= n \/ done)
=============================================================================
