---------------------------- MODULE SessionLoopInv ----------------------------
(***************************************************************************)
(* The inductive invariant of SessionLoop.  Every part holds in every      *)
(* reachable state; together they imply the safety properties.             *)
(***************************************************************************)
EXTENDS SessionLoop

\* The counter is ahead of every number it has given out.
IdBound == \A c \in Conn : id[c] <= nextClientID

\* A connection that has no sessionClient yet has no trace in the session.
Unused ==
  \A c \in Conn : wpc[c] = "none" =>
    /\ c \notin clients /\ outCh[c] = <<>> /\ closes[c] = 0 /\ ~final[c]
    /\ hand[c] = <<>> /\ view[c] = <<>> /\ ~gotExited[c]

IsAttach(a) == a.type = "attach"

\* A connection has at most one request to attach, and only before it has a
\* sessionClient: run() never makes a second one for it.
AttachOnce ==
  /\ \A i \in 1 .. Len(actions) : IsAttach(actions[i]) =>
       /\ wpc[actions[i].conn] = "none" /\ hpc[actions[i].conn] # "control"
       /\ IsAttach(cur) => cur.conn # actions[i].conn
       /\ \A j \in 1 .. Len(actions) :
            IsAttach(actions[j]) /\ actions[j].conn = actions[i].conn => i = j
  /\ IsAttach(cur) => wpc[cur.conn] = "none" /\ hpc[cur.conn] # "control"
  /\ \A c \in Conn : hpc[c] = "control" => wpc[c] = "none"
  /\ pc = "attach" => IsAttach(cur)

\* The batches d come right after the first b batches.
Continues(d, b) == \A j \in 1 .. Len(d) : d[j] = b + j

\* Batches are accepted and applied in order; between them the emulator and its
\* channel have all that was accepted, but for the one batch held back.
FeedOrder ==
  /\ Continues(ptyOut, lastFeed)
  /\ lastFeed + Len(ptyOut) = produced
  /\ Counting(screen) /\ Continues(feedCh, Len(screen))
  /\ pc \notin {"stopDrain", "done"} =>
       /\ pendingFeed \in {0, lastFeed}
       /\ lastFeed = Len(screen) + Len(feedCh) + (IF pendingFeed = 0 THEN 0 ELSE 1)

\* The messages q take a terminal that shows the first b batches to one that
\* shows the first t: f[i] is what it shows after i of them.
Carries(q, b, t) ==
  \E f \in [0 .. Len(q) -> 0 .. t] :
    /\ f[0] = b /\ f[Len(q)] = t
    /\ \A i \in 1 .. Len(q) :
         /\ f[i] = f[i - 1] + Len(q[i].data)
         /\ Continues(q[i].data, f[i - 1])

\* The last batch that is queued for client c.
Reach(c) == IF c \in pendingClients THEN lastFeed - 1 ELSE lastFeed

\* What the terminal of c shows once the message in hand is written.
Base(c) == Len(view[c]) + Len(hand[c])

\* What a client has, holds and will receive is the session's output without a
\* gap, up to the last batch accepted, less the one that has no room yet.
StreamOf(c) ==
  /\ Counting(view[c]) /\ Continues(hand[c], Len(view[c]))
  /\ wpc[c] \in {"recv", "final"} => hand[c] = <<>>
  /\ (c \in clients \/ final[c]) /\ ~Finished(c) =>
       Carries(outCh[c], Base(c), Reach(c))
  /\ wpc[c] # "none" =>
       \E t \in 0 .. lastFeed : Carries(outCh[c], Base(c), t)

StreamOrder ==
  /\ pendingClients # {} => lastFeed > 0
  /\ \A c \in Conn : StreamOf(c)

\* The end of the session by way of EOF: no batch is left anywhere when the
\* clients get their final message.
ExitOrder ==
  /\ ptyClosed /\ ~done => reaped
  /\ pc \in {"exitWait", "exitDrain"} =>
       ptyClosed /\ ptyOut = <<>> /\ pendingClients = {}
  /\ \A c \in Conn : final[c] => /\ done /\ reaped /\ ptyClosed
                                 /\ lastFeed = produced
                                 /\ c \notin pendingClients
  /\ \A c \in Conn : wpc[c] = "final" => final[c] /\ outCh[c] = <<>>
  /\ \A c \in Conn : gotExited[c] =>
       final[c] /\ Finished(c) /\ Len(view[c]) = produced

DoneOrder == done => feed = "done"

IInv ==
  /\ TypeOK /\ IdBound /\ Unused /\ AttachOnce
  /\ NoClosedChannel /\ HeldBack /\ FeedOrder /\ StreamOrder /\ ExitOrder
  /\ DoneOrder /\ TerminalClosedLast
=============================================================================
