----------------------------- MODULE SessionLoop -----------------------------
(***************************************************************************)
(* One session of the daemon: the run loop of session_lifecycle.go and     *)
(* every goroutine that shares a channel with it.                          *)
(*                                                                         *)
(*   readPTY/gatherPTYReads -- ptyOut --> run -- feedCh --> feedLoop       *)
(*   connection handlers, kick/list callers, close() -- actions --> run    *)
(*   run -- outCh[c] --> writeLoop of client c -- socket --> its terminal  *)
(*   writeLoop of any client -- clientReady (one token) --> run            *)
(*                                                                         *)
(* A batch of PTY output is the number of its place in the output, so the  *)
(* emulator's screen, a screen dump and what a client's terminal shows are *)
(* all sequences of such numbers.  A Go channel is a sequence with a       *)
(* capacity; a select is a choice between the enabled cases.  A connection *)
(* attaches at most once, so it also names its sessionClient.              *)
(***************************************************************************)
EXTENDS ResizePolicy, Sequences

CONSTANTS
  Conn,       \* connections that may attach
  Sizes,      \* terminal sizes clients have
  Modes,      \* the values of readOnly clients attach with
  Policy,     \* resize_policy of the configuration
  Calls,      \* bound: the calls made from outside the stream of output
  Vanishing,  \* bound: the clients that may go away without a Detach
  MaxChunk,   \* bound: batches the PTY produces
  PtyCap,     \* capacity of ptyOut     (64 in startSession)
  FeedCap,    \* capacity of feedCh     (64)
  ActCap,     \* capacity of actions    (16)
  OutCap      \* sessionClientOutBufferSize (256)

ASSUME SessionAssumption ==
  /\ Sizes \subseteq TermSize /\ Sizes # {}
  /\ Modes \subseteq BOOLEAN
  /\ Policy \in Policies
  /\ Calls \subseteq {"resize", "kick", "info", "kill", "close"}
  /\ Vanishing \subseteq Conn
  /\ MaxChunk \in Nat
  /\ PtyCap \in Nat \ {0} /\ FeedCap \in Nat \ {0}
  /\ ActCap \in Nat \ {0} /\ OutCap \in Nat \ {0}

VARIABLES
  \* the PTY stage
  sig,            \* strongest signal sent to the child: "none", "hup", "kill"
  reaped,         \* the child has exited and readPTY has ended: ptyDone is closed
  produced,       \* batches gatherPTYReads has delivered
  ptyOut,         \* channel of batches
  ptyClosed,      \* gatherPTYReads has closed ptyOut
  \* the terminal emulator and its feeder
  feedCh,         \* channel of batches for the emulator
  feed,           \* feedCh and feedLoop: "open", "closed", "done"
  screen,         \* batches the emulator has applied, in order
  termOpen,       \* s.term has not been closed
  \* the run loop
  pc,             \* where run() is
  actions,        \* channel of sessionActions
  cur,            \* the action being handled, or None
  clients,        \* clients in the list
  nextClientID,
  pendingFeed,    \* batch waiting for room in feedCh; 0 is nil
  lastFeed,       \* last batch accepted from ptyOut (lastFeedApplied); 0 is nil
  pendingOutput,  \* batch some clients have no room for; 0 is nil
  pendingClients, \* those clients
  size,           \* the session's size
  clientReady,    \* the token in clientReady is present
  \* one sessionClient per attached connection
  id,             \* 0: not a client yet
  csize, readOnly,
  outCh,          \* channel of messages
  closes,         \* how often outCh has been closed
  final,          \* the Exited message is set
  wpc,            \* writeLoop
  hand,           \* data of the message writeLoop is writing
  \* the other side and the connection's handler
  conn,           \* "open", "gone" (the client's end is closed) or "closed"
  view,           \* batches written to the client's terminal, in order
  gotExited,      \* Exited was written to it
  hpc,            \* handleConn
  reply,          \* attachReq.result
  \* a caller of kickClient or clientInfo, and close()
  ctl, answer,
  closer

ptyVars    == <<sig, reaped, produced, ptyOut, ptyClosed>>
feedVars   == <<feedCh, feed, screen>>
listVars   == <<clients, pendingClients, pendingOutput>>
loopVars   == <<nextClientID, pendingFeed, lastFeed, size>>
clientVars == <<id, csize, readOnly>>
runVars    == <<listVars, loopVars, clientVars, pc, cur>>
chanVars   == <<outCh, closes, final>>
writerVars == <<wpc, hand, view, gotExited>>
ioVars     == <<chanVars, writerVars, clientReady>>
connVars   == <<conn, hpc, reply>>
callVars   == <<ctl, answer>>
closeVars  == <<closer, termOpen>>
envVars    == <<connVars, callVars, closeVars>>

vars == <<ptyVars, feedVars, runVars, actions, ioVars, envVars>>

-----------------------------------------------------------------------------
\* Messages and actions

\* Every message carries the output batches that it puts on the client's
\* terminal: all of the screen, one batch, or none.
Attached(dump) == [type |-> "attached", data |-> dump]
Output(k)      == [type |-> "output", data |-> <<k>>]
ClientsChanged == [type |-> "changed", data |-> <<>>]

Message == [type : {"attached", "output", "changed"}, data : Seq(Nat)]

SessionAction ==
  [type : {"attach"}, conn : Conn, size : Sizes, readOnly : BOOLEAN]
    \cup [type : {"resize"}, conn : Conn, size : Sizes]
    \cup [type : {"detach"}, conn : Conn]
    \cup [type : {"kick"}, id : Nat]
    \cup [type : {"info", "stop"}]

Stop == [type |-> "stop"]

None == [type |-> "none"]

done == pc = "done"

Finished(c) == wpc[c] \in {"leaving", "done"}

HasRoom(c) == Len(outCh[c]) < OutCap

Applied(k) == k = 0 \/ \E i \in 1 .. Len(screen) : screen[i] = k

Init ==
  /\ sig = "none" /\ reaped = FALSE
  /\ produced = 0 /\ ptyOut = <<>> /\ ptyClosed = FALSE
  /\ feedCh = <<>> /\ feed = "open" /\ screen = <<>> /\ termOpen = TRUE
  /\ pc = "prune" /\ actions = <<>> /\ cur = None
  /\ clients = {} /\ nextClientID = 0
  /\ pendingFeed = 0 /\ lastFeed = 0 /\ pendingOutput = 0 /\ pendingClients = {}
  /\ size \in Sizes
  /\ clientReady = FALSE
  /\ id = [c \in Conn |-> 0]
  /\ csize = [c \in Conn |-> size] /\ readOnly = [c \in Conn |-> FALSE]
  /\ outCh = [c \in Conn |-> <<>>] /\ closes = [c \in Conn |-> 0]
  /\ final = [c \in Conn |-> FALSE]
  /\ wpc = [c \in Conn |-> "none"] /\ hand = [c \in Conn |-> <<>>]
  /\ conn = [c \in Conn |-> "open"]
  /\ view = [c \in Conn |-> <<>>] /\ gotExited = [c \in Conn |-> FALSE]
  /\ hpc = [c \in Conn |-> "control"] /\ reply = [c \in Conn |-> "none"]
  /\ ctl = "idle" /\ answer = "none" /\ closer = "idle"

-----------------------------------------------------------------------------
\* The child and the PTY stage.  readPTY and gatherPTYReads appear as what
\* run() sees of them: batches in order, then a closed channel.

PtyBatch ==
  /\ ~ptyClosed /\ produced < MaxChunk /\ Len(ptyOut) < PtyCap
  /\ produced' = produced + 1
  /\ ptyOut' = Append(ptyOut, produced + 1)
  /\ UNCHANGED <<sig, reaped, ptyClosed, feedVars, runVars, actions, ioVars,
                 envVars>>

\* The child has exited, by itself or because of a signal, readPTY has left its
\* loop and cmd.Wait has returned: exitCode is stored, reads and ptyDone are
\* closed.
PtyReap ==
  /\ ~reaped
  /\ reaped' = TRUE
  /\ UNCHANGED <<sig, produced, ptyOut, ptyClosed, feedVars, runVars, actions,
                 ioVars, envVars>>

\* Mutant: ptyOut is closed before cmd.Wait has returned.
ReadsOpen == TRUE

ReadsClosed == reaped \/ done

GatherClose ==
  /\ ~ptyClosed
  /\ ReadsClosed
  /\ ptyClosed' = TRUE
  /\ UNCHANGED <<sig, reaped, produced, ptyOut, feedVars, runVars, actions,
                 ioVars, envVars>>

-----------------------------------------------------------------------------
\* feedLoop

FeedApply ==
  /\ feedCh # <<>>
  /\ screen' = Append(screen, Head(feedCh))
  /\ feedCh' = Tail(feedCh)
  /\ UNCHANGED <<ptyVars, feed, runVars, actions, ioVars, envVars>>

FeedEnd ==
  /\ feed = "closed" /\ feedCh = <<>>
  /\ feed' = "done"
  /\ UNCHANGED <<ptyVars, feedCh, screen, runVars, actions, ioVars, envVars>>

-----------------------------------------------------------------------------
\* Helpers of the run loop (session_clients.go)

\* Mutant: the notification ignores the capacity of outCh.
NotifiedUnbounded(out, S) ==
  [c \in Conn |-> IF c \in S THEN Append(out[c], ClientsChanged) ELSE out[c]]

\* notifyClientsChanged: a client without room misses the message.
Notified(out, S) ==
  [c \in Conn |-> IF c \in S /\ Len(out[c]) < OutCap
                  THEN Append(out[c], ClientsChanged) ELSE out[c]]

Closed(S) == [c \in Conn |-> IF c \in S THEN closes[c] + 1 ELSE closes[c]]

\* Mutant: a pruned client stays in pendingClients.
StalePending(gone) == pendingClients

StillPending(gone) == pendingClients \ gone

\* pruneFinishedClients, the notification and the reset of pendingOutput that
\* both callers do next.  The session's size is not reconsidered.
pruneFinishedClients ==
  LET gone == {c \in clients : Finished(c)}
      kept == clients \ gone
  IN  /\ clients' = kept
      /\ pendingClients' = StillPending(gone)
      /\ closes' = Closed(gone)
      /\ outCh' = IF gone = {} THEN outCh ELSE Notified(outCh, kept)
      /\ pendingOutput' = IF StillPending(gone) = {} THEN 0 ELSE pendingOutput

\* queueOutput: the batch k for the clients S, as far as they have room.
Queued(S, k) ==
  [c \in Conn |-> IF c \in S /\ ~Finished(c) /\ HasRoom(c)
                  THEN Append(outCh[c], Output(k)) ELSE outCh[c]]

Blocked(S) == {c \in S : ~Finished(c) /\ ~HasRoom(c)}

collectClientSizes(S, sizes) ==
  {[id |-> id[c], size |-> sizes[c]] : c \in {d \in S : ~readOnly[d]}}

arbitrateResize(S, sizes) ==
  IF collectClientSizes(S, sizes) = {} THEN size
  ELSE applyResizePolicy(Policy, collectClientSizes(S, sizes))

resizeForPending(sz) ==
  applyResizePolicy(Policy,
    collectClientSizes(clients, csize)
      \cup {[id |-> nextClientID + 1, size |-> sz]})

\* Mutant: the size is not arbitrated when a client leaves.
SizeKept(c) == size

SizeWithout(c) == arbitrateResize(clients \ {c}, csize)

\* What detach and kick share: the client leaves the list, its channel is
\* closed, the size is arbitrated and the others are told.
Leave(c) ==
  /\ clients' = clients \ {c}
  /\ pendingClients' = pendingClients \ {c}
  /\ pendingOutput' = IF pendingClients \ {c} = {} THEN 0 ELSE pendingOutput
  /\ closes' = Closed({c})
  /\ size' = SizeWithout(c)
  /\ outCh' = Notified(outCh, clients \ {c})

-----------------------------------------------------------------------------
\* run(): the top of the loop, then one case of the select

RunPrune ==
  /\ pc = "prune"
  /\ pruneFinishedClients
  /\ pc' = IF pendingOutput' = 0 THEN "select" ELSE "retry"
  /\ UNCHANGED <<ptyVars, feedVars, loopVars, clientVars, cur, actions, final,
                 writerVars, clientReady, envVars>>

RunRetry ==
  /\ pc = "retry"
  /\ pc' = "select"
  /\ outCh' = Queued(pendingClients, pendingOutput)
  /\ pendingClients' = Blocked(pendingClients)
  /\ pendingOutput' = IF Blocked(pendingClients) = {} THEN 0 ELSE pendingOutput
  /\ UNCHANGED <<ptyVars, feedVars, clients, loopVars, clientVars, cur,
                 actions, closes, final, writerVars, clientReady, envVars>>

PtyEnabled == pc = "select" /\ pendingFeed = 0 /\ pendingOutput = 0

RunAccept ==
  /\ PtyEnabled /\ ptyOut # <<>>
  /\ LET k == Head(ptyOut)
     IN  /\ outCh' = Queued(clients, k)
         /\ pendingClients' = Blocked(clients)
         /\ pendingOutput' = IF Blocked(clients) = {} THEN 0 ELSE k
         /\ pendingFeed' = k
         /\ lastFeed' = k
  /\ ptyOut' = Tail(ptyOut)
  /\ pc' = "prune"
  /\ UNCHANGED <<sig, reaped, produced, ptyClosed, feedVars, clients,
                 nextClientID, size, clientVars, cur, actions, closes, final,
                 writerVars, clientReady, envVars>>

\* ptyOut is closed and empty.
RunEOF ==
  /\ PtyEnabled /\ ptyOut = <<>> /\ ptyClosed
  /\ pc' = "exitWait"
  /\ UNCHANGED <<ptyVars, feedVars, listVars, loopVars, clientVars, cur,
                 actions, ioVars, envVars>>

RunExitCloseFeed ==
  /\ pc = "exitWait" /\ Applied(lastFeed)
  /\ feed' = "closed"
  /\ pc' = "exitDrain"
  /\ UNCHANGED <<ptyVars, feedCh, screen, listVars, loopVars, clientVars, cur,
                 actions, ioVars, envVars>>

\* Every client gets Exited after what is queued for it.  Connections stay
\* open.  The list dies with run().
RunExited ==
  /\ pc = "exitDrain" /\ feed = "done"
  /\ final' = [c \in Conn |-> final[c] \/ c \in clients]
  /\ closes' = Closed(clients)
  /\ clients' = {} /\ pendingClients' = {}
  /\ pc' = "done"
  /\ UNCHANGED <<ptyVars, feedVars, pendingOutput, loopVars, clientVars, cur,
                 actions, outCh, writerVars, clientReady, envVars>>

RunFeed ==
  /\ pc = "select" /\ pendingFeed # 0 /\ Len(feedCh) < FeedCap
  /\ feedCh' = Append(feedCh, pendingFeed)
  /\ pendingFeed' = 0
  /\ pc' = "prune"
  /\ UNCHANGED <<ptyVars, feed, screen, listVars, nextClientID, lastFeed, size,
                 clientVars, cur, actions, ioVars, envVars>>

RunReady ==
  /\ pc = "select" /\ pendingOutput # 0 /\ clientReady
  /\ clientReady' = FALSE
  /\ pc' = "prune"
  /\ UNCHANGED <<ptyVars, feedVars, listVars, loopVars, clientVars, cur,
                 actions, chanVars, writerVars, envVars>>

\* Mutant: actions wait behind the delivery of output.
TakeAfterOutput == pc = "select" /\ actions # <<>> /\ pendingOutput = 0

TakeEnabled == pc = "select" /\ actions # <<>>

RunTake ==
  /\ TakeEnabled
  /\ cur' = Head(actions)
  /\ actions' = Tail(actions)
  /\ pruneFinishedClients
  /\ pc' = "act"
  /\ UNCHANGED <<ptyVars, feedVars, loopVars, clientVars, final, writerVars,
                 clientReady, envVars>>

-----------------------------------------------------------------------------
\* run(): the session actions

\* attachReq: the session is sized for the newcomer first.
RunAttachResize ==
  /\ pc = "act" /\ cur.type = "attach"
  /\ size' = IF cur.readOnly THEN size ELSE resizeForPending(cur.size)
  /\ pc' = "attach"
  /\ UNCHANGED <<ptyVars, feedVars, listVars, nextClientID, pendingFeed,
                 lastFeed, clientVars, cur, actions, ioVars, envVars>>

\* ... a batch held back is pushed to the emulator ...
RunAttachFlush ==
  /\ pc = "attach" /\ pendingFeed # 0 /\ Len(feedCh) < FeedCap
  /\ feedCh' = Append(feedCh, pendingFeed)
  /\ pendingFeed' = 0
  /\ UNCHANGED <<ptyVars, feed, screen, listVars, nextClientID, lastFeed, size,
                 clientVars, pc, cur, actions, ioVars, envVars>>

\* Mutant: the dump does not wait for the emulator.
DumpEarly == pc = "attach" /\ pendingFeed = 0

\* ... and once the emulator has applied all that was accepted, it is dumped.
DumpReady == pc = "attach" /\ pendingFeed = 0 /\ Applied(lastFeed)

\* dumpScreen failed; the resize stays.
RunAttachFail ==
  /\ DumpReady
  /\ reply' = [reply EXCEPT ![cur.conn] = "error"]
  /\ cur' = None
  /\ pc' = "prune"
  /\ UNCHANGED <<ptyVars, feedVars, listVars, loopVars, clientVars, actions,
                 ioVars, conn, hpc, callVars, closeVars>>

RunAttach ==
  /\ DumpReady
  /\ LET c == cur.conn
     IN  /\ nextClientID' = nextClientID + 1
         /\ id' = [id EXCEPT ![c] = nextClientID + 1]
         /\ csize' = [csize EXCEPT ![c] = cur.size]
         /\ readOnly' = [readOnly EXCEPT ![c] = cur.readOnly]
         /\ wpc' = [wpc EXCEPT ![c] = "recv"]
         /\ clients' = clients \cup {c}
         /\ outCh' = Notified([outCh EXCEPT ![c] = Append(@, Attached(screen))],
                              clients \cup {c})
         /\ reply' = [reply EXCEPT ![c] = "client"]
  /\ size' = IF cur.readOnly THEN size ELSE resizeForPending(cur.size)
  /\ cur' = None
  /\ pc' = "prune"
  /\ UNCHANGED <<ptyVars, feedVars, pendingClients, pendingOutput, pendingFeed,
                 lastFeed, actions, closes, final, hand, view, gotExited,
                 clientReady, conn, hpc, callVars, closeVars>>

\* Mutant: no check that the client is still in the list.
Unchecked(c) == TRUE

Listed(c) == c \in clients

RunDetach ==
  /\ pc = "act" /\ cur.type = "detach" /\ Listed(cur.conn)
  /\ Leave(cur.conn)
  /\ cur' = None
  /\ pc' = "prune"
  /\ UNCHANGED <<ptyVars, feedVars, nextClientID, pendingFeed, lastFeed,
                 clientVars, actions, final, writerVars, clientReady, envVars>>

\* The client has left the list already (kicked, or its write failed).
RunDetachGone ==
  /\ pc = "act" /\ cur.type = "detach" /\ ~Listed(cur.conn)
  /\ cur' = None
  /\ pc' = "prune"
  /\ UNCHANGED <<ptyVars, feedVars, listVars, loopVars, clientVars, actions,
                 ioVars, envVars>>

RunKick ==
  /\ pc = "act" /\ cur.type = "kick"
  /\ \E c \in clients :
       /\ id[c] = cur.id
       /\ Leave(c)
       /\ conn' = [conn EXCEPT ![c] = "closed"]
  /\ answer' = "kicked"
  /\ cur' = None
  /\ pc' = "prune"
  /\ UNCHANGED <<ptyVars, feedVars, nextClientID, pendingFeed, lastFeed,
                 clientVars, actions, final, writerVars, clientReady, hpc,
                 reply, ctl, closeVars>>

RunKickUnknown ==
  /\ pc = "act" /\ cur.type = "kick" /\ \A c \in clients : id[c] # cur.id
  /\ answer' = "unknown"
  /\ cur' = None
  /\ pc' = "prune"
  /\ UNCHANGED <<ptyVars, feedVars, listVars, loopVars, clientVars, actions,
                 ioVars, connVars, ctl, closeVars>>

\* resizeReq: also for a client that has left the list.
RunResize ==
  /\ pc = "act" /\ cur.type = "resize"
  /\ csize' = [csize EXCEPT ![cur.conn] = cur.size]
  /\ size' = arbitrateResize(clients, csize')
  /\ cur' = None
  /\ pc' = "prune"
  /\ UNCHANGED <<ptyVars, feedVars, listVars, nextClientID, pendingFeed,
                 lastFeed, id, readOnly, actions, ioVars, envVars>>

RunInfo ==
  /\ pc = "act" /\ cur.type = "info"
  /\ answer' = "info"
  /\ cur' = None
  /\ pc' = "prune"
  /\ UNCHANGED <<ptyVars, feedVars, listVars, loopVars, clientVars, actions,
                 ioVars, connVars, ctl, closeVars>>

\* stopReq: a batch held back is dropped, the emulator is drained ...
RunStop ==
  /\ pc = "act" /\ cur.type = "stop"
  /\ pendingFeed' = 0
  /\ feed' = "closed"
  /\ pc' = "stopDrain"
  /\ UNCHANGED <<ptyVars, feedCh, screen, listVars, nextClientID, lastFeed,
                 size, clientVars, cur, actions, ioVars, envVars>>

\* ... and every client loses its connection, without an Exited message.
RunStopped ==
  /\ pc = "stopDrain" /\ feed = "done"
  /\ closes' = Closed(clients)
  /\ conn' = [c \in Conn |-> IF c \in clients THEN "closed" ELSE conn[c]]
  /\ clients' = {} /\ pendingClients' = {}
  /\ pc' = "done"
  /\ UNCHANGED <<ptyVars, feedVars, pendingOutput, loopVars, clientVars, cur,
                 actions, outCh, final, writerVars, clientReady, hpc, reply,
                 callVars, closeVars>>

-----------------------------------------------------------------------------
\* writeLoop of client c

\* Mutant: the run loop is not woken.
SignalLost == UNCHANGED clientReady

\* A send on clientReady that does not block: there is one token at most.
Signal == clientReady' = TRUE

WriterRecv(c) ==
  /\ wpc[c] = "recv" /\ outCh[c] # <<>>
  /\ hand' = [hand EXCEPT ![c] = Head(outCh[c]).data]
  /\ outCh' = [outCh EXCEPT ![c] = Tail(@)]
  /\ Signal
  /\ wpc' = [wpc EXCEPT ![c] = "write"]
  /\ UNCHANGED <<ptyVars, feedVars, runVars, actions, closes, final, view,
                 gotExited, envVars>>

\* The range over outCh ends; writeDone is closed unless Exited is to follow.
WriterClosed(c) ==
  /\ wpc[c] = "recv" /\ outCh[c] = <<>> /\ closes[c] > 0
  /\ wpc' = [wpc EXCEPT ![c] = IF final[c] THEN "final" ELSE "leaving"]
  /\ UNCHANGED <<ptyVars, feedVars, runVars, actions, chanVars, hand, view,
                 gotExited, clientReady, envVars>>

\* The socket takes the message.
WriteOK(c) ==
  /\ wpc[c] = "write" /\ conn[c] = "open"
  /\ view' = [view EXCEPT ![c] = @ \o hand[c]]
  /\ hand' = [hand EXCEPT ![c] = <<>>]
  /\ wpc' = [wpc EXCEPT ![c] = "recv"]
  /\ UNCHANGED <<ptyVars, feedVars, runVars, actions, chanVars, gotExited,
                 clientReady, envVars>>

WriteFinal(c) ==
  /\ wpc[c] = "final" /\ conn[c] = "open"
  /\ gotExited' = [gotExited EXCEPT ![c] = TRUE]
  /\ wpc' = [wpc EXCEPT ![c] = "leaving"]
  /\ UNCHANGED <<ptyVars, feedVars, runVars, actions, chanVars, hand, view,
                 clientReady, envVars>>

\* The write fails: either end of the connection is closed.
WriteErr(c) ==
  /\ wpc[c] \in {"write", "final"} /\ conn[c] # "open"
  /\ conn' = [conn EXCEPT ![c] = "closed"]
  /\ wpc' = [wpc EXCEPT ![c] = "leaving"]
  /\ UNCHANGED <<ptyVars, feedVars, runVars, actions, chanVars, hand, view,
                 gotExited, clientReady, hpc, reply, callVars, closeVars>>

\* writeDone is closed; the token follows.
WriterLeave(c) ==
  /\ wpc[c] = "leaving"
  /\ Signal
  /\ wpc' = [wpc EXCEPT ![c] = "done"]
  /\ UNCHANGED <<ptyVars, feedVars, runVars, actions, chanVars, hand, view,
                 gotExited, envVars>>

-----------------------------------------------------------------------------
\* The client process, and handleConn of its connection

PeerGone(c) ==
  /\ c \in Vanishing
  /\ conn[c] = "open"
  /\ conn' = [conn EXCEPT ![c] = "gone"]
  /\ UNCHANGED <<ptyVars, feedVars, runVars, actions, ioVars, hpc, reply,
                 callVars, closeVars>>

\* Sending on actions; what a caller does instead once s.done is closed is an
\* action of its own.
SendAction(a) ==
  /\ Len(actions) < ActCap
  /\ actions' = Append(actions, a)

\* attach(): the request is accepted by the channel, ...
HandleAttach(c, sz, ro) ==
  /\ hpc[c] = "control" /\ conn[c] # "closed"
  /\ SendAction([type |-> "attach", conn |-> c, size |-> sz, readOnly |-> ro])
  /\ hpc' = [hpc EXCEPT ![c] = "attaching"]
  /\ UNCHANGED <<ptyVars, feedVars, runVars, ioVars, conn, reply, callVars,
                 closeVars>>

\* ... its result arrives, ...
HandleAttached(c) ==
  /\ hpc[c] = "attaching" /\ reply[c] # "none"
  /\ hpc' = [hpc EXCEPT ![c] = IF reply[c] = "client" THEN "stream" ELSE "refused"]
  /\ UNCHANGED <<ptyVars, feedVars, runVars, actions, ioVars, conn, reply,
                 callVars, closeVars>>

\* ... or one of the two selects takes another case: the second one that of
\* s.done, the first one also that of ctx, which the daemon may cancel at any
\* time.
HandleAttachDone(c) ==
  /\ \/ hpc[c] = "control" /\ conn[c] # "closed"
     \/ hpc[c] = "attaching" /\ done
  /\ hpc' = [hpc EXCEPT ![c] = "refused"]
  /\ UNCHANGED <<ptyVars, feedVars, runVars, actions, ioVars, conn, reply,
                 callVars, closeVars>>

\* A Resize message in streaming mode.
HandleResize(c, sz) ==
  /\ "resize" \in Calls
  /\ hpc[c] = "stream" /\ conn[c] = "open" /\ ~readOnly[c]
  /\ SendAction([type |-> "resize", conn |-> c, size |-> sz])
  /\ UNCHANGED <<ptyVars, feedVars, runVars, ioVars, envVars>>

\* A Detach message, any other control message, or a read that fails.
HandleEnd(c) ==
  /\ hpc[c] = "stream"
  /\ hpc' = [hpc EXCEPT ![c] = "detaching"]
  /\ UNCHANGED <<ptyVars, feedVars, runVars, actions, ioVars, conn, reply,
                 callVars, closeVars>>

\* detachClient, then the handler's deferred Close.
HandleDetach(c) ==
  /\ hpc[c] = "detaching"
  /\ \/ SendAction([type |-> "detach", conn |-> c])
     \/ done /\ UNCHANGED actions
  /\ hpc' = [hpc EXCEPT ![c] = "closed"]
  /\ conn' = [conn EXCEPT ![c] = "closed"]
  /\ UNCHANGED <<ptyVars, feedVars, runVars, ioVars, reply, callVars,
                 closeVars>>

-----------------------------------------------------------------------------
\* A caller of kickClient or clientInfo, and Kill

Call(a) ==
  /\ ctl = "idle"
  /\ SendAction(a)
  /\ ctl' = "waiting"
  /\ UNCHANGED <<ptyVars, feedVars, runVars, ioVars, connVars, answer,
                 closeVars>>

kickClient(k) == "kick" \in Calls /\ Call([type |-> "kick", id |-> k])

clientInfo == "info" \in Calls /\ Call([type |-> "info"])

CallReturn ==
  /\ ctl = "waiting" /\ (answer # "none" \/ done)
  /\ ctl' = "idle"
  /\ answer' = "none"
  /\ UNCHANGED <<ptyVars, feedVars, runVars, actions, ioVars, connVars,
                 closeVars>>

\* kill(), as handleKill calls it.
Kill ==
  /\ "kill" \in Calls /\ sig = "none"
  /\ sig' = "hup"
  /\ UNCHANGED <<reaped, produced, ptyOut, ptyClosed, feedVars, runVars,
                 actions, ioVars, envVars>>

-----------------------------------------------------------------------------
\* close()

CloseCall ==
  /\ "close" \in Calls /\ closer = "idle"
  /\ closer' = "send"
  /\ UNCHANGED <<ptyVars, feedVars, runVars, actions, ioVars, connVars,
                 callVars, termOpen>>

CloseStop ==
  /\ closer = "send"
  /\ \/ SendAction(Stop)
     \/ done /\ UNCHANGED actions
  /\ closer' = "kill"
  /\ UNCHANGED <<ptyVars, feedVars, runVars, ioVars, connVars, callVars,
                 termOpen>>

\* SIGHUP to the child, and the PTY is closed under readPTY.
CloseKill ==
  /\ closer = "kill"
  /\ sig' = IF sig = "kill" THEN sig ELSE "hup"
  /\ closer' = "wait"
  /\ UNCHANGED <<reaped, produced, ptyOut, ptyClosed, feedVars, runVars,
                 actions, ioVars, connVars, callVars, termOpen>>

\* Mutant: the second signal is another SIGHUP.
CloseTimeoutHup ==
  /\ closer = "wait" /\ done /\ ~reaped /\ sig # "kill"
  /\ sig' = "hup"
  /\ UNCHANGED <<reaped, produced, ptyOut, ptyClosed, feedVars, runVars,
                 actions, ioVars, envVars>>

\* run() has ended and five seconds have passed: SIGKILL.
CloseTimeout ==
  /\ closer = "wait" /\ done /\ ~reaped /\ sig # "kill"
  /\ sig' = "kill"
  /\ UNCHANGED <<reaped, produced, ptyOut, ptyClosed, feedVars, runVars,
                 actions, ioVars, envVars>>

\* Mutant: close() does not wait for the writers.
WritersIgnored == TRUE

\* clientWriters.Wait()
WritersDone == \A c \in Conn : wpc[c] \in {"none", "done"}

\* s.done, s.ptyDone and the writers are awaited in turn, then the terminal is
\* closed and tempDir removed.
CloseTerm ==
  /\ closer = "wait" /\ done /\ reaped /\ WritersDone
  /\ termOpen' = FALSE
  /\ closer' = "returned"
  /\ UNCHANGED <<ptyVars, feedVars, runVars, actions, ioVars, connVars,
                 callVars>>

-----------------------------------------------------------------------------

RunNext ==
  \/ RunPrune \/ RunRetry \/ RunAccept \/ RunEOF \/ RunExitCloseFeed
  \/ RunExited \/ RunFeed \/ RunReady \/ RunTake \/ RunAttachResize
  \/ RunAttachFlush \/ RunAttachFail \/ RunAttach \/ RunDetach
  \/ RunDetachGone \/ RunKick \/ RunKickUnknown \/ RunResize \/ RunInfo
  \/ RunStop \/ RunStopped

PtyNext == PtyBatch \/ PtyReap \/ GatherClose

FeedNext == FeedApply \/ FeedEnd

WriterNext(c) ==
  \/ WriterRecv(c) \/ WriterClosed(c) \/ WriteOK(c) \/ WriteFinal(c)
  \/ WriteErr(c) \/ WriterLeave(c)

HandlerNext(c) ==
  \/ \E sz \in Sizes, ro \in Modes : HandleAttach(c, sz, ro)
  \/ HandleAttached(c) \/ HandleAttachDone(c)
  \/ \E sz \in Sizes : HandleResize(c, sz)
  \/ HandleEnd(c) \/ HandleDetach(c)

CallNext ==
  \/ \E k \in 1 .. Cardinality(Conn) : kickClient(k)
  \/ clientInfo \/ CallReturn \/ Kill

CloseNext ==
  \/ CloseCall \/ CloseStop \/ CloseKill \/ CloseTimeout \/ CloseTerm

Next ==
  \/ RunNext \/ PtyNext \/ FeedNext \/ CallNext \/ CloseNext
  \/ \E c \in Conn : WriterNext(c) \/ HandlerNext(c) \/ PeerGone(c)

Spec == Init /\ [][Next]_vars

-----------------------------------------------------------------------------
\* Fairness

\* The daemon's goroutines keep running.  A select that finds a case ready
\* again and again takes it at some time (Go chooses at random), and a sender
\* blocked on a full channel is served in turn: hence the strong fairness.
\* Only SIGKILL is sure to make the child exit, and only closing the PTY is sure
\* to end the read (another process may hold the terminal open).
ptmxClosed == closer \in {"wait", "returned"}

DaemonFairness ==
  /\ WF_vars(RunNext) /\ WF_vars(FeedNext)
  /\ SF_vars(RunAccept) /\ SF_vars(RunEOF) /\ SF_vars(RunFeed)
  /\ SF_vars(RunReady) /\ SF_vars(RunTake)
  /\ WF_vars(PtyReap /\ ptmxClosed /\ sig = "kill") /\ WF_vars(GatherClose)
  /\ WF_vars(CallReturn)
  /\ SF_vars(CloseStop)
  /\ WF_vars(CloseKill \/ CloseTimeout \/ CloseTerm)
  /\ \A c \in Conn :
       /\ WF_vars(WriterRecv(c) \/ WriterClosed(c) \/ WriteErr(c) \/ WriterLeave(c))
       /\ WF_vars(HandleAttached(c))
       /\ WF_vars(HandleEnd(c) /\ conn[c] # "open")
       /\ SF_vars(HandleDetach(c))

\* It makes no promise for the client processes: they may stop reading for ever
\* without closing their connection.
FairSpec == Spec /\ DaemonFairness

-----------------------------------------------------------------------------
\* Properties

TypePty ==
  /\ sig \in {"none", "hup", "kill"} /\ reaped \in BOOLEAN
  /\ produced \in Nat /\ ptyClosed \in BOOLEAN
  /\ ptyOut \in Seq(Nat) /\ Len(ptyOut) <= PtyCap

TypeFeed ==
  /\ feedCh \in Seq(Nat) /\ Len(feedCh) <= FeedCap
  /\ feed \in {"open", "closed", "done"}
  /\ screen \in Seq(Nat)

TypeRun ==
  /\ pc \in {"prune", "retry", "select", "act", "attach", "exitWait",
             "exitDrain", "stopDrain", "done"}
  /\ cur \in SessionAction \cup {None}
  /\ clients \subseteq Conn /\ pendingClients \subseteq Conn
  /\ nextClientID \in Nat
  /\ pendingFeed \in Nat /\ lastFeed \in Nat /\ pendingOutput \in Nat

TypeActions == actions \in Seq(SessionAction) /\ Len(actions) <= ActCap

TypeSize ==
  /\ size \in TermSize
  /\ id \in [Conn -> Nat] /\ csize \in [Conn -> Sizes]
  /\ readOnly \in [Conn -> BOOLEAN]

ChanType(out) ==
  /\ out \in [Conn -> Seq(Message)]
  /\ \A c \in Conn : Len(out[c]) <= OutCap

TypeChan ==
  /\ ChanType(outCh)
  /\ closes \in [Conn -> Nat] /\ final \in [Conn -> BOOLEAN]

TypeWriter ==
  /\ wpc \in [Conn -> {"none", "recv", "write", "final", "leaving", "done"}]
  /\ hand \in [Conn -> Seq(Nat)] /\ view \in [Conn -> Seq(Nat)]
  /\ gotExited \in [Conn -> BOOLEAN] /\ clientReady \in BOOLEAN

TypeEnv ==
  /\ conn \in [Conn -> {"open", "gone", "closed"}]
  /\ hpc \in [Conn -> {"control", "attaching", "stream", "refused",
                       "detaching", "closed"}]
  /\ reply \in [Conn -> {"none", "client", "error"}]
  /\ ctl \in {"idle", "waiting"}
  /\ answer \in {"none", "kicked", "unknown", "info"}
  /\ closer \in {"idle", "send", "kill", "wait", "returned"}
  /\ termOpen \in BOOLEAN

\* Every variable has its type, and every channel respects its capacity.
TypeOK ==
  /\ TypePty /\ TypeFeed /\ TypeRun /\ TypeActions
  /\ TypeSize /\ TypeChan /\ TypeWriter /\ TypeEnv

\* A sequence of batches without a gap, a repetition or a swap.
Counting(s) == \A i \in 1 .. Len(s) : s[i] = i

\* What a client's terminal has been given, dump and live output together, is
\* an initial part of the session's output: attaching at any moment, also while
\* a batch is held back for the emulator or for a slower client, neither loses
\* a batch nor shows one twice.
ClientStream == \A c \in Conn : Counting(view[c])

\* A client that is told that the shell exited has been given all output before,
\* and the exit code was known when the message was made.
ExitedLast ==
  \A c \in Conn : gotExited[c] => /\ Len(view[c]) = produced
                                  /\ reaped

\* run() never sends on, or closes, a channel that it has closed: either
\* would panic and take the daemon down.
NoClosedChannel ==
  /\ \A c \in Conn : closes[c] <= (IF c \in clients \cup pendingClients THEN 0 ELSE 1)
  /\ pc \notin {"exitDrain", "stopDrain", "done"} => feed = "open"

\* The terminal is closed only when no goroutine of the session is left that
\* could still use it, write to a client or feed it output.
TerminalClosedLast ==
  ~termOpen => /\ done /\ feed = "done" /\ reaped
               /\ \A c \in Conn : wpc[c] \in {"none", "done"}

\* Output is held back for a client only while that client is in the list, and
\* only one batch at a time: PTY intake stays off until it is delivered.
HeldBack ==
  /\ pendingClients \subseteq clients
  /\ pendingClients # {} => pendingOutput = lastFeed

\* The size the policy gives for the writable clients in the list.
PolicySize ==
  LET writable == {c \in clients : ~readOnly[c]}
  IN  IF writable = {} THEN size
      ELSE applyResizePolicy(Policy, {[id |-> id[c], size |-> csize[c]] : c \in writable})

\* Any step that lists a new writable client, drops a client whose connection
\* works, or records a client's new size leaves the session at the size that
\* the policy gives for the clients then listed.
ArbitratedChange ==
  [][ \/ \E c \in clients' \ clients : ~readOnly'[c]
      \/ /\ pc' # "done"
         /\ \E c \in clients \ clients' : ~Finished(c)
      \/ \E c \in clients : csize'[c] # csize[c]
      => size' = PolicySize' ]_vars

\* What README.md says of resize_policy: the session has the size that the
\* policy gives for its clients whenever run() waits for something to do.
SizeFollowsPolicy == pc = "select" => size = PolicySize

\* What the comment in attach() says: a caller that is told that the attach
\* failed leaves no client behind.
NoOrphan == \A c \in Conn : hpc[c] = "refused" => id[c] = 0

\* What the comment in the stopReq case says of the kill path: clients of a
\* killed session see the connection close, not Exited.
KilledSeesNoExited == sig # "none" => \A c \in Conn : ~gotExited[c]

\* A request to the run loop (a kick, a list of clients) is answered although
\* clients do not read.
CallAnswered == ctl = "waiting" ~> ctl = "idle"

\* The client processes keep reading: no write of the daemon blocks for ever.
ClientsRead == \A c \in Conn : []<>(wpc[c] \notin {"write", "final"})

\* Once the shell has exited and the PTY is drained into ptyOut, the run loop
\* ends, if the clients read (run).
SessionEnds == ClientsRead => (ptyClosed ~> done)

\* close() returns, if the clients read, although the child may ignore SIGHUP
\* and the session may end by itself meanwhile (close).
CloseReturns == ClientsRead => (closer = "send" ~> closer = "returned")

\* A batch accepted while a client is listed reaches its terminal, if the clients
\* read, or the client or its session goes away: no wakeup of the run loop is
\* lost (run, writeLoop).
OutputDelivered ==
  ClientsRead => \A c \in Conn : \A k \in 1 .. MaxChunk :
    (c \in clients /\ lastFeed >= k)
      ~> (Len(view[c]) >= k \/ c \notin clients)

-----------------------------------------------------------------------------
\* What is left of a session when only its clients' terminals are looked at.
View == INSTANCE SessionView WITH output <- produced, over <- ptyClosed,
                                  seen <- view, told <- gotExited

\* The run loop and its goroutines implement SessionView: whatever is queued,
\* held back, dumped or dropped, a terminal gets one dump and then batch after
\* batch, and Exited after the last (run, writeLoop, gatherPTYReads).
ImplementsView == View!Spec
=============================================================================
