---------------------------- MODULE AttachClient ----------------------------
(***************************************************************************)
(* `ht attach` once the daemon has answered: RunAttach of                  *)
(* client/attach.go, the two goroutines that it starts, and the streaming  *)
(* half of the daemon's handleConn at the other end of the connection.     *)
(*                                                                         *)
(*   host terminal -- stdin --> forwardHostInput -- up --> handleConn      *)
(*   SIGWINCH --------------> forwardHostResize -- up -->                  *)
(*   host terminal <- stdout -- RunAttach's loop <- down -- the session    *)
(*                                                                         *)
(* The host terminal is what RunAttach and the session's output change of  *)
(* it: raw mode, the stack of kitty keyboard levels, modes, and the        *)
(* batches of output it shows, numbered as in SessionLoop.  Typed keys are *)
(* "x", the detach key as one byte, or the two halves of its CSI sequence, *)
(* since a read of the terminal may end between any two bytes.  mu and the *)
(* connection's own mutex keep every message whole.                        *)
(***************************************************************************)
EXTENDS SequencesExt

CONSTANTS
  Modes,              \* the values of ReadOnly in AttachOpts
  Command,            \* its command is not empty
  HasRaw,             \* hasRaw of its detach key
  Sizes,              \* sizes the host terminal has, all alike
  Faults,             \* see below
  MaxOut,             \* bound: batches the session puts out
  MaxPush,            \* bound: keyboard levels its output leaves pushed
  MaxHost,            \* bound: keys typed and resizes of the host terminal
  UpCap               \* capacity of the socket towards the daemon, in messages

\* "stdout": writes to the terminal fail from some moment on; "raw": MakeRaw
\* fails; "torn": the connection ends inside a message; "error": the daemon
\* sends Error; "split": a read returns a part of what was typed; "early": the
\* host may be resized before the signal is asked for.
FaultKinds == {"stdout", "raw", "torn", "error", "split", "early"}

ASSUME ClientAssumption ==
  /\ Modes \subseteq BOOLEAN /\ Command \in BOOLEAN /\ HasRaw \in BOOLEAN
  /\ Sizes # {} /\ Faults \subseteq FaultKinds
  /\ MaxOut \in Nat /\ MaxPush \in Nat /\ MaxHost \in Nat /\ UpCap \in Nat \ {0}

VARIABLES
  pc,                          \* RunAttach
  readOnly,                    \* of its options
  created, dump,               \* what it keeps of Attached
  inpc, data,                  \* forwardHostInput and its buffer
  rspc, ws,                    \* forwardHostResize and the size it has read
  closed,                      \* c.Close was called
  \* the host terminal
  tty, kitty, modes, shown, broken, winsize, winch, stdin,
  \* the connection: messages under way, and what the daemon did to it
  up, down, peer,
  \* the daemon's side
  out, ended, got, dsize,
  \* bounds; the keys forwardHostInput has read, and whether each read held one
  \* form of the detach key at most and no part of one; the keyboard levels that
  \* the session's output has left pushed
  keys, resizes, readLog, oneForm, app

optVars  == <<readOnly, created, dump>>
mainVars == <<pc, optVars>>
goVars   == <<inpc, data, rspc, ws, closed, readLog, oneForm>>
hostVars == <<tty, kitty, modes, shown, app, broken>>
typeVars == <<stdin, keys>>
sizeVars == <<winsize, winch, resizes>>
sockVars == <<up, down, peer>>
dmnVars  == <<out, ended, got, dsize>>

vars == <<mainVars, goVars, hostVars, typeVars, sizeVars, sockVars, dmnVars>>

UpTo(k) == [i \in 1 .. k |-> i]

csiSeq == <<"csi", "csiEnd">>

DetachKey == {csiSeq} \cup (IF HasRaw THEN {<<"raw">>} ELSE {})

\* What output may leave set: the modes that restoreHostTerminal resets (alternate
\* screen, mouse, paste, cursor, colours and so on), and others, such as the
\* scrolling region or the shape of the cursor.
HostModes == {"listed", "other"}

Init ==
  /\ pc = "kitty"
  /\ readOnly \in Modes /\ created \in BOOLEAN
  /\ \E d \in 0 .. MaxOut : dump = UpTo(d) /\ out = d
  /\ inpc = "none" /\ data = <<>> /\ rspc = "none" /\ closed = FALSE
  /\ tty = "cooked" /\ kitty = 0 /\ modes = {} /\ shown = <<>> /\ app = 0 /\ broken = FALSE
  /\ winsize = (CHOOSE z \in Sizes : TRUE) /\ winch = FALSE /\ stdin = <<>>
  /\ up = <<>> /\ down = <<>> /\ peer = "open"
  /\ ended = FALSE /\ got = <<>> /\ dsize = winsize /\ ws = winsize
  /\ keys = 0 /\ resizes = 0 /\ readLog = <<>> /\ oneForm = TRUE

-----------------------------------------------------------------------------
\* The host terminal and its user, as long as it is RunAttach's

returned == pc \in {"detached", "exited", "failed"}

Type ==
  /\ keys + resizes < MaxHost /\ ~returned
  /\ keys' = keys + 1
  /\ \E k \in {<<"x">>} \cup DetachKey : stdin' = stdin \o k
  /\ UNCHANGED <<mainVars, goVars, hostVars, sizeVars, sockVars, dmnVars>>

\* SIGWINCH is kept once, and only after signal.Notify.
HostResize ==
  /\ keys + resizes < MaxHost /\ ~returned /\ (rspc # "none" \/ "early" \in Faults)
  /\ resizes' = resizes + 1
  /\ \E z \in Sizes \ {winsize} : winsize' = z
  /\ winch' = (winch \/ rspc \in {"wait", "ioctl", "send"})
  /\ UNCHANGED <<mainVars, goVars, hostVars, typeVars, sockVars, dmnVars>>

\* From now on a write to it fails.
HostBreaks ==
  /\ "stdout" \in Faults /\ ~broken /\ ~returned
  /\ broken' = TRUE
  /\ UNCHANGED <<mainVars, goVars, tty, kitty, modes, shown, app, typeVars, sizeVars, sockVars,
                 dmnVars>>

-----------------------------------------------------------------------------
\* RunAttach up to its loop

goto(l) == pc' = l

less(n, k) == IF n > k THEN n - k ELSE 0

\* Writing the session's output may set and reset any mode of the host terminal,
\* and pop and push keyboard levels.
show(s) ==
  IF s = <<>> \/ broken THEN UNCHANGED <<shown, modes, kitty, app>>
  ELSE /\ shown' = shown \o s
       /\ modes' \in SUBSET HostModes
       /\ \E pop, push \in 0 .. MaxPush :
            /\ kitty' = less(kitty, pop) + push
            /\ app' = less(app, pop) + push /\ app' <= MaxPush

\* What the two functions that write the dump have to write.
reattachDump == IF created THEN <<>> ELSE dump
createdDump  == IF created /\ Command THEN dump ELSE <<>>

PushKitty ==
  /\ pc = "kitty" /\ ~broken
  /\ kitty' = kitty + 1
  /\ goto("dump")
  /\ UNCHANGED <<optVars, goVars, tty, modes, shown, app, broken, typeVars, sizeVars, sockVars,
                 dmnVars>>

\* Mutant: the keyboard level is pushed with the dump again.
ReattachDumpPush ==
  /\ pc = "dump"
  /\ goto("raw")
  /\ kitty' = kitty + 1
  /\ UNCHANGED <<optVars, goVars, tty, modes, shown, app, broken, typeVars, sizeVars, sockVars,
                 dmnVars>>

\* writeReattachScreenDump; raw mode for the cursor query is given back.
ReattachDump ==
  /\ pc = "dump" /\ ~(broken /\ reattachDump # <<>>)
  /\ show(reattachDump)
  /\ goto("raw")
  /\ UNCHANGED <<optVars, goVars, tty, broken, typeVars, sizeVars, sockVars, dmnVars>>

MakeRaw ==
  /\ pc = "raw"
  /\ tty' = "raw"
  /\ goto("drain")
  /\ UNCHANGED <<optVars, goVars, kitty, modes, shown, app, broken, typeVars, sizeVars,
                 sockVars, dmnVars>>

\* drainStdin.
Drain ==
  /\ pc = "drain"
  /\ stdin' = <<>>
  /\ goto("spawn")
  /\ UNCHANGED <<optVars, goVars, hostVars, keys, sizeVars, sockVars, dmnVars>>

Spawn ==
  /\ pc = "spawn"
  /\ inpc' = "read"
  /\ rspc' = IF readOnly THEN "gone" ELSE "wait"
  /\ goto("created")
  /\ UNCHANGED <<optVars, data, ws, closed, readLog, oneForm, hostVars, typeVars, sizeVars,
                 sockVars, dmnVars>>

\* Mutant: the dump is written for every command.
createdDumpAlways ==
  /\ pc = "created"
  /\ show(IF Command THEN dump ELSE <<>>)
  /\ goto("loop")
  /\ UNCHANGED <<optVars, goVars, tty, broken, typeVars, sizeVars, sockVars, dmnVars>>

writeCreatedCommandDump ==
  /\ pc = "created" /\ ~(broken /\ createdDump # <<>>)
  /\ show(createdDump)
  /\ goto("loop")
  /\ UNCHANGED <<optVars, goVars, tty, broken, typeVars, sizeVars, sockVars, dmnVars>>

\* An error before the loop; the deferred Restore, if it is there already.
SetupFail ==
  /\ \/ pc = "kitty" /\ broken
     \/ pc = "dump" /\ broken /\ reattachDump # <<>>
     \/ pc = "raw" /\ "raw" \in Faults
     \/ pc = "created" /\ broken /\ createdDump # <<>>
  /\ tty' = "cooked"
  /\ goto("failed")
  /\ UNCHANGED <<optVars, goVars, kitty, modes, shown, app, broken, typeVars, sizeVars,
                 sockVars, dmnVars>>

-----------------------------------------------------------------------------
\* The loop of RunAttach, and handleAttachMessage

receive == pc = "loop" /\ ~closed /\ down # <<>> /\ down' = Tail(down)

\* Mutant: the keyboard level is not popped.
restoreHostTerminalKitty ==
  /\ kitty' = kitty
  /\ modes' = IF broken THEN modes ELSE modes \ {"listed"}
  /\ UNCHANGED <<tty, shown, app, broken, typeVars>>

\* The write that ends with the pop of one keyboard level; its error is ignored.
restoreHostTerminal ==
  /\ kitty' = IF broken THEN kitty ELSE less(kitty, 1)
  /\ modes' = IF broken THEN modes ELSE modes \ {"listed"}
  /\ UNCHANGED <<tty, shown, app, broken, typeVars>>

\* Then drainStdin and the old state of the terminal.
RestoreTerm ==
  /\ pc \in {"detaching", "exiting"}
  /\ stdin' = <<>> /\ tty' = "cooked"
  /\ goto(IF pc = "detaching" THEN "detached" ELSE "exited")
  /\ UNCHANGED <<optVars, goVars, kitty, modes, shown, app, broken, keys, sizeVars, sockVars,
                 dmnVars>>

ReadOutput ==
  /\ receive /\ Head(down).type = "output"
  /\ show(<<Head(down).k>>)
  /\ UNCHANGED <<mainVars, goVars, tty, broken, typeVars, sizeVars, up, peer, dmnVars>>

ReadClientsChanged ==
  /\ receive /\ Head(down).type = "changed"
  /\ UNCHANGED <<mainVars, goVars, hostVars, typeVars, sizeVars, up, peer, dmnVars>>

ReadExited ==
  /\ receive /\ Head(down).type = "exited"
  /\ restoreHostTerminal
  /\ goto("exiting")
  /\ UNCHANGED <<optVars, goVars, sizeVars, up, peer, dmnVars>>

ReadError ==
  /\ receive /\ Head(down).type = "error"
  /\ tty' = "cooked"
  /\ goto("failed")
  /\ UNCHANGED <<optVars, goVars, kitty, modes, shown, app, broken, typeVars, sizeVars, up,
                 peer, dmnVars>>

\* io.EOF, or net.ErrClosed after the own Close.
ReadEnd ==
  /\ pc = "loop"
  /\ closed \/ (down = <<>> /\ peer = "closed")
  /\ restoreHostTerminal
  /\ goto("detaching")
  /\ UNCHANGED <<optVars, goVars, sizeVars, sockVars, dmnVars>>

ReadFail ==
  /\ pc = "loop" /\ ~closed /\ down = <<>> /\ peer = "torn"
  /\ tty' = "cooked"
  /\ goto("failed")
  /\ UNCHANGED <<optVars, goVars, kitty, modes, shown, app, broken, typeVars, sizeVars,
                 sockVars, dmnVars>>

-----------------------------------------------------------------------------
\* forwardHostInput

\* The least of some places of a buffer, counted from 0, or -1.
firstOf(at) == IF at = {} THEN -1 ELSE (CHOOSE i \in at : \A j \in at : i <= j) - 1

\* bytes.IndexByte of the raw byte, bytes.Index of the CSI sequence.
rawIndex(s) == firstOf({i \in 1 .. Len(s) : HasRaw /\ s[i] = "raw"})

csiIndex(s) == firstOf({i \in 1 .. Len(s) - 1 : <<s[i], s[i + 1]>> = csiSeq})

findDetach(s) == IF rawIndex(s) >= 0 THEN rawIndex(s) ELSE csiIndex(s)

Input(s) == [type |-> "input", data |-> s]

Resize(z) == [type |-> "resize", size |-> z]

Detach == [type |-> "detach"]

\* WriteMessage: it blocks while the socket is full and fails once an end of it
\* is closed.
canWrite == ~closed /\ peer = "open"

send(m) == canWrite /\ Len(up) < UpCap /\ up' = Append(up, m)

\* Every "csi" of s has its "csiEnd" behind it, and the other way round.
Whole(s) ==
  \A i \in 1 .. Len(s) : /\ s[i] = "csi" => i < Len(s) /\ s[i + 1] = "csiEnd"
                         /\ s[i] = "csiEnd" => i > 1 /\ s[i - 1] = "csi"

OneForm(s) ==
  Whole(s) /\ \A i, j \in 1 .. Len(s) : ~(s[i] = "raw" /\ s[j] = "csi")

InputRead ==
  /\ inpc = "read" /\ stdin # <<>> /\ ~returned
  /\ \E n \in (IF "split" \in Faults THEN 1 .. Len(stdin) ELSE {Len(stdin)}) :
       /\ data' = SubSeq(stdin, 1, n)
       /\ stdin' = SubSeq(stdin, n + 1, Len(stdin))
       /\ readLog' = readLog \o SubSeq(stdin, 1, n)
  /\ oneForm' = (oneForm /\ OneForm(data'))
  /\ inpc' = "send"
  /\ UNCHANGED <<mainVars, rspc, ws, closed, hostVars, keys, sizeVars, sockVars, dmnVars>>

\* Mutant: the detach key is sent along.
InputSendAll ==
  LET i == findDetach(data)
      m == data
  IN  /\ inpc = "send" /\ ~returned
      /\ IF readOnly \/ m = <<>> THEN UNCHANGED up ELSE send(Input(m))
      /\ inpc' = IF i >= 0 THEN "detach" ELSE "read"
      /\ data' = IF i >= 0 THEN data ELSE <<>>
      /\ UNCHANGED <<mainVars, rspc, ws, closed, readLog, oneForm, hostVars, typeVars, sizeVars,
                     down, peer, dmnVars>>

\* Mutant: a detach key at the start of the buffer is overlooked.
InputSendFirst ==
  LET i == findDetach(data)
      m == IF i >= 0 THEN SubSeq(data, 1, i) ELSE data
  IN  /\ inpc = "send" /\ ~returned
      /\ IF readOnly \/ m = <<>> THEN UNCHANGED up ELSE send(Input(m))
      /\ inpc' = IF i > 0 THEN "detach" ELSE "read"
      /\ data' = IF i >= 0 THEN data ELSE <<>>
      /\ UNCHANGED <<mainVars, rspc, ws, closed, readLog, oneForm, hostVars, typeVars, sizeVars,
                     down, peer, dmnVars>>

\* What goes before the detach key, if there is one, or all of it.
InputSend ==
  LET i == findDetach(data)
      m == IF i >= 0 THEN SubSeq(data, 1, i) ELSE data
  IN  /\ inpc = "send" /\ ~returned
      /\ IF readOnly \/ m = <<>> THEN UNCHANGED up ELSE send(Input(m))
      /\ inpc' = IF i >= 0 THEN "detach" ELSE "read"
      /\ data' = IF i >= 0 THEN data ELSE <<>>
      /\ UNCHANGED <<mainVars, rspc, ws, closed, readLog, oneForm, hostVars, typeVars, sizeVars,
                     down, peer, dmnVars>>

\* c.Detach, whatever comes of it, and c.Close.
InputDetach ==
  /\ inpc = "detach" /\ ~returned
  /\ IF canWrite THEN send(Detach) ELSE UNCHANGED up
  /\ closed' = TRUE
  /\ inpc' = "gone"
  /\ UNCHANGED <<mainVars, data, rspc, ws, readLog, oneForm, hostVars, typeVars, sizeVars, down,
                 peer, dmnVars>>

InputFail ==
  /\ inpc = "send" /\ ~canWrite /\ ~readOnly /\ ~returned /\ findDetach(data) # 0
  /\ inpc' = "gone"
  /\ UNCHANGED <<mainVars, data, rspc, ws, closed, readLog, oneForm, hostVars, typeVars, sizeVars,
                 sockVars, dmnVars>>

-----------------------------------------------------------------------------
\* forwardHostResize.  close(done) comes with the return of RunAttach.

ResizeSignal ==
  /\ rspc = "wait" /\ winch /\ ~returned
  /\ winch' = FALSE
  /\ rspc' = "ioctl"
  /\ UNCHANGED <<mainVars, inpc, data, ws, closed, readLog, oneForm, hostVars, typeVars, winsize,
                 resizes, sockVars, dmnVars>>

\* TIOCGWINSZ.
ResizeRead ==
  /\ rspc = "ioctl" /\ ~returned
  /\ ws' = winsize
  /\ rspc' = "send"
  /\ UNCHANGED <<mainVars, inpc, data, closed, readLog, oneForm, hostVars, typeVars, sizeVars,
                 sockVars, dmnVars>>

\* Mutant: signals that came in during the write are taken for answered.
ResizeSendForget ==
  /\ rspc = "send" /\ ~returned
  /\ send(Resize(ws))
  /\ rspc' = "wait" /\ winch' = FALSE
  /\ UNCHANGED <<mainVars, inpc, data, ws, closed, readLog, oneForm, hostVars, typeVars, winsize,
                 resizes, down, peer, dmnVars>>

\* The message, when mu is free and the socket has room.
ResizeSend ==
  /\ rspc = "send" /\ ~returned
  /\ send(Resize(ws))
  /\ rspc' = "wait"
  /\ UNCHANGED <<mainVars, inpc, data, ws, closed, readLog, oneForm, hostVars, typeVars, sizeVars,
                 down, peer, dmnVars>>

ResizeEnd ==
  /\ \/ rspc = "send" /\ ~canWrite
     \/ rspc = "wait" /\ returned
  /\ rspc' = "gone"
  /\ UNCHANGED <<mainVars, inpc, data, ws, closed, readLog, oneForm, hostVars, typeVars, sizeVars,
                 sockVars, dmnVars>>

-----------------------------------------------------------------------------
\* The daemon: the session's messages, and handleConn in streaming mode

post(m) == peer = "open" /\ ~ended /\ down' = Append(down, m)

SessionOutput ==
  /\ out < MaxOut
  /\ out' = out + 1
  /\ post([type |-> "output", k |-> out + 1])
  /\ UNCHANGED <<mainVars, goVars, hostVars, typeVars, sizeVars, up, peer, ended, got, dsize>>

SessionChanged ==
  /\ Len(down) = 0
  /\ post([type |-> "changed"])
  /\ UNCHANGED <<mainVars, goVars, hostVars, typeVars, sizeVars, up, peer, dmnVars>>

\* The last message of a client; its connection stays open.
SessionExited ==
  /\ \E m \in {"exited"} \cup ({"error"} \cap Faults) : post([type |-> m])
  /\ ended' = TRUE
  /\ UNCHANGED <<mainVars, goVars, hostVars, typeVars, sizeVars, up, peer, out, got, dsize>>

\* Kicked, stopped with its session, or cut off with the daemon.
SessionClose ==
  /\ peer = "open"
  /\ peer' \in {"closed"} \cup ({"torn"} \cap Faults)
  /\ UNCHANGED <<mainVars, goVars, hostVars, typeVars, sizeVars, up, down, dmnVars>>

\* One message.  A client that closed its end is detached when the rest is read.
\* The write of an input to the PTY blocks while the child does not read.
HandleMessage ==
  /\ peer = "open" /\ up # <<>>
  /\ up' = Tail(up)
  /\ LET m == Head(up) IN
     /\ got' = IF m.type = "input" /\ ~readOnly THEN got \o m.data ELSE got
     /\ dsize' = IF m.type = "resize" /\ ~readOnly THEN m.size ELSE dsize
     /\ peer' = IF m.type = "detach" THEN "closed" ELSE peer
  /\ UNCHANGED <<mainVars, goVars, hostVars, typeVars, sizeVars, down, out, ended>>

-----------------------------------------------------------------------------
MainStep ==
  \/ PushKitty \/ ReattachDump \/ MakeRaw \/ Drain \/ Spawn \/ writeCreatedCommandDump
  \/ SetupFail \/ ReadOutput \/ ReadClientsChanged \/ ReadExited \/ ReadError \/ ReadEnd
  \/ ReadFail \/ RestoreTerm

InputStep == InputRead \/ InputSend \/ InputDetach \/ InputFail

ResizeStep == ResizeSignal \/ ResizeRead \/ ResizeSend \/ ResizeEnd

SessionStep == SessionOutput \/ SessionChanged \/ SessionExited \/ SessionClose

Next ==
  \/ Type \/ HostResize \/ HostBreaks \/ MainStep \/ InputStep \/ ResizeStep \/ SessionStep
  \/ HandleMessage

Spec == Init /\ [][Next]_vars

inputFirst == up # <<>> /\ Head(up).type = "input"

\* The client's goroutines are scheduled, a blocked writer is served when there
\* is room, and the handler goes on after a message that is not an input.
Fairness ==
  /\ WF_vars(MainStep) /\ WF_vars(HandleMessage /\ ~inputFirst)
  /\ SF_vars(InputStep) /\ SF_vars(ResizeStep)

FairSpec == Spec /\ Fairness

-----------------------------------------------------------------------------
\* Properties

Key == {"x", "csi", "csiEnd"} \cup (IF HasRaw THEN {"raw"} ELSE {})

MessageUp ==
  [type : {"input"}, data : Seq(Key)]
    \cup [type : {"resize"}, size : Sizes] \cup [type : {"detach"}]

MessageDown ==
  [type : {"output"}, k : 1 .. MaxOut] \cup [type : {"changed", "exited", "error"}]

TypeOK ==
  /\ pc \in {"kitty", "dump", "raw", "drain", "spawn", "created", "loop", "detaching",
             "exiting", "detached", "exited", "failed"}
  /\ readOnly \in BOOLEAN /\ created \in BOOLEAN /\ dump \in Seq(1 .. MaxOut)
  /\ inpc \in {"none", "read", "send", "detach", "gone"}
  /\ rspc \in {"none", "wait", "ioctl", "send", "gone"}
  /\ \A b \in {closed, ended, winch, broken, oneForm} : b \in BOOLEAN
  /\ \A s \in {data, stdin, got, readLog} : s \in Seq(Key)
  /\ tty \in {"cooked", "raw"} /\ shown \in Seq(1 .. MaxOut) /\ modes \subseteq HostModes
  /\ app \in 0 .. MaxPush /\ kitty \in 0 .. MaxPush + 1
  /\ winsize \in Sizes /\ dsize \in Sizes /\ ws \in Sizes
  /\ up \in Seq(MessageUp) /\ Len(up) <= UpCap /\ down \in Seq(MessageDown)
  /\ peer \in {"open", "closed", "torn"}
  /\ out \in 0 .. MaxOut /\ keys \in 0 .. MaxHost /\ resizes \in 0 .. MaxHost

\* However RunAttach ends, the host terminal is out of raw mode.  After a detach
\* or the exit of the session, whatever its output did meanwhile, no mode of
\* restoreHostTerminal's list is left set, and no more keyboard levels than the
\* output itself has left pushed: the one of pushKittyKeyboard is accounted for.
HostClean ==
  /\ returned => tty = "cooked"
  /\ pc \in {"detached", "exited"} /\ ~broken => "listed" \notin modes /\ kitty <= app

\* After a detach or an exit the host terminal is back at its own keyboard level.
\* (Not when the session's output has pushed one: see the README.)
KeyboardIsolated == pc \in {"detached", "exited"} /\ ~broken => kitty = 0

\* The host terminal shows the session's output from the first batch on: the
\* dump is shown once, before the output that follows it (RunAttach).
HostStream == IsPrefix(shown, UpTo(out))

\* What the session is given is what was typed, in order; never the raw byte of
\* the detach key nor what follows it; nothing of its CSI form either, unless a
\* read cuts that in two or has the raw byte behind it; all that comes before
\* the key, by the time the daemon reads the Detach; and nothing of a read-only
\* client (forwardHostInput, findDetach).
InputUpToDetach ==
  /\ IsPrefix(got, IF readOnly THEN <<>> ELSE readLog)
  /\ \A i \in 1 .. Len(got) : got[i] # "raw" /\ (oneForm => got[i] = "x")
  /\ up # <<>> /\ Head(up).type = "detach" /\ ~readOnly =>
       Len(got) = Len(readLog) - Len(data) + findDetach(data)

\* The child reads what is written to its PTY: the handler does not stay at an
\* input for ever.
PtyTakesInput == []<>~(peer = "open" /\ inputFirst)

\* As long as the child takes its input, a read with the detach key in it ends
\* the attach, however much is under way in either direction and whatever the
\* resizes do that share mu (forwardHostInput, ReadMessage).
DetachReturns ==
  PtyTakesInput => (inpc = "send" /\ findDetach(data) >= 0 ~> returned)

\* While a client that may write is attached and the child takes its input, the
\* daemon comes to know the size that the host terminal has, also when that
\* changes while an earlier one is being written (forwardHostResize).
SizeReported ==
  PtyTakesInput =>
    readOnly \/ <>[](dsize = winsize) \/ <>(returned \/ peer # "open" \/ closed)
=============================================================================
