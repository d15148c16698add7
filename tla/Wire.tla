-------------------------------- MODULE Wire --------------------------------
(***************************************************************************)
(* A connection between `ht` and its daemon: the framing and the write     *)
(* lock of Conn (codec.go) and the version handshake of client.Connect and *)
(* handleConn, over the codec of module Codec.                             *)
(***************************************************************************)
EXTENDS Codec

CONSTANTS
  Writer,             \* goroutines that call WriteMessage, <<side, index>>
  Msgs,               \* writer -> messages it may send
  Versions,           \* values of ProtocolVersion a client was built with
  Closes,             \* sides that may close the connection at any time
  MaxSend             \* bound: calls of WriteMessage for each of them

Sides == {"client", "server"}
peer(s) == CHOOSE p \in Sides : p # s

\* 8 in the code: a digit that is neither 0, the refusal, nor another version.
ProtocolVersion == 1

ASSUME WireAssumption ==
  /\ MaxSend \in Nat
  /\ Writer \subseteq Sides \X Nat /\ DOMAIN Msgs = Writer /\ Closes \subseteq Sides
  /\ \A w \in Writer : \A m \in Msgs[w] : isMessage(m)
  /\ Versions \subseteq 1 .. Base - 1

-----------------------------------------------------------------------------
VARIABLES
  version,            \* ProtocolVersion of the client
  stage,              \* of each side: the handshake, "open", or "shut"
  wire,               \* bytes a side has written and its peer has not read
  pc, frame, msg,     \* WriteMessage of each writer
  left,               \* bound: calls left to each writer
  rpc, need,          \* ReadMessage of each side, and the length it has read
  sent,               \* messages of a side, in the order they got its lock
  received            \* messages a side has decoded

hsVars    == <<version, stage>>
writeVars == <<pc, frame, msg, left, sent>>
readVars  == <<rpc, need, received>>

vars == <<hsVars, wire, writeVars, readVars>>

Init ==
  /\ version \in Versions
  /\ stage = [s \in Sides |-> IF s = "client" THEN "hello" ELSE "accept"]
  /\ wire = [s \in Sides |-> <<>>]
  /\ pc = [w \in Writer |-> "idle"]
  /\ frame = [w \in Writer |-> <<>>] /\ msg = [w \in Writer |-> <<>>]
  /\ left = [w \in Writer |-> MaxSend]
  /\ rpc = [s \in Sides |-> "head"] /\ need = [s \in Sides |-> 0]
  /\ sent = [s \in Sides |-> <<>>] /\ received = [s \in Sides |-> <<>>]

\* Bytes for a side to read; both ends of the connection are open.
inbox(s) == wire[peer(s)]
up == \A s \in Sides : stage[s] # "shut"

put(s, b) == wire' = [wire EXCEPT ![s] = @ \o b]
take(s, n) == wire' = [wire EXCEPT ![peer(s)] = SubSeq(@, n + 1, Len(@))]

\* WriteU8 and WriteString of a handshake, and a whole one to read.
hello(v, rev) == be(v, 1) \o WriteString(rev)
helloLen(b) == 3 + num(SubSeq(b, 2, 3))
greeted(b) == Len(b) >= 3 /\ Len(b) >= helloLen(b)

-----------------------------------------------------------------------------
\* Handshake (client.Connect) and AcceptHandshake (handleConn).  The revision
\* Version() is only logged.

Version == <<1>>

Hello ==
  /\ stage["client"] = "hello" /\ up
  /\ put("client", hello(version, Version))
  /\ stage' = [stage EXCEPT !["client"] = "await"]
  /\ UNCHANGED <<version, writeVars, readVars>>

\* Mutant: the daemon only logs another version.
AcceptHandshakeAny ==
  /\ stage["server"] = "accept" /\ up
  /\ greeted(inbox("server"))
  /\ LET b == inbox("server")
     IN wire' = [client |-> SubSeq(b, helloLen(b) + 1, Len(b)),
                 server |-> wire["server"] \o hello(ProtocolVersion, Version)]
  /\ stage' = [stage EXCEPT !["server"] = "open"]
  /\ UNCHANGED <<version, writeVars, readVars>>

\* The daemon refuses another version with version 0 and no revision.
AcceptHandshake ==
  /\ stage["server"] = "accept" /\ up
  /\ greeted(inbox("server"))
  /\ LET b == inbox("server")
         ok == b[1] = ProtocolVersion
     IN /\ wire' = [client |-> SubSeq(b, helloLen(b) + 1, Len(b)),
                    server |-> wire["server"] \o (IF ok THEN hello(ProtocolVersion, Version)
                                                  ELSE hello(0, <<>>))]
        /\ stage' = [stage EXCEPT !["server"] = IF ok THEN "open" ELSE "shut"]
  /\ UNCHANGED <<version, writeVars, readVars>>

\* Connect, with the daemon's answer.
Accepted ==
  /\ stage["client"] = "await" /\ greeted(inbox("client"))
  /\ take("client", helloLen(inbox("client")))
  /\ stage' = [stage EXCEPT !["client"] =
                 IF inbox("client")[1] = version THEN "open" ELSE "shut"]
  /\ UNCHANGED <<version, writeVars, readVars>>

\* The peer is gone: there is nothing to read, or the daemon's reply fails.
HandshakeFail(s) ==
  /\ stage[s] \in {"hello", "await", "accept"} /\ stage[peer(s)] = "shut"
  /\ s = "server" \/ ~greeted(inbox(s))
  /\ stage' = [stage EXCEPT ![s] = "shut"]
  /\ UNCHANGED <<version, wire, writeVars, readVars>>

\* netConn.Close: the handler returns, a kick, the end of either process.
Close(s) ==
  /\ s \in Closes /\ stage[s] # "shut"
  /\ stage' = [stage EXCEPT ![s] = "shut"]
  /\ UNCHANGED <<version, wire, writeVars, readVars>>

-----------------------------------------------------------------------------
\* WriteMessage

\* The message is encoded before the lock; a string that is too long is an
\* error, and nothing is written.
Encode(w, m) ==
  /\ pc[w] = "idle" /\ left[w] > 0 /\ stage[w[1]] = "open"
  /\ left' = [left EXCEPT ![w] = @ - 1]
  /\ IF fitsAll(m)
     THEN /\ pc' = [pc EXCEPT ![w] = "lock"]
          /\ frame' = [frame EXCEPT ![w] = encode(m)]
          /\ msg' = [msg EXCEPT ![w] = m]
     ELSE UNCHANGED <<pc, frame, msg>>
  /\ UNCHANGED <<hsVars, wire, readVars, sent>>

\* Mutant: WriteMessage without the lock.
lockedNever(s) == FALSE

locked(s) == \E w \in Writer : w[1] = s /\ pc[w] = "body"

WriteHeader(w) ==
  /\ pc[w] = "lock" /\ ~locked(w[1]) /\ up
  /\ put(w[1], be(Len(frame[w]), 4))
  /\ sent' = [sent EXCEPT ![w[1]] = Append(@, msg[w])]
  /\ pc' = [pc EXCEPT ![w] = "body"]
  /\ UNCHANGED <<hsVars, readVars, frame, msg, left>>

done(w) ==
  /\ pc' = [pc EXCEPT ![w] = "idle"]
  /\ frame' = [frame EXCEPT ![w] = <<>>] /\ msg' = [msg EXCEPT ![w] = <<>>]

WriteBody(w) ==
  /\ pc[w] = "body" /\ up
  /\ put(w[1], frame[w])
  /\ done(w)
  /\ UNCHANGED <<hsVars, readVars, left, sent>>

\* A write to a closed connection fails, and gives the lock back.
WriteFail(w) ==
  /\ pc[w] = "body" \/ (pc[w] = "lock" /\ ~locked(w[1]))
  /\ ~up
  /\ done(w)
  /\ UNCHANGED <<hsVars, wire, readVars, left, sent>>

-----------------------------------------------------------------------------
\* ReadMessage, called in a loop; its error ends the loop and the connection.

fail(s, why) ==
  /\ rpc' = [rpc EXCEPT ![s] = why]
  /\ stage' = [stage EXCEPT ![s] = "shut"]

\* Mutant: the length is taken to include its own four bytes.
ReadHeaderOff(s) ==
  /\ stage[s] = "open" /\ rpc[s] = "head" /\ Len(inbox(s)) >= 4
  /\ take(s, 4)
  /\ need' = [need EXCEPT ![s] = num(SubSeq(inbox(s), 1, 4)) + 4]
  /\ rpc' = [rpc EXCEPT ![s] = "body"]
  /\ UNCHANGED <<stage, version, writeVars, received>>

ReadHeader(s) ==
  /\ stage[s] = "open" /\ rpc[s] = "head" /\ Len(inbox(s)) >= 4
  /\ take(s, 4)
  /\ LET n == num(SubSeq(inbox(s), 1, 4))
     IN IF n = 0 \/ n > FrameMax
        THEN fail(s, "refused") /\ UNCHANGED need
        ELSE /\ need' = [need EXCEPT ![s] = n]
             /\ rpc' = [rpc EXCEPT ![s] = "body"]
             /\ UNCHANGED stage
  /\ UNCHANGED <<version, writeVars, received>>

ReadBody(s) ==
  /\ stage[s] = "open" /\ rpc[s] = "body" /\ Len(inbox(s)) >= need[s]
  /\ take(s, need[s])
  /\ need' = [need EXCEPT ![s] = 0]
  /\ LET d == decode(SubSeq(inbox(s), 1, need[s]))
     IN IF d.ok
        THEN /\ received' = [received EXCEPT ![s] = Append(@, d.msg)]
             /\ rpc' = [rpc EXCEPT ![s] = "head"]
             /\ UNCHANGED stage
        ELSE fail(s, "refused") /\ UNCHANGED received
  /\ UNCHANGED <<version, writeVars>>

\* io.EOF and io.ErrUnexpectedEOF.
ReadEnd(s) ==
  /\ stage[s] = "open" /\ stage[peer(s)] = "shut"
  /\ Len(inbox(s)) < IF rpc[s] = "head" THEN 4 ELSE need[s]
  /\ fail(s, "eof")
  /\ UNCHANGED <<version, wire, writeVars, need, received>>

-----------------------------------------------------------------------------
Next ==
  \/ Hello \/ AcceptHandshake \/ Accepted
  \/ \E s \in Sides :
       HandshakeFail(s) \/ Close(s) \/ ReadHeader(s) \/ ReadBody(s) \/ ReadEnd(s)
  \/ \E w \in Writer :
       (\E m \in Msgs[w] : Encode(w, m)) \/ WriteHeader(w) \/ WriteBody(w) \/ WriteFail(w)

Spec == Init /\ [][Next]_vars

-----------------------------------------------------------------------------
\* The messages that WriteMessage does not refuse.  It sets no limit to their
\* length: the properties are about frames whose length a uint32 holds, and
\* Understood about those of at most maxFrameSize.
Fitting == {m \in UNION {Msgs[w] : w \in Writer} : fitsAll(m)}

FramesCounted == \A m \in Fitting : Len(encode(m)) < U32
FramesFit == \A m \in Fitting : Len(encode(m)) <= FrameMax

\* What a side decodes is, field by field, what its peer encoded, in the order
\* in which the peer's goroutines got the write lock of Conn (codec.go): no
\* interleaving of two writers, no message that WriteMessage refused and no
\* string at its longest shifts the boundary of a frame or of a field.
RoundTrip ==
  \A s \in Sides : IsPrefix(received[s], sent[peer(s)])

\* ReadMessage accepts every frame that WriteMessage wrote: the reader of an
\* open connection never meets a length or a payload that it refuses.
Understood ==
  \A s \in Sides : rpc[s] # "refused"

\* No message is exchanged, and neither side gets as far as sending one, unless
\* client and daemon speak the same version (handleConn, client.Connect).
VersionGate ==
  version # ProtocolVersion =>
    \A s \in Sides : stage[s] # "open" /\ sent[s] = <<>> /\ received[s] = <<>>

\* Once nobody writes and both readers wait for more bytes, everything that got
\* the lock has been received and no byte is left over: no reader waits for the
\* rest of a frame that nobody will write.
blocked(s) ==
  stage[s] = "open" /\ Len(inbox(s)) < IF rpc[s] = "head" THEN 4 ELSE need[s]

Settled ==
  (\A w \in Writer : pc[w] = "idle") /\ (\A s \in Sides : blocked(s)) =>
    \A s \in Sides : wire[s] = <<>> /\ received[peer(s)] = sent[s]
=============================================================================
