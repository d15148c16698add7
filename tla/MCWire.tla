------------------------------- MODULE MCWire -------------------------------
EXTENDS Wire

CONSTANTS Patterns, Types

\* The pattern decides the lengths and the values: "short", "mixed", a string
\* of the greatest length ("full"), one too long ("over"), and "large", bytes
\* that make the frame larger than FrameMax.
Length(i, p) ==
  CASE p = "short" -> 0
    [] p = "mixed" -> 1 + (i % 2)
    [] p = "full"  -> IF i = 1 THEN StrMax ELSE 1
    [] p = "over"  -> IF i = 1 THEN StrMax + 1 ELSE 1
    [] p = "large" -> 1

Sampled(i, p) == [j \in 1 .. Length(i, p) |-> (i + j) % Base]

Turn(i, p) == IF p = "short" THEN 0 ELSE i

RECURSIVE Sample(_, _, _)

Struct(type, p) ==
  LET fields == encodeOrder[type]
      At(name) == CHOOSE i \in DOMAIN fields : fields[i][1] = name
  IN [name \in {fields[i][1] : i \in DOMAIN fields} |->
        Sample(fields[At(name)][2], At(name), p)]

Many(x, y, p) == IF p = "short" THEN <<>> ELSE <<x, y>>

Sample(kind, i, p) ==
  CASE kind = "u8"       -> Turn(i, p) % Base
    [] kind = "u16"      -> (Turn(i, p) * 7) % Base^2
    [] kind = "u32"      -> (Turn(i, p) * 23) % Base^4
    [] kind = "i32"      -> IF p = "short" THEN -1 ELSE Base^4 \div 2 - 1
    [] kind = "bool"     -> Turn(i, p) % 2 = 1
    [] kind = "str"      -> Sampled(i, p)
    [] kind = "bytes"    -> IF p = "large" THEN [j \in 1 .. FrameMax |-> 1]
                            ELSE Sampled(i + 1, p)
    [] kind = "strs"     -> Many(Sampled(i + 2, p), Sampled(i + 1, "mixed"), p)
    [] kind = "clients"  -> Many(Struct("SessionClient", "mixed"),
                                 Struct("SessionClient", "short"), p)
    [] kind = "sessions" -> Many(Struct("Session", "short"), Struct("Session", p), p)
    [] kind = "status"   -> IF p = "short" THEN <<>> ELSE <<Struct("SessionStatus", p)>>

Messages(types) == {[type |-> t, fields |-> Struct(t, p)] : t \in types, p \in Patterns}

\* Two goroutines of the client, one of which sends messages of every type,
\* and one of the daemon.
MCWriter == {<<"client", 1>>, <<"client", 2>>, <<"server", 1>>}

MCMsgs ==
  [w \in MCWriter |-> Messages(IF w = <<"client", 1>> THEN DOMAIN MessageType ELSE Types)]

\* What the theorems of WireProofs assume of the messages; "large" ones do not fit.
ASSUME MessagesFit == FramesCounted /\ ("large" \in Patterns \/ FramesFit)
=============================================================================
