------------------------------- MODULE Codec -------------------------------
(***************************************************************************)
(* The codec of protocol/ (encoding.go, messages*.go): what the encoder    *)
(* makes of a message and what the decoder makes of a frame.               *)
(*                                                                         *)
(* A byte is a digit below Base (256 in the code), so a uint16 is two      *)
(* digits, a uint32 four, and a string may have Base^2 - 1 of them.  Only  *)
(* the type byte of a frame keeps its value.  A message is its type and    *)
(* its fields; the order in which encode writes them and the order in      *)
(* which decode assigns them are two tables, translated separately.        *)
(*                                                                         *)
(* Structures are nested three deep, and each depth has its own operator   *)
(* for writing, refusing and reading: flat fields, fields with a list of   *)
(* clients, and the fields of a message.                                   *)
(***************************************************************************)
EXTENDS Integers, SequencesExt

CONSTANTS
  Base,               \* number of values of a byte
  FrameMax            \* maxFrameSize

U16 == Base * Base
U32 == Base * Base * Base * Base
StrMax == U16 - 1

\* maxFrameSize is a uint32.
ASSUME CodecAssumption ==
  Base \in Nat \ {0, 1} /\ FrameMax \in Nat /\ FrameMax < U32

-----------------------------------------------------------------------------
\* PutUint16, PutUint32 (big-endian), their inverses, and the conversion of
\* a uint32 to an int32.

low(v) == v % Base
shift(v) == v \div Base

be(v, w) ==
  CASE w = 1 -> <<low(v)>>
    [] w = 2 -> <<low(shift(v)), low(v)>>
    [] w = 4 -> <<low(shift(shift(shift(v)))), low(shift(shift(v))), low(shift(v)), low(v)>>

num(s) ==
  CASE Len(s) = 1 -> s[1]
    [] Len(s) = 2 -> s[1] * Base + s[2]
    [] Len(s) = 4 -> ((s[1] * Base + s[2]) * Base + s[3]) * Base + s[4]

int32(n) == IF n >= U32 \div 2 THEN n - U32 ELSE n

-----------------------------------------------------------------------------
\* The fields of the messages, in the order of encode and in that of decode.
\* Swapped on one side only, Cols and Rows would decode without an error.

encodeCreate ==
  << <<"Name", "str">>, <<"Command", "strs">>, <<"Env", "strs">>,
      <<"CWD", "str">>, <<"Scrollback", "u32">>, <<"Force", "bool">> >>

encodeAttach ==
  << <<"Name", "str">>, <<"Command", "strs">>, <<"Env", "strs">>,
      <<"CWD", "str">>, <<"Cols", "u16">>, <<"Rows", "u16">>,
      <<"Xpixel", "u16">>, <<"Ypixel", "u16">>, <<"ReadOnly", "bool">>,
      <<"Restore", "bool">>, <<"Scrollback", "u32">> >>

encodeResize ==
  << <<"Cols", "u16">>, <<"Rows", "u16">>, <<"Xpixel", "u16">>,
      <<"Ypixel", "u16">> >>

encodeSend ==
  << <<"Name", "str">>, <<"Data", "bytes">> >>

encodeSendKey ==
  << <<"Name", "str">>, <<"Key", "u32">>, <<"Mods", "u32">> >>

encodeDump ==
  << <<"Name", "str">>, <<"Format", "u8">> >>

encodeKick ==
  << <<"Name", "str">>, <<"ClientID", "str">> >>

encodeCreated ==
  << <<"Name", "str">>, <<"PID", "u32">> >>

encodeAttached ==
  << <<"Name", "str">>, <<"PID", "u32">>, <<"ClientID", "str">>,
      <<"Cols", "u16">>, <<"Rows", "u16">>, <<"ScreenDump", "bytes">>,
      <<"CursorRow", "u32">>, <<"CursorCol", "u32">>,
      <<"AltScreen", "bool">>, <<"Created", "bool">> >>

encodeClientsChanged ==
  << <<"Count", "u16">>, <<"Cols", "u16">>, <<"Rows", "u16">> >>

encodeStatusResponse ==
  << <<"PID", "u32">>, <<"Uptime", "u32">>, <<"SocketPath", "str">>,
      <<"RunningCount", "u32">>, <<"DeadCount", "u32">>,
      <<"Version", "str">>, <<"Session", "status">> >>

encodeSession ==
  << <<"Name", "str">>, <<"State", "str">>, <<"Cols", "u16">>,
      <<"Rows", "u16">>, <<"PID", "u32">>, <<"CreatedAt", "u32">>,
      <<"SavedAt", "u32">>, <<"CWD", "str">>, <<"Clients", "clients">> >>

encodeSessionStatus ==
  << <<"Name", "str">>, <<"State", "str">>, <<"Cols", "u16">>,
      <<"Rows", "u16">>, <<"PID", "u32">>, <<"CWD", "str">>,
      <<"Clients", "clients">> >>

encodeSessionClient ==
  << <<"ClientID", "str">>, <<"ReadOnly", "bool">>, <<"Version", "str">> >>

encodeOrder ==
  [Input |-> << <<"Data", "bytes">> >>, List |-> << <<"IncludeClients", "bool">> >>,
   Kill |-> << <<"Name", "str">> >>, Status |-> << <<"Name", "str">> >>,
   Error |-> << <<"Message", "str">> >>, Output |-> << <<"Data", "bytes">> >>,
   Sessions |-> << <<"Sessions", "sessions">> >>, Exited |-> << <<"ExitCode", "i32">> >>,
   DumpResponse |-> << <<"Data", "bytes">> >>, PruneResponse |-> << <<"Count", "u32">> >>,
   Detach |-> <<>>, Prune |-> <<>>, OK |-> <<>>,
   Create |-> encodeCreate, Attach |-> encodeAttach, Resize |-> encodeResize, Send |-> encodeSend,
   SendKey |-> encodeSendKey, Dump |-> encodeDump, Kick |-> encodeKick, Created |-> encodeCreated,
   Attached |-> encodeAttached, ClientsChanged |-> encodeClientsChanged,
   StatusResponse |-> encodeStatusResponse, Session |-> encodeSession,
   SessionStatus |-> encodeSessionStatus, SessionClient |-> encodeSessionClient]

decodeCreate ==
  << <<"Name", "str">>, <<"Command", "strs">>, <<"Env", "strs">>,
      <<"CWD", "str">>, <<"Scrollback", "u32">>, <<"Force", "bool">> >>

decodeAttach ==
  << <<"Name", "str">>, <<"Command", "strs">>, <<"Env", "strs">>,
      <<"CWD", "str">>, <<"Cols", "u16">>, <<"Rows", "u16">>,
      <<"Xpixel", "u16">>, <<"Ypixel", "u16">>, <<"ReadOnly", "bool">>,
      <<"Restore", "bool">>, <<"Scrollback", "u32">> >>

decodeResize ==
  << <<"Cols", "u16">>, <<"Rows", "u16">>, <<"Xpixel", "u16">>,
      <<"Ypixel", "u16">> >>

decodeSend ==
  << <<"Name", "str">>, <<"Data", "bytes">> >>

decodeSendKey ==
  << <<"Name", "str">>, <<"Key", "u32">>, <<"Mods", "u32">> >>

decodeDump ==
  << <<"Name", "str">>, <<"Format", "u8">> >>

decodeKick ==
  << <<"Name", "str">>, <<"ClientID", "str">> >>

decodeCreated ==
  << <<"Name", "str">>, <<"PID", "u32">> >>

\* Mutant: Cols and Rows swapped.
decodeAttachedSwapped ==
  << <<"Name", "str">>, <<"PID", "u32">>, <<"ClientID", "str">>,
      <<"Rows", "u16">>, <<"Cols", "u16">>, <<"ScreenDump", "bytes">>,
      <<"CursorRow", "u32">>, <<"CursorCol", "u32">>,
      <<"AltScreen", "bool">>, <<"Created", "bool">> >>

decodeAttached ==
  << <<"Name", "str">>, <<"PID", "u32">>, <<"ClientID", "str">>,
      <<"Cols", "u16">>, <<"Rows", "u16">>, <<"ScreenDump", "bytes">>,
      <<"CursorRow", "u32">>, <<"CursorCol", "u32">>,
      <<"AltScreen", "bool">>, <<"Created", "bool">> >>

decodeClientsChanged ==
  << <<"Count", "u16">>, <<"Cols", "u16">>, <<"Rows", "u16">> >>

decodeStatusResponse ==
  << <<"PID", "u32">>, <<"Uptime", "u32">>, <<"SocketPath", "str">>,
      <<"RunningCount", "u32">>, <<"DeadCount", "u32">>,
      <<"Version", "str">>, <<"Session", "status">> >>

decodeSession ==
  << <<"Name", "str">>, <<"State", "str">>, <<"Cols", "u16">>,
      <<"Rows", "u16">>, <<"PID", "u32">>, <<"CreatedAt", "u32">>,
      <<"SavedAt", "u32">>, <<"CWD", "str">>, <<"Clients", "clients">> >>

decodeSessionStatus ==
  << <<"Name", "str">>, <<"State", "str">>, <<"Cols", "u16">>,
      <<"Rows", "u16">>, <<"PID", "u32">>, <<"CWD", "str">>,
      <<"Clients", "clients">> >>

decodeSessionClient ==
  << <<"ClientID", "str">>, <<"ReadOnly", "bool">>, <<"Version", "str">> >>

decodeOrder ==
  [Input |-> << <<"Data", "bytes">> >>, List |-> << <<"IncludeClients", "bool">> >>,
   Kill |-> << <<"Name", "str">> >>, Status |-> << <<"Name", "str">> >>,
   Error |-> << <<"Message", "str">> >>, Output |-> << <<"Data", "bytes">> >>,
   Sessions |-> << <<"Sessions", "sessions">> >>, Exited |-> << <<"ExitCode", "i32">> >>,
   DumpResponse |-> << <<"Data", "bytes">> >>, PruneResponse |-> << <<"Count", "u32">> >>,
   Detach |-> <<>>, Prune |-> <<>>, OK |-> <<>>,
   Create |-> decodeCreate, Attach |-> decodeAttach, Resize |-> decodeResize, Send |-> decodeSend,
   SendKey |-> decodeSendKey, Dump |-> decodeDump, Kick |-> decodeKick, Created |-> decodeCreated,
   Attached |-> decodeAttached, ClientsChanged |-> decodeClientsChanged,
   StatusResponse |-> decodeStatusResponse, Session |-> decodeSession,
   SessionStatus |-> decodeSessionStatus, SessionClient |-> decodeSessionClient]

\* The type bytes.
MessageType ==
  [Attach |-> 1, Input |-> 2, Resize |-> 3, Detach |-> 4, List |-> 5, Kill |-> 6,
   Send |-> 7, Dump |-> 8, Prune |-> 9, SendKey |-> 10, Create |-> 11, Status |-> 12,
   Kick |-> 13, OK |-> 128, Error |-> 129, Output |-> 130, Attached |-> 131,
   Sessions |-> 132, Exited |-> 133, DumpResponse |-> 134, PruneResponse |-> 135,
   ClientsChanged |-> 136, StatusResponse |-> 137, Created |-> 138]

\* Mutant: a type added to messages.go and not to the switch.
newMessageNoKick == {"Attach", "Input", "Resize", "Detach", "List", "Kill", "Send",
  "Dump", "Prune", "SendKey", "Create", "Status", "OK", "Error", "Output", "Attached",
  "Sessions", "Exited", "DumpResponse", "PruneResponse", "ClientsChanged",
  "StatusResponse", "Created"}

\* The types newMessage knows, in the order of its switch.
newMessage ==
  {"Attach", "Input", "Resize", "Detach", "List", "Kill", "Send", "Dump", "Prune",
   "SendKey", "Create", "Status", "Kick", "OK", "Error", "Output", "Attached",
   "Sessions", "Exited", "DumpResponse", "PruneResponse", "ClientsChanged",
   "StatusResponse", "Created"}

-----------------------------------------------------------------------------
\* The Go types of the fields.  A list is a sequence, and the session of a
\* StatusResponse, a pointer, a list of at most one.

FlatKinds == {"u8", "u16", "u32", "i32", "bool", "str", "bytes", "strs"}

Text == Seq(0 .. Base - 1)

isFlat(kind, v) ==
  CASE kind = "u8"    -> v \in 0 .. Base - 1
    [] kind = "u16"   -> v \in 0 .. U16 - 1
    [] kind = "u32"   -> v \in 0 .. U32 - 1
    [] kind = "i32"   -> v \in (U32 \div 2) - U32 .. (U32 \div 2) - 1
    [] kind = "bool"  -> v \in BOOLEAN
    [] kind = "str"   -> v \in Text
    [] kind = "bytes" -> v \in Text
    [] kind = "strs"  -> v \in Seq(Text)

isList(v) == Len(v) \in Nat /\ v = [i \in 1 .. Len(v) |-> v[i]]

names(fields) == {fields[i][1] : i \in DOMAIN fields}

isStruct(fields, v, Is(_, _)) ==
  /\ v = [n \in names(fields) |-> v[n]]
  /\ \A i \in DOMAIN fields : Is(fields[i][2], v[fields[i][1]])

isInner(kind, v) ==
  IF kind = "clients"
  THEN isList(v) /\ \A i \in DOMAIN v : isStruct(encodeOrder.SessionClient, v[i], isFlat)
  ELSE isFlat(kind, v)

isValue(kind, v) ==
  CASE kind = "sessions" ->
         isList(v) /\ \A i \in DOMAIN v : isStruct(encodeOrder.Session, v[i], isInner)
    [] kind = "status" ->
         /\ isList(v) /\ Len(v) <= 1
         /\ \A i \in DOMAIN v : isStruct(encodeOrder.SessionStatus, v[i], isInner)
    [] OTHER -> isInner(kind, v)

isMessage(m) ==
  /\ m = [type |-> m.type, fields |-> m.fields] /\ m.type \in DOMAIN MessageType
  /\ isStruct(encodeOrder[m.type], m.fields, isValue)

-----------------------------------------------------------------------------
\* Encoder

WriteString(v) == be(Len(v), 2) \o v

\* The count, and the encoded elements one after the other.
writeList(encoded) == be(Len(encoded), 4) \o FlattenSeq(encoded)

writeFlat(kind, v) ==
  CASE kind = "u8"    -> be(v, 1)
    [] kind = "u16"   -> be(v, 2)
    [] kind = "u32"   -> be(v, 4)
    [] kind = "i32"   -> be(v, 4)
    [] kind = "bool"  -> be(IF v THEN 1 ELSE 0, 1)
    [] kind = "str"   -> WriteString(v)
    [] kind = "bytes" -> be(Len(v), 4) \o v
    [] kind = "strs"  -> writeList([i \in DOMAIN v |-> WriteString(v[i])])

\* A struct: its fields, each written by Write.
writeStruct(fields, v, Write(_, _)) ==
  FlattenSeq([i \in DOMAIN fields |-> Write(fields[i][2], v[fields[i][1]])])

writeInner(kind, v) ==
  IF kind = "clients"
  THEN writeList([i \in DOMAIN v |-> writeStruct(encodeOrder.SessionClient, v[i], writeFlat)])
  ELSE writeFlat(kind, v)

write(kind, v) ==
  CASE kind = "sessions" ->
         writeList([i \in DOMAIN v |-> writeStruct(encodeOrder.Session, v[i], writeInner)])
    [] kind = "status" ->
         IF v = <<>> THEN be(0, 1)
         ELSE be(1, 1) \o writeStruct(encodeOrder.SessionStatus, v[1], writeInner)
    [] OTHER -> writeInner(kind, v)

\* No string of the value is refused by WriteString.
fitsFlat(kind, v) ==
  /\ kind = "str" => Len(v) <= StrMax
  /\ kind = "strs" => \A i \in DOMAIN v : Len(v[i]) <= StrMax

fitsStruct(fields, v, Fits(_, _)) ==
  \A i \in DOMAIN fields : Fits(fields[i][2], v[fields[i][1]])

fitsInner(kind, v) ==
  IF kind = "clients"
  THEN \A i \in DOMAIN v : fitsStruct(encodeOrder.SessionClient, v[i], fitsFlat)
  ELSE fitsFlat(kind, v)

fits(kind, v) ==
  CASE kind = "sessions" -> \A i \in DOMAIN v : fitsStruct(encodeOrder.Session, v[i], fitsInner)
    [] kind = "status" -> \A i \in DOMAIN v : fitsStruct(encodeOrder.SessionStatus, v[i], fitsInner)
    [] OTHER -> fitsInner(kind, v)

\* WriteMessage: is the message encoded, and the buffer that it fills, the type
\* byte and the payload.
fitsAll(m) == fitsStruct(encodeOrder[m.type], m.fields, fits)

encode(m) == <<MessageType[m.type]>> \o writeStruct(encodeOrder[m.type], m.fields, write)

-----------------------------------------------------------------------------
\* Decoder.  A reader of the frame f is a function: for each position, what it
\* reads from there on and where it stops, or that it fails.

Got(pos, value) == [ok |-> TRUE, pos |-> pos, value |-> value]
Fail == [ok |-> FALSE, pos |-> 0, value |-> <<>>]

ReadUint(f, w) ==
  [p \in 0 .. Len(f) |-> IF p + w <= Len(f) THEN Got(p + w, num(SubSeq(f, p + 1, p + w)))
                         ELSE Fail]

\* A count of w bytes and as many bytes; ReadBytes bounds the count.
ReadCounted(f, w) ==
  [p \in 0 .. Len(f) |->
     LET n == ReadUint(f, w)[p]
         q == n.pos + n.value
     IN IF n.ok /\ (w = 4 => n.value <= FrameMax) /\ q <= Len(f)
        THEN Got(q, SubSeq(f, n.pos + 1, q)) ELSE Fail]

ReadI32(f) ==
  [p \in 0 .. Len(f) |->
     LET n == ReadUint(f, 4)[p] IN IF n.ok THEN Got(n.pos, int32(n.value)) ELSE Fail]

ReadBool(f) ==
  [p \in 0 .. Len(f) |->
     LET n == ReadUint(f, 1)[p] IN IF n.ok THEN Got(n.pos, n.value # 0) ELSE Fail]

\* One reader after the other, from p on; the first failure ends it.
readNext(d, reader) ==
  LET r == reader[d.pos]
  IN IF d.ok /\ r.ok THEN Got(r.pos, Append(d.value, r.value)) ELSE Fail

readEach(rs, p) ==
  LET got[i \in 0 .. Len(rs)] == IF i = 0 THEN Got(p, <<>>) ELSE readNext(got[i - 1], rs[i])
  IN got[Len(rs)]

\* A count, and as many elements.
readList(f, one) ==
  [p \in 0 .. Len(f) |->
     LET n == ReadUint(f, 4)[p]
     IN IF n.ok /\ n.value <= FrameMax THEN readEach([i \in 1 .. n.value |-> one], n.pos)
        ELSE Fail]

\* Each field is assigned what was read for it.
assigned(fields, values) ==
  [n \in names(fields) |-> values[CHOOSE i \in DOMAIN fields : fields[i][1] = n]]

readStruct(f, fields, readers) ==
  [p \in 0 .. Len(f) |->
     LET d == readEach([i \in DOMAIN fields |-> readers[fields[i][2]]], p)
     IN IF d.ok THEN Got(d.pos, assigned(fields, d.value)) ELSE Fail]

\* The readers of a frame, for each kind of field.
readFlat(f) ==
  [kind \in FlatKinds |->
     CASE kind = "u8"    -> ReadUint(f, 1)
       [] kind = "u16"   -> ReadUint(f, 2)
       [] kind = "u32"   -> ReadUint(f, 4)
       [] kind = "i32"   -> ReadI32(f)
       [] kind = "bool"  -> ReadBool(f)
       [] kind = "str"   -> ReadCounted(f, 2)
       [] kind = "bytes" -> ReadCounted(f, 4)
       [] kind = "strs"  -> readList(f, ReadCounted(f, 2))]

readInner(f) ==
  [kind \in FlatKinds \cup {"clients"} |->
     IF kind = "clients" THEN readList(f, readStruct(f, decodeOrder.SessionClient, readFlat(f)))
     ELSE readFlat(f)[kind]]

\* A flag, and a SessionStatus if it is set.
readStatus(f) ==
  [p \in 0 .. Len(f) |->
     LET flag == ReadUint(f, 1)[p]
         body == readStruct(f, decodeOrder.SessionStatus, readInner(f))[flag.pos]
     IN IF ~flag.ok THEN Fail
        ELSE IF flag.value = 0 THEN Got(flag.pos, <<>>)
        ELSE IF body.ok THEN Got(body.pos, <<body.value>>) ELSE Fail]

read(f) ==
  [kind \in FlatKinds \cup {"clients", "sessions", "status"} |->
     CASE kind = "sessions" -> readList(f, readStruct(f, decodeOrder.Session, readInner(f)))
       [] kind = "status"   -> readStatus(f)
       [] OTHER             -> readInner(f)[kind]]

\* The frame's message, or that it cannot be decoded; bytes left over are ignored.
decode(f) ==
  LET types == {t \in newMessage : MessageType[t] = f[1]}
      type  == CHOOSE t \in types : TRUE
      d     == readStruct(f, decodeOrder[type], read(f))[1]
  IN IF types = {} \/ ~d.ok THEN [ok |-> FALSE]
     ELSE [ok |-> TRUE, msg |-> [type |-> type, fields |-> d.value]]
=============================================================================
