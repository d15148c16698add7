----------------------------- MODULE KeysProofs -----------------------------
(***************************************************************************)
(* The client's and the daemon's tables of the keyboard agree, for every   *)
(* notation: any number of modifiers, any words, names and characters.     *)
(***************************************************************************)
EXTENDS Keys, TLAPS

\* What ParseKeyNotation can make of a key: a character that is no upper case
\* letter, or one of the codes above 255.
Special == (256 .. 259) \cup (272 .. 275) \cup (288 .. 293) \cup (304 .. 315)
Codes == (32 .. 64) \cup (91 .. 126) \cup Special

-----------------------------------------------------------------------------
\* The tables

\* A character is on the same key, and there is one.
LEMMA SameKey ==
  ASSUME NEW c \in (32 .. 64) \cup (91 .. 126)
  PROVE  detachPhysicalKey(c) = asciiPhysicalKey(c) /\ asciiPhysicalKey(c) # 0
<1>1. CASE isLower(c)
  BY <1>1 DEF detachPhysicalKey, asciiPhysicalKey, isLower, isUpper
<1>2. CASE c \in 48 .. 57
  BY <1>2 DEF detachPhysicalKey, asciiPhysicalKey, isLower, isUpper
<1>3. CASE ~isLower(c) /\ c \notin 48 .. 57
  BY <1>3 DEF detachPhysicalKey, asciiPhysicalKey, isLower, isUpper
<1>4. QED
  BY <1>1, <1>2, <1>3

\* With shift held it is the same character.
LEMMA SameShift ==
  ASSUME NEW c
  PROVE  shiftedKeyByte(c) = shiftedASCII(c)
<1>1. Unshifted = unshifted /\ Shifted = shifted
  BY DEF Unshifted, unshifted, Shifted, shifted
<1>2. QED
  BY <1>1, Zenon DEF shiftedKeyByte, shiftedASCII

\* The daemon has a key for every code above 255 that the client may send.
LEMMA SpecialKnown ==
  ASSUME NEW c \in Special
  PROVE  specialKey(c)[1] # 0
BY DEF Special, specialKey

LEMMA NamedCodes == \A n \in DOMAIN KeyCodes : KeyCodes[n] \in {32} \cup Special
BY DEF KeyCodes, Special

-----------------------------------------------------------------------------
\* The events

\* What ParseDetachKey builds for the kitty protocol is what encodeClientKey does.
LEMMA SameEncoding ==
  ASSUME NEW c \in Codes, NEW mods, c \in 32 .. 126
  PROVE  encodeDetachKey(c, mods) = encodeClientKey(c, mods)
<1>1. c \in (32 .. 64) \cup (91 .. 126) /\ c % 256 = c
  BY DEF Codes, Special
<1> DEFINE upper == IF "shift" \in mods THEN shiftedASCII(c) ELSE 0
           e == terminalKeyEvent(c, mods)
<1>2. /\ e.key = asciiPhysicalKey(c) /\ e.codepoint = c
      /\ e.text = IF upper # 0 THEN upper ELSE IF "ctrl" \in mods THEN 0 ELSE c
  BY DEF terminalKeyEvent
<1>3. (IF "shift" \in mods THEN shiftedKeyByte(c) ELSE 0) = upper
  BY SameShift
<1>4. (IF "shift" \in mods /\ shiftedASCII(c % 256) # 0 THEN {"shift"} ELSE {})
        = IF upper # 0 THEN {"shift"} ELSE {}
  BY <1>1
<1>5. detachPhysicalKey(c) = asciiPhysicalKey(c)
  BY <1>1, SameKey
<1> HIDE DEF e, upper
<1>6. encodeClientKey(c, mods) =
        [key |-> e.key, mods |-> mods, codepoint |-> e.codepoint,
         consumed |-> IF upper # 0 THEN {"shift"} ELSE {}, text |-> e.text]
  BY <1>4 DEF encodeClientKey, e
<1>7. encodeDetachKey(c, mods) =
        [key |-> detachPhysicalKey(c), mods |-> mods, codepoint |-> c,
         consumed |-> IF upper # 0 THEN {"shift"} ELSE {},
         text |-> IF upper # 0 THEN upper ELSE IF "ctrl" \in mods THEN 0 ELSE c]
  BY <1>3 DEF encodeDetachKey
<1>8. QED
  BY <1>2, <1>5, <1>6, <1>7

LEMMA EventKey ==
  ASSUME NEW c \in Codes, NEW mods
  PROVE  encodeClientKey(c, mods).key # 0
<1>1. encodeClientKey(c, mods).key = terminalKeyEvent(c, mods).key
  BY DEF encodeClientKey
<1>2. CASE c \in 32 .. 126
  <2>1. terminalKeyEvent(c, mods).key = asciiPhysicalKey(c)
    BY <1>2 DEF terminalKeyEvent
  <2>2. c \in (32 .. 64) \cup (91 .. 126)
    BY <1>2 DEF Codes, Special
  <2>3. QED
    BY <1>1, <2>1, <2>2, SameKey
<1>3. CASE c \notin 32 .. 126
  <2>1. terminalKeyEvent(c, mods).key = specialKey(c)[1]
    BY <1>3 DEF terminalKeyEvent
  <2>2. c \in Special
    BY <1>3 DEF Codes
  <2>3. QED
    BY <1>1, <2>1, <2>2, SpecialKnown
<1>4. QED
  BY <1>2, <1>3

-----------------------------------------------------------------------------
\* The notation

LEMMA LastOf ==
  ASSUME NEW S, NEW f \in Seq(S), NEW g \in Seq(S), Len(g) # 0
  PROVE  Last(f \o g) = g[Len(g)]
BY DEF Last

\* The key of a notation, a word or a character.
LEMMA KeyPart ==
  ASSUME NEW k \in {word(w) : w \in Names} \cup {char(c) : c \in Chars}
  PROVE  k = [name |-> k.name, ch |-> k.ch] /\ k.ch \in 0 .. 255
<1>1. CASE k \in {word(w) : w \in Names}
  BY <1>1 DEF word
<1>2. CASE k \in {char(c) : c \in Chars}
  <2>1. PICK c \in Chars : k = char(c)
    BY <1>2
  <2>2. c \in 1 .. 255
    BY KeysAssumption
  <2>3. k.ch = c /\ k = [name |-> k.name, ch |-> k.ch]
    BY <2>1 DEF char
  <2>4. c \in 0 .. 255
    BY <2>2
  <2>5. QED
    BY <2>3, <2>4
<1>3. QED
  BY <1>1, <1>2

\* The last part of a notation has no upper case letter.
LEMMA LastPart ==
  ASSUME NEW p \in Notations
  PROVE  Last(p).ch \notin 65 .. 90
<1>1. PICK n \in 0 .. MaxMods :
        \E m \in [1 .. n -> Words], k \in {word(w) : w \in Names} \cup {char(c) : c \in Chars} :
          p = Split(m, k)
  BY DEF Notations
<1>2. PICK m \in [1 .. n -> Words], k \in {word(w) : w \in Names} \cup {char(c) : c \in Chars} :
        p = Split(m, k)
  BY <1>1
<1>3. n \in Nat /\ DOMAIN m = 1 .. n /\ k = [name |-> k.name, ch |-> k.ch] /\ k.ch \in 0 .. 255
  <2>1. n \in Nat
    BY KeysAssumption
  <2>2. k = [name |-> k.name, ch |-> k.ch] /\ k.ch \in 0 .. 255
    BY KeyPart
  <2>3. QED
    BY <2>1, <2>2
<1> DEFINE f == [i \in DOMAIN m |-> word(m[i])]
           e == word("")
           l == [k EXCEPT !.ch = IF isUpper(@) THEN @ + 32 ELSE @]
           g == IF k.ch = 43 THEN <<e, e>> ELSE IF k.ch = 32 THEN <<e>> ELSE <<l>>
           S == {word(m[i]) : i \in 1 .. n} \cup {e, l}
<1>4. p = f \o g
  BY <1>2, Zenon DEF Split
<1>5. l.ch \notin 65 .. 90
  <2>1. l.ch = IF isUpper(k.ch) THEN k.ch + 32 ELSE k.ch
    BY <1>3
  <2>2. \A x \in 0 .. 255 : (IF isUpper(x) THEN x + 32 ELSE x) \notin 65 .. 90
    BY DEF isUpper
  <2>3. QED
    BY <1>3, <2>1, <2>2
<1>6. e.ch = 0
  BY DEF word
<1> HIDE DEF e, l
<1>7. f \in Seq(S)
  <2>1. \A i \in 1 .. n : f[i] \in S
    BY <1>3
  <2>2. f = [i \in 1 .. n |-> f[i]]
    BY <1>3
  <2> HIDE DEF f, S
  <2>3. QED
    BY <1>3, <2>1, <2>2
<1>8. g \in Seq(S) /\ Len(g) # 0 /\ g[Len(g)] \in {e, l}
  <2>1. e \in S /\ l \in S
    OBVIOUS
  <2> HIDE DEF S
  <2>2. QED
    BY <2>1
<1> HIDE DEF f, g, S
<1>9. Last(p) = g[Len(g)]
  BY <1>4, <1>7, <1>8, LastOf
<1>10. Last(p) = e \/ Last(p) = l
  BY <1>8, <1>9
<1>11. e.ch \notin 65 .. 90
  BY <1>6
<1>12. QED
  BY <1>5, <1>10, <1>11, Zenon

\* What ParseKeyNotation accepts has one of the codes.
LEMMA ParsedCode ==
  ASSUME NEW p \in Notations, ParseKeyNotation(p).ok
  PROVE  ParseKeyNotation(p).code \in Codes
<1> DEFINE l == Last(p)
           key == parseKeyName(l)
<1>1. ParseKeyNotation(p).code = key.code /\ key.ok
  BY DEF ParseKeyNotation, unknown
<1>2. l.ch \notin 65 .. 90
  BY LastPart
<1> HIDE DEF l
<1>3. CASE l.name \in DOMAIN KeyCodes
  <2>1. key.code = KeyCodes[l.name]
    BY <1>3 DEF parseKeyName
  <2>2. QED
    BY <1>1, <1>3, <2>1, NamedCodes DEF Codes
<1>4. CASE l.name \notin DOMAIN KeyCodes
  <2>1. l.ch \in 32 .. 126 /\ key.code = l.ch
    BY <1>1, <1>4 DEF parseKeyName, unknown
  <2>2. QED
    BY <1>1, <1>2, <2>1 DEF Codes
<1>5. QED
  BY <1>3, <1>4

-----------------------------------------------------------------------------
KeyInv ==
  /\ parts \in Notations /\ pc \in {"parse", "bind", "send", "sent", "refused"}
  /\ pc \in {"bind", "send", "sent"} => ki.code \in Codes
  /\ \/ detach = unknown
     \/ pc \in {"send", "sent"} /\ detach = ParseDetachKey(ki)
  /\ pc = "sent" => event = encodeClientKey(ki.code, ki.mods)

LEMMA KeyStep ==
  ASSUME KeyInv, [Next]_vars
  PROVE  KeyInv'
<1>1. CASE Parse
  BY <1>1, ParsedCode DEF Parse, KeyInv
<1>2. CASE Bind
  BY <1>2 DEF Bind, KeyInv
<1>3. CASE SendKey
  BY <1>3 DEF SendKey, KeyInv
<1>4. CASE UNCHANGED vars
  BY <1>4 DEF vars, KeyInv
<1>5. QED
  BY <1>1, <1>2, <1>3, <1>4 DEF Next

\* For every notation, whatever its modifiers: the daemon has a key for what
\* ParseKeyNotation accepts, the client for what ParseDetachKey accepts, and the
\* event of the detach key is the one that handleSendKey builds for the same key.
THEOREM SameEventHolds == Spec => []SameEvent
<1>1. Init => KeyInv
  BY DEF Init, KeyInv
<1>2. KeyInv => SameEvent
  <2>1. SUFFICES ASSUME KeyInv
                 PROVE  SameEvent
    OBVIOUS
  <2>2. pc = "sent" => event.key # 0
    BY <2>1, EventKey DEF KeyInv
  <2>3. ASSUME detach.ok
        PROVE  /\ detach.kitty = encodeClientKey(ki.code, ki.mods)
               /\ ki.code \in Codes
    <3>1. detach = ParseDetachKey(ki) /\ ki.code \in Codes
      BY <2>1, <2>3 DEF KeyInv, unknown
    <3>2. ki.code \in 32 .. 126 /\ detach.kitty = encodeDetachKey(ki.code, ki.mods)
      BY <2>3, <3>1 DEF ParseDetachKey, unknown
    <3>3. QED
      BY <3>1, <3>2, SameEncoding
  <2>4. QED
    BY <2>1, <2>2, <2>3, EventKey DEF SameEvent, KeyInv
<1>3. QED
  BY <1>1, <1>2, KeyStep, PTL DEF Spec
=============================================================================
