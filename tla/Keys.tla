-------------------------------- MODULE Keys --------------------------------
(***************************************************************************)
(* Key notations: what the client makes of one (client/keys.go), as an     *)
(* argument of `ht send --key` or as detach_keybind, and what the daemon   *)
(* makes of the key code that it is sent (daemon/terminal_state.go).  The  *)
(* two sides keep their own tables of the same keyboard; the key events    *)
(* they build are compared here, libghostty encodes them.                  *)
(*                                                                         *)
(* A character is its code point, 0 is none.  A part of a notation is a    *)
(* word or a single character.  Modifiers are the set of the bits set.     *)
(***************************************************************************)
EXTENDS Integers, SequencesExt

CONSTANTS
  Words,              \* modifier words a notation may have
  Names,              \* names a notation may end in
  Chars,              \* characters it may end in
  MaxMods             \* bound: modifiers of a notation

ASSUME KeysAssumption == Chars \subseteq 1 .. 255 /\ MaxMods \in Nat

word(w) == [name |-> w, ch |-> 0]
char(c) == [name |-> "", ch |-> c]

isLower(c) == c \in 97 .. 122
isUpper(c) == c \in 65 .. 90

-----------------------------------------------------------------------------
\* ParseKeyNotation

\* The key's own "+" is taken for a separator, and a blank is trimmed.
Split(mods, key) ==
  [i \in DOMAIN mods |-> word(mods[i])] \o
    (IF key.ch = 43 THEN <<word(""), word("")>>
     ELSE IF key.ch = 32 THEN <<word("")>>
     ELSE <<[key EXCEPT !.ch = IF isUpper(@) THEN @ + 32 ELSE @]>>)

modifier ==
  [ctrl |-> "ctrl", control |-> "ctrl", shift |-> "shift", alt |-> "alt",
   opt |-> "alt", option |-> "alt", super |-> "super", cmd |-> "super",
   command |-> "super"]

KeyCodes ==
  [enter |-> 256, return |-> 256, escape |-> 257, esc |-> 257, tab |-> 258,
   backspace |-> 259, space |-> 32, up |-> 272, down |-> 273, left |-> 274,
   right |-> 275, home |-> 288, end |-> 289, pageup |-> 290, pgup |-> 290,
   pagedown |-> 291, pgdn |-> 291, insert |-> 292, delete |-> 293, del |-> 293,
   f1 |-> 304, f2 |-> 305, f3 |-> 306, f4 |-> 307, f5 |-> 308, f6 |-> 309,
   f7 |-> 310, f8 |-> 311, f9 |-> 312, f10 |-> 313, f11 |-> 314, f12 |-> 315]

unknown == [ok |-> FALSE]

parseKeyName(part) ==
  IF part.name \in DOMAIN KeyCodes THEN [ok |-> TRUE, code |-> KeyCodes[part.name]]
  ELSE IF part.ch \in 32 .. 126 THEN [ok |-> TRUE, code |-> part.ch]
  ELSE unknown

ParseKeyNotation(parts) ==
  LET key == parseKeyName(Last(parts))
      words == {p.name : p \in ToSet(Front(parts))}
  IN IF words \subseteq DOMAIN modifier /\ key.ok
     THEN [ok |-> TRUE, code |-> key.code, mods |-> {modifier[w] : w \in words}]
     ELSE unknown

-----------------------------------------------------------------------------
\* The client's tables, for ParseDetachKey

Unshifted == <<96, 49, 50, 51, 52, 53, 54, 55, 56, 57, 48, 45, 61, 91, 93, 92, 59, 39, 44, 46, 47>>
Shifted   == <<126, 33, 64, 35, 36, 37, 94, 38, 42, 40, 41, 95, 43, 123, 125, 124, 58, 34, 60, 62, 63>>

\* strings.IndexByte in one string, and that byte of the other; 0 if there is none.
paired(from, to, c) ==
  IF \E i \in DOMAIN from : from[i] = c
  THEN to[CHOOSE i \in DOMAIN from : from[i] = c] ELSE 0

\* The character with shift held, or 0.
shiftedKeyByte(c) == IF isLower(c) THEN c - 32 ELSE paired(Unshifted, Shifted, c)

\* The key, by libghostty's number (KeyA is 20, KeyDigit0 is 6), or 0: no key is
\* KeyUnidentified.
detachPhysicalKey(c) ==
  CASE isLower(c) -> 20 + (c - 97)
    [] c \in 48 .. 57 -> 6 + (c - 48)
    [] c = 41 -> 6
    [] c = 33 -> 7
    [] c = 64 -> 8
    [] c = 35 -> 9
    [] c = 36 -> 10
    [] c = 37 -> 11
    [] c = 94 -> 12
    [] c = 38 -> 13
    [] c = 42 -> 14
    [] c = 40 -> 15
    [] c \in {96, 126} -> 1
    [] c \in {92, 124} -> 2
    [] c \in {91, 123} -> 3
    [] c \in {93, 125} -> 4
    [] c \in {44, 60} -> 5
    [] c \in {61, 43} -> 16
    [] c \in {45, 95} -> 46
    [] c \in {46, 62} -> 47
    [] c \in {39, 34} -> 48
    [] c \in {59, 58} -> 49
    [] c \in {47, 63} -> 50
    [] c = 32 -> 63
    [] OTHER -> 0

\* Mutant: with ctrl the text of shift is left out, and shift is not consumed.
encodeDetachKeyNoText(code, mods) ==
  [key |-> detachPhysicalKey(code), mods |-> mods, codepoint |-> code,
   consumed |-> {}, text |-> IF "ctrl" \in mods THEN 0 ELSE code]

encodeDetachKey(code, mods) ==
  LET upper == IF "shift" \in mods THEN shiftedKeyByte(code) ELSE 0
  IN [key |-> detachPhysicalKey(code), mods |-> mods, codepoint |-> code,
      consumed |-> IF upper # 0 THEN {"shift"} ELSE {},
      text |-> IF upper # 0 THEN upper ELSE IF "ctrl" \in mods THEN 0 ELSE code]

\* The events for a legacy terminal (shift and the others dropped) and for the
\* kitty protocol.
ParseDetachKey(ki) ==
  IF ~ki.ok \/ "ctrl" \notin ki.mods \/ ki.code \notin 32 .. 126 THEN unknown
  ELSE [ok |-> TRUE, legacy |-> encodeDetachKey(ki.code, ki.mods \cap {"ctrl"}),
        kitty |-> encodeDetachKey(ki.code, ki.mods)]

-----------------------------------------------------------------------------
\* The daemon's tables, for handleSendKey

unshifted == <<96, 49, 50, 51, 52, 53, 54, 55, 56, 57, 48, 45, 61, 91, 93, 92, 59, 39, 44, 46, 47>>
shifted   == <<126, 33, 64, 35, 36, 37, 94, 38, 42, 40, 41, 95, 43, 123, 125, 124, 58, 34, 60, 62, 63>>

shiftedASCII(c) == IF isLower(c) THEN c - 32 ELSE paired(unshifted, shifted, c)

asciiPhysicalKey(c) ==
  CASE c \in {96, 126} -> 1
    [] c \in {92, 124} -> 2
    [] c \in {91, 123} -> 3
    [] c \in {93, 125} -> 4
    [] c \in {44, 60} -> 5
    [] c \in {48, 41} -> 6
    [] c \in {49, 33} -> 7
    [] c \in {50, 64} -> 8
    [] c \in {51, 35} -> 9
    [] c \in {52, 36} -> 10
    [] c \in {53, 37} -> 11
    [] c \in {54, 94} -> 12
    [] c \in {55, 38} -> 13
    [] c \in {56, 42} -> 14
    [] c \in {57, 40} -> 15
    [] c \in {61, 43} -> 16
    [] isLower(c) -> 20 + (c - 97)
    [] isUpper(c) -> 20 + (c - 65)
    [] c \in {45, 95} -> 46
    [] c \in {46, 62} -> 47
    [] c \in {39, 34} -> 48
    [] c \in {59, 58} -> 49
    [] c \in {47, 63} -> 50
    [] c = 32 -> 63
    [] OTHER -> 0

\* Key and code point of the keys that are no character.
specialKey(code) ==
  CASE code = 256 -> <<58, 13>>
    [] code = 257 -> <<120, 27>>
    [] code = 258 -> <<64, 9>>
    [] code = 259 -> <<53, 127>>
    [] code = 272 -> <<78, 0>>
    [] code = 273 -> <<75, 0>>
    [] code = 274 -> <<76, 0>>
    [] code = 275 -> <<77, 0>>
    [] code = 288 -> <<71, 0>>
    [] code = 289 -> <<69, 0>>
    [] code = 290 -> <<74, 0>>
    [] code = 291 -> <<73, 0>>
    [] code = 292 -> <<72, 0>>
    [] code = 293 -> <<68, 0>>
    [] code \in 304 .. 315 -> <<121 + (code - 304), 0>>
    [] OTHER -> <<0, 0>>

\* A character without a key, or a code of no key, is key 0: unsupported.
terminalKeyEvent(code, mods) ==
  IF code \in 32 .. 126
  THEN LET upper == IF "shift" \in mods THEN shiftedASCII(code) ELSE 0
       IN [key |-> asciiPhysicalKey(code), codepoint |-> code,
           text |-> IF upper # 0 THEN upper ELSE IF "ctrl" \in mods THEN 0 ELSE code]
  ELSE [key |-> specialKey(code)[1], codepoint |-> specialKey(code)[2], text |-> 0]

\* byte(keyCode) keeps the low 8 bits of the code.
encodeClientKey(code, mods) ==
  LET e == terminalKeyEvent(code, mods)
  IN [key |-> e.key, mods |-> mods, codepoint |-> e.codepoint,
      consumed |-> IF "shift" \in mods /\ shiftedASCII(code % 256) # 0
                   THEN {"shift"} ELSE {},
      text |-> e.text]

-----------------------------------------------------------------------------
VARIABLES
  pc,                 \* what happens to the notation
  parts,              \* its parts
  ki,                 \* the KeyInput
  detach,             \* the DetachKey
  event               \* the key event of the daemon

vars == <<pc, parts, ki, detach, event>>

Notations ==
  {Split(m, k) : m \in UNION {[1 .. n -> Words] : n \in 0 .. MaxMods},
                 k \in {word(n) : n \in Names} \cup {char(c) : c \in Chars}}

Init ==
  /\ pc = "parse" /\ parts \in Notations
  /\ ki = unknown /\ detach = unknown /\ event = <<>>

Parse ==
  /\ pc = "parse"
  /\ ki' = ParseKeyNotation(parts)
  /\ pc' = IF ki'.ok THEN "bind" ELSE "refused"
  /\ UNCHANGED <<parts, detach, event>>

\* The notation as detach_keybind, at the start of an attach.
Bind ==
  /\ pc = "bind"
  /\ detach' = ParseDetachKey(ki)
  /\ pc' = "send"
  /\ UNCHANGED <<parts, ki, event>>

\* The notation as an argument of send.
SendKey ==
  /\ pc = "send"
  /\ event' = encodeClientKey(ki.code, ki.mods)
  /\ pc' = "sent"
  /\ UNCHANGED <<parts, ki, detach>>

Next == Parse \/ Bind \/ SendKey

Spec == Init /\ [][Next]_vars

-----------------------------------------------------------------------------
\* The client's and the daemon's tables of the keyboard agree.  Every key that
\* ParseKeyNotation accepts is one of the daemon's, and every key that
\* ParseDetachKey accepts one of the client's; for a key that both know they
\* build the same event: the sequence that the client listens for is the one that
\* a terminal in the same state sends for it, modifiers, text and consumed
\* modifiers included.
SameEvent ==
  /\ pc = "sent" => event.key # 0
  /\ detach.ok => detach.kitty.key # 0
  /\ pc = "sent" /\ detach.ok => detach.kitty = event
=============================================================================
