----------------------------- MODULE JsonString -----------------------------
(***************************************************************************)
(* String literals (src/cjson/cJSON.c, parse_string and print_string_ptr), *)
(* byte by byte, since the escapes are where lengths have to agree: what   *)
(* is written has to fit into what was allocated before it was decoded.    *)
(*                                                                         *)
(* The variable is the literal that a caller passes, made of units.        *)
(***************************************************************************)
EXTENDS Integers, SequencesExt

CONSTANTS
  Units,   \* parts of string literals and what is expected of them: [text, means]
  MaxUnits \* how many a caller passes (bound)

Byte == 0..255

ASSUME LiteralAssumption ==
  \A u \in Units : u.text \in Seq(Byte) /\ u.means \in Seq(Byte)

VARIABLE literal

Quote == 34
Backslash == 92
LetterU == 117

\* The letter after the backslash -> the byte meant: b, f, n, r, t.
Short == [b \in {98, 102, 110, 114, 116} |->
            CASE b = 98 -> 8 [] b = 102 -> 12 [] b = 110 -> 10 [] b = 114 -> 13 [] b = 116 -> 9]
Itself == {Quote, Backslash, 47}
-----------------------------------------------------------------------------
Digit(b) ==
  CASE b \in 48..57 -> b - 48 [] b \in 65..70 -> b - 55 [] b \in 97..102 -> b - 87 [] OTHER -> 16

\* parse_hex4: 0 if one of the four is no digit.
ParseHex4(t, i) ==
  LET d(k) == Digit(t[i + k]) IN
  IF \E k \in 0..3 : d(k) = 16 THEN 0
  ELSE ((d(0) * 16 + d(1)) * 16 + d(2)) * 16 + d(3)

\* A byte after the first one, of its last six bits.
Continued(bits) == 128 + (bits % 64)

\* Utf8, had the code points of three bytes begun one too late.
Utf8Late(cp) ==
  IF cp < 128 THEN <<cp>>
  ELSE IF cp < 2049 THEN <<192 + cp \div 64, Continued(cp)>>
  ELSE IF cp < 65536 THEN <<224 + cp \div 4096, Continued(cp \div 64), Continued(cp)>>
  ELSE <<240 + cp \div 262144, Continued(cp \div 4096), Continued(cp \div 64), Continued(cp)>>

\* A code point in UTF-8.
Utf8(cp) ==
  IF cp < 128 THEN <<cp>>
  ELSE IF cp < 2048 THEN <<192 + cp \div 64, Continued(cp)>>
  ELSE IF cp < 65536 THEN <<224 + cp \div 4096, Continued(cp \div 64), Continued(cp)>>
  ELSE <<240 + cp \div 262144, Continued(cp \div 4096), Continued(cp \div 64), Continued(cp)>>

NoEscape == [length |-> 0, bytes |-> <<>>]

HighSurrogate(code) == code >= 55296 /\ code <= 56319
LowSurrogate(code) == code >= 56320 /\ code <= 57343

\* utf16_literal_to_utf8 on the escape at i of a literal whose end is at end:
\* how long the escape is, 0 if it is wrong, and its bytes.
Utf16Literal(t, i, end) ==
  LET first == ParseHex4(t, i + 2)
      second == ParseHex4(t, i + 8)
      Pair == 65536 + (first % 1024) * 1024 + (second % 1024) IN
  IF end - i < 6 \/ LowSurrogate(first) THEN NoEscape
  ELSE IF ~HighSurrogate(first) THEN [length |-> 6, bytes |-> Utf8(first)]
  ELSE IF end - i < 12 \/ t[i + 6] # Backslash \/ t[i + 7] # LetterU \/ ~LowSurrogate(second)
       THEN NoEscape
  ELSE [length |-> 12, bytes |-> Utf8(Pair)]

\* The escape at i.
Escape(t, i, end) ==
  LET b == t[i + 1] IN
  CASE b \in DOMAIN Short -> [length |-> 2, bytes |-> <<Short[b]>>]
    [] b \in Itself -> [length |-> 2, bytes |-> <<b>>]
    [] b = LetterU -> Utf16Literal(t, i, end)
    [] OTHER -> NoEscape
-----------------------------------------------------------------------------
\* Where the literal ends and how many escapes there are, from i on; at is 0
\* if the text ends first.
Closing(t, i) ==
  LET from[k \in i..(Len(t) + 2)] ==
        CASE k > Len(t) -> [at |-> 0, skipped |-> 0]
          [] k <= Len(t) /\ t[k] = Quote -> [at |-> k, skipped |-> 0]
          [] k <= Len(t) /\ t[k] = Backslash -> [from[k + 2] EXCEPT !.skipped = @ + 1]
          [] OTHER -> from[k + 1]
  IN from[i]

\* What is written for the text from i to end; a wrong escape ends it.
Decode(t, i, end) ==
  LET from[k \in i..(end + 1)] ==
        LET e == Escape(t, k, end) IN
        CASE k >= end -> [ok |-> TRUE, out |-> <<>>]
          [] k < end /\ t[k] # Backslash -> [from[k + 1] EXCEPT !.out = <<t[k]>> \o @]
          [] k < end /\ t[k] = Backslash /\ e.length = 0 -> [ok |-> FALSE, out |-> <<>>]
          [] OTHER -> [from[k + e.length] EXCEPT !.out = e.bytes \o @]
  IN from[i]

\* Allocated, had each \uXXXX been counted as one byte.
AllocatedShort(t, i, closing) ==
  closing.at - i - closing.skipped
    - 4 * Cardinality({k \in i..(closing.at - 1) : t[k] = Backslash /\ t[k + 1] = LetterU})

\* The bytes allocated for the output, with the one at its end.
Allocated(t, i, closing) == closing.at - i - closing.skipped + 1

\* parse_string at i: whether it succeeds, what it wrote, into how many bytes,
\* and where it leaves off.
ParseString(t, i) ==
  LET closing == Closing(t, i + 1) IN
  IF t[i] # Quote \/ closing.at = 0
  THEN [ok |-> FALSE, out |-> <<>>, room |-> 1, at |-> i]
  ELSE LET d == Decode(t, i + 1, closing.at) IN
       [ok |-> d.ok, out |-> d.out, room |-> Allocated(t, i, closing), at |-> closing.at + 1]
-----------------------------------------------------------------------------
Hex(d) == IF d < 10 THEN 48 + d ELSE 87 + d

\* What a byte is printed as.
Escaped(b) ==
  CASE b \in {Quote, Backslash} -> <<Backslash, b>>
    [] \E s \in DOMAIN Short : Short[s] = b ->
         <<Backslash, CHOOSE s \in DOMAIN Short : Short[s] = b>>
    [] b < 32 /\ \A s \in DOMAIN Short : Short[s] # b ->
         <<Backslash, LetterU, 48, 48, Hex(b \div 16), Hex(b % 16)>>
    [] OTHER -> <<b>>

\* How many bytes escaping adds, as counted before it.
EscapeCharacters(s) ==
  FoldLeft(LAMBDA n, b :
             IF b \in {Quote, Backslash} \cup {Short[x] : x \in DOMAIN Short} THEN n + 1
             ELSE IF b < 32 THEN n + 5 ELSE n,
           0, s)

\* print_string_ptr: the literal, and the length it was given room for.  The
\* closing quote goes where that length says.
PrintString(s) ==
  [text |-> <<Quote>> \o FlattenSeq([k \in 1..Len(s) |-> Escaped(s[k])]) \o <<Quote>>,
   length |-> Len(s) + EscapeCharacters(s) + 2]
-----------------------------------------------------------------------------
LiteralInit == literal = <<>>

\* The caller's literal gets another unit.
Spell(u) == Len(literal) < MaxUnits /\ literal' = Append(literal, u)

LiteralNext == \E u \in Units : Spell(u)
-----------------------------------------------------------------------------
(* What a part of a literal means by RFC 8259 (JSON) and RFC 3629 (UTF-8). *)

\* The bytes m are the encoding of the code point cp.
Encodes(m, cp) ==
  /\ \A k \in 2..Len(m) : 128 <= m[k] /\ m[k] <= 191
  /\ \/ Len(m) = 1 /\ 0 <= cp /\ cp <= 127 /\ cp = m[1]
     \/ /\ Len(m) = 2 /\ 128 <= cp /\ cp <= 2047
        /\ cp = (m[1] - 192) * 64 + (m[2] - 128)
     \/ /\ Len(m) = 3 /\ 2048 <= cp /\ cp <= 65535
        /\ cp = (m[1] - 224) * 4096 + (m[2] - 128) * 64 + (m[3] - 128)
     \/ /\ Len(m) = 4 /\ 65536 <= cp /\ cp <= 1114111
        /\ cp = (m[1] - 240) * 262144 + (m[2] - 128) * 4096 + (m[3] - 128) * 64 + (m[4] - 128)

\* How a hexadecimal digit may be written, and the number that four of them are.
DigitBytes == [d \in 0..15 |-> IF d < 10 THEN {48 + d} ELSE {55 + d, 87 + d}]
Number(t, i) ==
  LET d(k) == CHOOSE d \in 0..15 : t[i + k] \in DigitBytes[d]
  IN d(0) * 4096 + d(1) * 256 + d(2) * 16 + d(3)

\* The letters after a backslash, with the bytes they stand for.
Letters == {<<34, 34>>, <<92, 92>>, <<47, 47>>, <<98, 8>>, <<102, 12>>, <<110, 10>>,
            <<114, 13>>, <<116, 9>>}

\* There is a \uXXXX at i.
HexAt(t, i) ==
  t[i] = Backslash /\ t[i + 1] = LetterU /\ \A k \in 2..5 : \E d \in 0..15 : t[i + k] \in DigitBytes[d]

\* The bytes m are the meaning of the text t, one character or escape.
Means(t, m) ==
  \/ Len(t) = 1 /\ t[1] \notin {Quote, Backslash} /\ m = t
  \/ Len(t) = 2 /\ t[1] = Backslash /\ \E x \in Letters : t[2] = x[1] /\ m = <<x[2]>>
  \/ /\ Len(t) = 6 /\ HexAt(t, 1)
     /\ Number(t, 3) < 55296 \/ Number(t, 3) > 57343
     /\ Encodes(m, Number(t, 3))
  \/ /\ Len(t) = 12 /\ HexAt(t, 1) /\ HexAt(t, 7)
     /\ 55296 <= Number(t, 3) /\ Number(t, 3) <= 56319
     /\ 56320 <= Number(t, 9) /\ Number(t, 9) <= 57343
     /\ Encodes(m, 65536 + (Number(t, 3) - 55296) * 1024 + (Number(t, 9) - 56320))
-----------------------------------------------------------------------------
(* Properties. *)

Joined(Part(_)) == FlattenSeq([k \in 1..Len(literal) |-> Part(literal[k])])
Body == <<Quote>> \o Joined(LAMBDA u : u.text)

\* What parse_string writes fits into what it allocated, also for a wrong
\* literal and one whose escapes are cut by its end (cJSON.c:806, 829).
DecodedFits ==
  \A t \in {Body, Append(Body, Quote)} : LET r == ParseString(t, 1) IN Len(r.out) < r.room

\* A literal of plain bytes, escapes and surrogate pairs is decoded to what they
\* mean, up to its end; and a string without a NUL is printed in the length that
\* was counted before and decoded to itself (cJSON.c:669-789, 922-1041).
StringsDecoded ==
  LET t == Append(Body, Quote)
      means == Joined(LAMBDA u : u.means)
      again == PrintString(means) IN
  (\A k \in 1..Len(literal) : Means(literal[k].text, literal[k].means)) =>
    /\ LET r == ParseString(t, 1) IN r.ok /\ r.out = means /\ r.at = Len(t) + 1
    /\ 0 \notin ToSet(means) =>
         /\ Len(again.text) = again.length
         /\ LET r == ParseString(again.text, 1) IN
              r.ok /\ r.out = means /\ r.at = Len(again.text) + 1
=============================================================================
