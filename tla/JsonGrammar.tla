----------------------------- MODULE JsonGrammar -----------------------------
(***************************************************************************)
(* What JsonText's parser should accept.                                   *)
(***************************************************************************)
EXTENDS JsonText

(* What a text means, by the grammar of JSON (RFC 8259). *)

Trim(t) ==
  LET ink == {i \in 1..Len(t) : t[i] \notin White} IN
  IF ink = {} THEN <<>> ELSE SubSeq(t, Min(ink), Max(ink))

RECURSIVE Read(_), ReadList(_, _)
\* The values that the whole of t may be read as.
Read(t) ==
  LET s == Trim(t)
      Inner == SubSeq(s, 2, Len(s) - 1)
      Nested(type) ==
        IF Trim(Inner) = <<>> THEN {Item(type, <<>>)}
        ELSE {Item(type, of) : of \in ReadList(Inner, type = "object")} IN
  CASE Len(s) = 1 -> {Item(c, <<>>) : c \in {s[1]} \cap Atoms}
    [] Len(s) > 1 /\ s[1] = "[" /\ s[Len(s)] = "]" -> Nested("array")
    [] Len(s) > 1 /\ s[1] = "{" /\ s[Len(s)] = "}" -> Nested("object")
    [] OTHER -> {}

\* A list of elements, or of members with names, between commas.
ReadList(t, named) ==
  LET One(s) ==
        IF ~named THEN {<<v>> : v \in Read(s)}
        ELSE UNION {{<<k, v>> : k \in {k \in Read(SubSeq(s, 1, i - 1)) : k.type \in Strings},
                                v \in Read(SubSeq(s, i + 1, Len(s)))}
                    : i \in {j \in 1..Len(s) : s[j] = ":"}} IN
  One(t) \cup
  UNION {{x \o y : x \in One(SubSeq(t, 1, i - 1)), y \in ReadList(SubSeq(t, i + 1, Len(t)), named)}
         : i \in {j \in 1..Len(t) : t[j] = ","}}

RECURSIVE Depth(_)
Depth(v) ==
  IF v.type \notin {"array", "object"} THEN 0
  ELSE 1 + FoldLeft(LAMBDA n, x : Max({n, Depth(x)}), 0, v.of)

\* The values of which a beginning of t is the text.
Beginnings(t) ==
  {v \in UNION {Read(SubSeq(t, 1, n)) : n \in 1..Len(t)} : Depth(v) <= NestingLimit}
-----------------------------------------------------------------------------
(* Properties. *)

\* The parser accepts a text that begins with a value, nested no deeper than
\* the limit, and builds that value; and it reads no character behind the text,
\* whether or not that ends with a NUL (cJSON.c:298-302, 1058-1192, 1465-1740).
ParsesGrammar ==
  \A t \in {text, Append(text, "NUL")} :
    /\ LET r == ParseWithLength(t, FALSE) IN
         Beginnings(t) = IF r.ok THEN {r.value} ELSE {}
    /\ ParseWithLength(t, TRUE).ok <=>
         t # <<>> /\ t[Len(t)] = "NUL" /\ Read(t) \cap Beginnings(t) # {}
=============================================================================
