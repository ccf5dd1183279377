----------------------------- MODULE JsonPrinter -----------------------------
(***************************************************************************)
(* Printing JSON (src/cjson/cJSON.c).  A text is a sequence of characters, *)
(* where a literal or a number counts as one, and so does a string, of     *)
(* which JsonString has the inside; Width says how long each is.  A value  *)
(* is a tree of items, in place of pointers to them.                       *)
(*                                                                         *)
(* The variable is the value that a caller prints.                         *)
(***************************************************************************)
EXTENDS SequencesExt, PrintBuffer

CONSTANTS
  Atoms,   \* null, true, false, numbers and strings
  Strings, \* the strings among them
  Width,   \* the length of a character
  MaxDepth, MaxValue \* how deep and how long a value is that a caller passes (bounds)

Punctuation == {"[", "]", "{", "}", ",", ":"}
White == {" ", "\n", "\t", "NUL"} \* what is 32 or less
Characters == Atoms \cup Punctuation \cup White

ASSUME WidthAssumption ==
  /\ Strings \subseteq Atoms /\ Width \in [Characters -> Nat]
  /\ \A c \in Punctuation \cup White : Width[c] = 1

ASSUME ValueAssumption ==
  /\ MaxDepth \in Nat \ {0}
  /\ Atoms \cap ({"array", "object"} \cup Punctuation \cup White) = {}

VARIABLE value

\* type, and the elements; in an object, in turn the names and the elements.
Item(type, of) == [type |-> type, of |-> of]

Named(of) ==
  /\ Len(of) % 2 = 0
  /\ \A k \in 1..(Len(of) \div 2) : of[2 * k - 1].type \in Strings

\* The values that are at most n levels deep.
Values[n \in 0..MaxDepth] ==
  {Item(a, <<>>) : a \in Atoms} \cup
  IF n = 0 THEN {}
  ELSE {v \in [type : {"array", "object"}, of : Seq(Values[n - 1])] :
          v.type = "object" => Named(v.of)}
-----------------------------------------------------------------------------
(* The requests for room, with the text written after each and whether a NUL *)
(* follows it.                                                               *)

Piece(ask, chars, nul) == <<[ask |-> ask, chars |-> chars, nul |-> nul]>>
Tabs(n) == [k \in 1..n |-> "\t"]
If(c, chars) == IF c THEN chars ELSE <<>>

\* PrintAtom, had the byte at the end of the text been forgotten.
PrintAtomTight(a) == Piece(Width[a] - 1, <<a>>, TRUE)

\* The cases of print_value without items, print_number, and print_string_ptr.
PrintAtom(a) == Piece(Width[a] + 1, <<a>>, TRUE)

\* print_array; Inner prints an element at a depth.
PrintArray(v, format, depth, Inner) ==
  LET Comma == <<",">> \o If(format, <<" ">>)
      Element(k) ==
        Inner[v.of[k]][depth + 1]
        \o If(k < Len(v.of), Piece(Len(Comma) + 1, Comma, TRUE)) IN
  Piece(1, <<"[">>, FALSE) \o FlattenSeq([k \in 1..Len(v.of) |-> Element(k)])
  \o Piece(2, <<"]">>, TRUE)

\* print_object.
PrintObject(v, format, depth, Inner) ==
  LET Line(chars) == chars \o If(format, <<"\n">>)
      Colon == <<":">> \o If(format, <<"\t">>)
      Comma(k) == Line(If(2 * k < Len(v.of), <<",">>))
      Member(k) ==
        If(format, Piece(depth + 1, Tabs(depth + 1), FALSE))
        \o PrintAtom(v.of[2 * k - 1].type) \o Piece(Len(Colon), Colon, FALSE)
        \o Inner[v.of[2 * k]][depth + 1] \o Piece(Len(Comma(k)) + 1, Comma(k), TRUE) IN
  Piece(Len(Line(<<"{">>)) + 1, Line(<<"{">>), FALSE)
  \o FlattenSeq([k \in 1..(Len(v.of) \div 2) |-> Member(k)])
  \o Piece(IF format THEN depth + 2 ELSE 2, If(format, Tabs(depth)) \o <<"}">>, TRUE)

\* print_value.
PrintItem(v, format, depth, Inner) ==
  CASE v.type = "array" -> PrintArray(v, format, depth, Inner)
    [] v.type = "object" -> PrintObject(v, format, depth, Inner)
    [] OTHER -> PrintAtom(v.type)

\* print_value and what it calls, from the top.
PrintValue(v, format) ==
  LET level[n \in 0..MaxDepth] ==
        [x \in Values[n] |-> [depth \in Nat |-> PrintItem(x, format, depth, level[n - 1])]]
  IN level[MaxDepth][v][0]

WidthOf(chars) == FoldLeft(LAMBDA n, c : n + Width[c], 0, chars)

\* One piece printed: within says that every byte of it was within the buffer.
Put(p, piece) ==
  LET q == Ensure(p, piece.ask)
      end == q.offset + WidthOf(piece.chars) IN
  IF ~p.ok THEN p ELSE IF ~q.ok THEN q
  ELSE [q EXCEPT !.offset = end, !.chars = @ \o piece.chars,
                 !.within = @ /\ end + (IF piece.nul THEN 1 ELSE 0) <= q.length]

\* The pieces of a value printed into a buffer of some length: the caller's
\* (cJSON_PrintPreallocated), or an allocated one (cJSON_PrintBuffered, and
\* cJSON_Print with 256 bytes).
Printed(pieces, length, noalloc, memory) ==
  FoldLeft(Put, [length |-> length, offset |-> 0, noalloc |-> noalloc, ok |-> TRUE,
                 memory |-> memory, held |-> TRUE, freed |-> 0,
                 chars |-> <<>>, within |-> TRUE],
           pieces)

\* What the caller gets: a buffer that was allocated is freed when printing was
\* refused, or when cJSON_Print cannot give back what the text does not need.
Returned(p, shrinks) ==
  IF p.noalloc \/ (p.ok /\ shrinks) THEN p ELSE Refused(Deallocated(p))

\* The text that is printed when there is room for it.
TextOf(pieces) == FlattenSeq([k \in 1..Len(pieces) |-> pieces[k].chars])
Shown(v, format) == TextOf(PrintValue(v, format))
-----------------------------------------------------------------------------
(* What a caller prints. *)

ValueInit == value = Item("array", <<>>)

\* The value is put into an array or object, or gets another one beside it.
Nest(a) ==
  /\ \/ value' = Item("array", <<value>>)
     \/ a \in Strings /\ value' = Item("object", <<Item(a, <<>>), value>>)
     \/ value.type = "array" /\ value' = Item("array", Append(value.of, Item(a, <<>>)))
     \/ value.type = "object" /\ \E k \in Strings :
          value' = Item("object", <<Item(k, <<>>), Item(a, <<>>)>> \o value.of)
     \/ value.of = <<>> /\ value' \in {Item(a, <<>>), Item("object", <<>>)}
  /\ value' \in Values[MaxDepth] /\ Len(Shown(value', FALSE)) <= MaxValue

ValueNext == \E a \in Atoms : Nest(a)
-----------------------------------------------------------------------------
(* Properties. *)

\* No byte is printed outside the buffer.  A buffer of the caller's is enough
\* with one byte more than text and NUL, four less than the header asks for.
\* One that may grow is refused only when twice what is needed cannot be
\* allocated, or INT_MAX exceeded; and if no text is returned it has been freed,
\* once (cJSON.h:167-168; cJSON.c:458-541, 1208-1316).
PrintFits ==
  \A format \in BOOLEAN :
    LET pieces == PrintValue(value, format)
        needed == WidthOf(TextOf(pieces)) + 2 IN
    \A length \in 0..INT_MAX, noalloc \in BOOLEAN :
      \A memory \in IF noalloc THEN {length} ELSE length..INT_MAX :
        LET p == Printed(pieces, length, noalloc, memory) IN
        /\ p.within
        /\ p.ok => needed <= IF noalloc THEN length ELSE memory
        /\ ~p.ok => /\ needed > length
                    /\ noalloc \/ needed > INT_MAX \/ NewSize(needed) > memory
        /\ \A shrinks \in BOOLEAN :
             LET q == Returned(p, shrinks) IN q.freed = IF q.ok \/ noalloc THEN 0 ELSE 1
=============================================================================
