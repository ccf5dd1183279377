------------------------------ MODULE JsonText ------------------------------
(***************************************************************************)
(* Parsing JSON (src/cjson/cJSON.c): texts and values as in JsonPrinter.   *)
(*                                                                         *)
(* The variables are what callers pass: a text to parse, and, from         *)
(* JsonPrinter and JsonString, a value to print and a string literal.      *)
(***************************************************************************)
EXTENDS JsonString, JsonPrinter

CONSTANTS
  NestingLimit, \* CJSON_NESTING_LIMIT
  MaxText       \* how long a text is that a caller makes up (bound)

ASSUME LimitAssumption == NestingLimit \in Nat

VARIABLE text
vars == <<text, value, literal>>

\* What a caller writes: other white space than " " and NUL is read like " ".
Written == Characters \ {"\n", "\t"}
-----------------------------------------------------------------------------
(* Parsing the text t from position i on. *)

Failed == [ok |-> FALSE, at |-> 0, value |-> Item("none", <<>>)]
Parsed(at, v) == [ok |-> TRUE, at |-> at, value |-> v]

\* Accessible, off by one.
AccessibleBefore(t, i) == i < Len(t)

\* can_access_at_index.
Accessible(t, i) == i <= Len(t)

\* SkipWhitespace, had a space itself not been skipped.
SkipControls(t, i) ==
  LET stops == {j \in i..Len(t) : t[j] \notin White \ {" "}} IN
  IF i > Len(t) THEN i ELSE IF stops = {} THEN Len(t) ELSE Min(stops)

\* buffer_skip_whitespace, which steps back from the end of the text.
SkipWhitespace(t, i) ==
  LET stops == {j \in i..Len(t) : t[j] \notin White} IN
  IF i > Len(t) THEN i ELSE IF stops = {} THEN Len(t) ELSE Min(stops)

Close == [array |-> "]", object |-> "}"]

\* parse_value and what it calls come as functions: At gives what is read at a
\* position, one level further down.

\* What the loops of parse_array and parse_object read in front of a comma or
\* bracket, from behind a bracket or comma at i: an element, or a name and one.
ParseElement(t, i, At) ==
  LET r == At[SkipWhitespace(t, i + 1)] IN
  IF r.ok THEN Parsed(r.at, <<r.value>>) ELSE Failed

ParseMember(t, i, At) ==
  LET name == SkipWhitespace(t, i + 1)
      colon == SkipWhitespace(t, name + 1)
      r == At[SkipWhitespace(t, colon + 1)] IN
  IF ~Accessible(t, i + 1) THEN Failed
  ELSE IF t[name] \notin Strings \/ ~Accessible(t, colon) THEN Failed
  ELSE IF t[colon] # ":" \/ ~r.ok THEN Failed
  ELSE Parsed(r.at, <<Item(t[name], <<>>), r.value>>)

ParseOne(t, i, type, At) ==
  IF type = "array" THEN ParseElement(t, i, At) ELSE ParseMember(t, i, At)

\* What a loop does when it has read r; Rest gives what is read from a comma on.
GoOn(t, r, type, Rest) ==
  LET j == SkipWhitespace(t, r.at) IN
  IF ~r.ok \/ ~Accessible(t, j) THEN Failed
  ELSE CASE t[j] = "," ->
              IF Rest[j].ok THEN Parsed(Rest[j].at, r.value \o Rest[j].value) ELSE Failed
         [] t[j] = Close[type] -> Parsed(j + 1, r.value)
         [] OTHER -> Failed

\* One pass of these loops.
ParsePass(t, i, type, At, Rest) == GoOn(t, ParseOne(t, i, type, At), type, Rest)

\* The loops of parse_array and parse_object.
ParseRest(t, type, At) ==
  LET rest[i \in 1..Len(t)] == ParsePass(t, i, type, At, rest) IN rest

\* The item that has what a loop has read.
Built(r, type) == IF r.ok THEN Parsed(r.at, Item(type, r.value)) ELSE Failed

\* parse_array and parse_object, with so many levels left.
ParseNested(t, i, type, left, At) ==
  LET j == SkipWhitespace(t, i + 1) IN
  IF left = 0 \/ ~Accessible(t, j) THEN Failed
  ELSE IF t[j] = Close[type] THEN Parsed(j + 1, Item(type, <<>>))
  ELSE Built(ParseRest(t, type, At)[j - 1], type)

\* parse_value.
ParseItem(t, i, left, At) ==
  IF ~Accessible(t, i) THEN Failed
  ELSE CASE t[i] \in Atoms -> Parsed(i + 1, Item(t[i], <<>>))
         [] t[i] = "[" -> ParseNested(t, i, "array", left, At)
         [] t[i] = "{" -> ParseNested(t, i, "object", left, At)
         [] OTHER -> Failed

\* parse_value and what it calls, from the top.
ParseValue(t, i) ==
  LET level[left \in 0..NestingLimit] ==
        [j \in Nat |-> ParseItem(t, j, left, level[left - 1])]
  IN level[NestingLimit][i]

\* A text that has to end behind the value r.
Ended(t, r) ==
  LET j == SkipWhitespace(t, r.at) IN
  IF ~r.ok \/ ~Accessible(t, j) THEN Failed
  ELSE IF t[j] # "NUL" THEN Failed ELSE [r EXCEPT !.at = j]

\* cJSON_ParseWithLengthOpts.
ParseWithLength(t, require_null_terminated) ==
  IF t = <<>> THEN Failed
  ELSE IF require_null_terminated THEN Ended(t, ParseValue(t, SkipWhitespace(t, 1)))
  ELSE ParseValue(t, SkipWhitespace(t, 1))

\* cJSON_Parse: up to the first NUL of a C string, and with it.
Parse(s) == ParseWithLength(Append(s, "NUL"), FALSE)
-----------------------------------------------------------------------------
(* What callers pass. *)

Init == text = <<>> /\ ValueInit /\ LiteralInit

\* A text gets longer.
Write(c) == Len(text) < MaxText /\ text' = Append(text, c) /\ UNCHANGED <<value, literal>>

\* The text of the value, with an error in it; the value is dropped.
Garble(c) ==
  /\ \E format \in BOOLEAN :
       LET t == Shown(value, format) IN
       \E i \in 1..Len(t) : text' \in {InsertAt(t, i, c), ReplaceAt(t, i, c), RemoveAt(t, i)}
  /\ value' = Item("array", <<>>) /\ UNCHANGED literal

\* One of the three at a time.
Next ==
  \/ value = Item("array", <<>>) /\ literal = <<>> /\ \E c \in Written : Write(c)
  \/ text = <<>> /\ literal = <<>> /\ ValueNext /\ UNCHANGED <<text, literal>>
  \/ text = <<>> /\ value.of # <<>> /\ \E c \in Written : Garble(c)
  \/ text = <<>> /\ value = Item("array", <<>>) /\ LiteralNext /\ UNCHANGED <<text, value>>

Spec == Init /\ [][Next]_vars
-----------------------------------------------------------------------------
(* Properties. *)

\* The value is not nested deeper than the parser goes.
Shallow(v) == \E n \in 0..MaxDepth : n <= NestingLimit /\ v \in Values[n]

\* What is printed, with or without format, is parsed to the value it was
\* printed from, if that is not nested too deeply (cJSON.h:153-164).
RoundTrip ==
  \A format \in BOOLEAN :
    LET p == Printed(PrintValue(value, format), 1, FALSE, INT_MAX)
        r == Parse(p.chars) IN
    p.ok => IF Shallow(value) THEN r.ok /\ r.value = value ELSE ~r.ok
=============================================================================
