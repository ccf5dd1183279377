----------------------------- MODULE MCJsonText -----------------------------
(***************************************************************************)
(* The instance of JsonText for TLC.                                       *)
(***************************************************************************)
EXTENDS JsonGrammar

MCAtoms == {"null", "string"}
MCStrings == {"string"}
MCWidth ==
  [c \in MCAtoms \cup {"[", "]", "{", "}", ",", ":", " ", "\n", "\t", "NUL"} |->
     CASE c = "null" -> 4 [] c = "string" -> 3 [] OTHER -> 1]

Plain(b) == [text |-> <<b>>, means |-> <<b>>]
Short2(letter, b) == [text |-> <<92, letter>>, means |-> <<b>>]
U(hex) == <<92, 117>> \o hex
Coded(hex, bytes) == [text |-> U(hex), means |-> bytes]
Wrong(bytes) == [text |-> bytes, means |-> <<>>]

\* The boundaries of the lengths of UTF-8, and of the surrogates, with their
\* encodings by RFC 3629.
MCUnits ==
  { Plain(97), Plain(127), Plain(31), Plain(233), Short2(110, 10), Short2(34, 34),
    Short2(92, 92), Coded(<<48, 48, 48, 48>>, <<0>>),
    Coded(<<48, 48, 55, 70>>, <<127>>), Coded(<<48, 48, 56, 48>>, <<194, 128>>),
    Coded(<<48, 55, 102, 102>>, <<223, 191>>), Coded(<<48, 56, 48, 48>>, <<224, 160, 128>>),
    Coded(<<68, 55, 70, 70>>, <<237, 159, 191>>), Coded(<<69, 48, 48, 48>>, <<238, 128, 128>>),
    Coded(<<70, 70, 70, 70>>, <<239, 191, 191>>),
    Coded(<<68, 56, 48, 48>> \o U(<<68, 67, 48, 48>>), <<240, 144, 128, 128>>),
    Coded(<<68, 66, 70, 70>> \o U(<<68, 70, 70, 70>>), <<244, 143, 191, 191>>),
    Wrong(U(<<68, 56, 48, 48>>)), Wrong(U(<<68, 67, 48, 48>>)), Wrong(U(<<48, 71>>)),
    Wrong(<<92>>), Wrong(<<92, 117>>), Wrong(<<34>>), Wrong(<<92, 120>>) }

\* The meanings above are those that JsonString defines, and the wrong ones none.
ASSUME MeaningAssumption == \A u \in MCUnits : Means(u.text, u.means) <=> u.means # <<>>
=============================================================================
