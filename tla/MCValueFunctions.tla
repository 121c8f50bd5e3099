-------------------------- MODULE MCValueFunctions --------------------------
(***************************************************************************)
(* Chains of up to three functions on texts, arrays and maps with empty    *)
(* and equal elements, and data of different types with the same text.     *)
(***************************************************************************)
EXTENDS ValueFunctions

Num(n) == <<"int", n>>
Str(s) == <<"str", s>>
Arr(s) == <<"arr", s>>
Map(f) == <<"map", f>>

MCText(d) ==
    CASE TypeOf(d) = "int" ->
            IF d[2] < 0 THEN <<"-", "1">>
            ELSE <<<<"0", "1", "2", "3", "4", "5", "6", "7", "8">>[d[2] + 1]>>
      [] TypeOf(d) = "str" -> d[2]
      [] TypeOf(d) = "bool" -> IF d[2] THEN <<"t">> ELSE <<"f">>
      [] TypeOf(d) = "arr" -> <<"[">>
      [] OTHER -> <<"{">>

\* Pieces between the delimiters; the rest after the last one only counts if
\* there is any.
MCSplit(text, char) ==
    LET cut == FoldLeft(LAMBDA s, c :
                    IF c = char THEN [done |-> Append(s.done, s.rest),
                                      rest |-> <<>>]
                    ELSE [s EXCEPT !.rest = Append(@, c)],
                    [done |-> <<>>, rest |-> <<>>], text)
    IN IF cut.rest = <<>> THEN cut.done ELSE Append(cut.done, cut.rest)

MCParse == <<"1">> :> Num(1)
MCLineBreak == "\n"
MCEscapedLineBreak == <<"\\", "n">>

MCStart == {
    Str(<<"1", ",", ",", "a">>), Str(<<"a", MCLineBreak, "1">>), Num(1),
    Arr(<<>>), Arr(<<Str(<<>>), Str(<<>>), Num(1), Str(<<>>), Str(<<"1">>)>>),
    Map(<<>>), Map(<<"1">> :> Arr(<<Str(<<>>)>>))}
MCArgument == {
    Num(-1), Num(0), Num(1), Str(<<>>), Str(<<"1">>), Str(<<",", " ">>),
    Str(MCEscapedLineBreak), Arr(<<>>)}

MCDatum == MCStart \cup MCArgument \cup {Num(1), Str(<<>>), Arr(<<Str(<<>>)>>)}
=============================================================================
