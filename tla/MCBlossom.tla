----------------------------- MODULE MCBlossom -----------------------------
(***************************************************************************)
(* Constructors of up to MaxDefinitions calls for two fields, and values   *)
(* on both sides of every constraint.                                      *)
(***************************************************************************)
EXTENDS Blossom

Num(n) == <<"int", n>>
Str(s) == <<"str", s>>

MCRank == [a |-> 1, x |-> 2, y |-> 3, z |-> 4]

\* Texts of the data below: a number and a string can have the same one.
MCText(d) == IF d = Num(2) THEN "2" ELSE IF TypeOf(d) = "int" THEN "9" ELSE d[2]

MCConvert(text, map) == [ok |-> TRUE, text |-> text]

MCRegexMatch(regex, s) == s = "2"

MCDefaults == {Num(2), Num(9)}
MCMatches == {Num(2)}
MCBorders == {<<1, 3>>, <<0, 0>>}

DataMaps(data) == UNION {[names -> data] : names \in SUBSET {"x", "y"}}
MCInputs ==
    DataMaps({Num(2), Str("2")})
        \cup [{"x"} -> {Num(9), Str("long")}]
MCOutcome ==
    [ok : {TRUE}, output : DataMaps({Num(2)}) \cup [{"x"} -> {Str("2")}],
     statusCode : {Untouched}]
        \cup [ok : {TRUE}, output : {<<>>}, statusCode : {500}]
        \cup [ok : {FALSE}, output : {<<>>}, statusCode : {400, Untouched}]

\* Items of scripts: "- x = 2", "- x = "2"", and outputs "- a >> x" whose name
\* comes before that of the field or behind it.
Value(d) == [type |-> "INPUT", isIdentifier |-> FALSE, item |-> d,
             functions |-> <<>>, fieldType |-> "undefined"]
Output(field) == [Value(Str(field)) EXCEPT !.type = "OUTPUT",
                                           !.isIdentifier = TRUE]
MCItemMapsOfScripts ==
    UNION {[names -> {Value(Num(2)), Value(Str("2")), Output("y")}] :
                names \in SUBSET {"x", "y"}}
        \cup {[x |-> Value(Num(2)), z |-> Output("x")],
              [a |-> Output("x"), x |-> Value(Num(2))],
              [x |-> Value(Num(2)), z |-> Output("y")]}
=============================================================================
