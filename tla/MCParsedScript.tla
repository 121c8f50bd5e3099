--------------------------- MODULE MCParsedScript ---------------------------
(* Texts of few lines with two names, a number and a JSON map.             *)
EXTENDS ParsedScript

CONSTANTS x, y

MCLiteral == {[data |-> <<"int", 1>>, json |-> FALSE],
              [data |-> <<"map", 2>>, json |-> TRUE]}
MCArguments == {{}}
MCData == [n \in {x} |-> <<"int", 3>>]
=============================================================================
