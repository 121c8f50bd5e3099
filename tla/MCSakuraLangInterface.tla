----------------------- MODULE MCSakuraLangInterface -----------------------
(***************************************************************************)
(* Two callers, blossoms that compete for a name, trees and a resource     *)
(* that use it, and directories.                                           *)
(*                                                                         *)
(* No resource contains an item with its own name: such a resource, which  *)
(* is accepted when a blossom has that name, would call itself for ever.   *)
(***************************************************************************)
EXTENDS SakuraLangInterface

Num(n) == <<"int", n>>
MCRank == [x |-> 1, y |-> 2]
MCConvert(text, map) == [ok |-> TRUE, text |-> text]
MCText(d) == "text"
MCRegexMatch(regex, s) == TRUE

\* "one" requires x, "two" requires x and y.
Ints(names) == [n \in names |-> FieldDef("INPUT", "int", TRUE)]
MCFields ==
    [one |-> [input |-> Ints({"x"}), output |-> <<>>, allowUnmatched |-> FALSE],
     two |-> [input |-> Ints({"x", "y"}), output |-> <<>>,
              allowUnmatched |-> FALSE]]

Value(d) == [type |-> "INPUT", isIdentifier |-> FALSE, item |-> d,
             functions |-> <<>>, fieldType |-> "undefined"]
Use(type, names) ==
    [group |-> "g", type |-> type, values |-> [n \in names |-> Value(Num(1))]]

\* Sources: trees that use blossom b with one or both fields, a tree with
\* resource r and a blossom, the resource itself, and a resource with the name
\* of the blossom.  "junk" is not a tree.
MCParsed ==
    [short |-> [id |-> "t", blossoms |-> <<Use("b", {"x"})>>],
     long |-> [id |-> "t", blossoms |-> <<Use("b", {"x", "y"})>>],
     user |-> [id |-> "u", blossoms |-> <<Use("r", {}), Use("b", {"x"})>>],
     res |-> [id |-> "r", blossoms |-> <<Use("b", {"x"})>>],
     shadow |-> [id |-> "b", blossoms |-> <<>>],
     plain |-> [id |-> "p", blossoms |-> <<>>]]

MCDirectory ==
    [good |-> [trees |-> <<"short">>,
               files |-> <<[id |-> "f", content |-> "F1"]>>,
               resources |-> <<"res">>,
               templates |-> <<[id |-> "m", content |-> "M1"]>>],
     broken |-> [trees |-> <<"plain">>,
                 files |-> <<[id |-> "f", content |-> "F2"],
                             [id |-> "g", content |-> "unreadable"]>>,
                 resources |-> <<>>, templates |-> <<>>],
     empty |-> [trees |-> <<>>, files |-> <<>>, resources |-> <<>>,
                templates |-> <<>>]]

B == <<"g", "b">>
Register(blossom) == [op |-> "addBlossom", key |-> B, blossom |-> blossom]
Add(op, id, content) == [op |-> op, id |-> id, content |-> content]

MCCall ==
    {Register("one"), Register("two"),
     Add("addTree", "", "short"), Add("addTree", "", "long"),
     Add("addTree", "root.sakura", "user"), Add("addTree", "", "junk"),
     Add("addResource", "", "res"), Add("addResource", "", "shadow"),
     Add("addTemplate", "m", "M2"),
     [op |-> "triggerTree", id |-> "t"], [op |-> "triggerTree", id |-> ""],
     [op |-> "triggerBlossom", key |-> B, input |-> [x |-> Num(1)]],
     [op |-> "readFilesInDir", path |-> "good"],
     [op |-> "readFilesInDir", path |-> "broken"],
     [op |-> "readFilesInDir", path |-> "empty"],
     [op |-> "readFilesInDir", path |-> "nowhere"],
     [op |-> "getBlossom", key |-> B], [op |-> "getTreeComment", id |-> "t"],
     [op |-> "getTemplate", id |-> "m"], [op |-> "getFile", id |-> "f"]}

MCRegistrations == {Register("one"), Register("two")}
=============================================================================
