--------------------------- MODULE MCSakuraThread ---------------------------
(***************************************************************************)
(* Scripts to execute, and the blossoms they call.                         *)
(***************************************************************************)
EXTENDS ScriptMeaning, TLC

Num(n) == <<"int", n>>
Str(s) == <<"str", s>>
Arr(s) == <<"arr", s>>

\* The right-hand sides of items.
Plain(d, fieldType) ==
    [type |-> "INPUT", isIdentifier |-> FALSE, item |-> d, functions |-> <<>>,
     fieldType |-> fieldType]
Number(n) == Plain(Num(n), "int")
Literal(text) == Plain(Str(text), "str")
Unset(fieldType) == Plain(Uninitialized, fieldType)
Ident(name) == [Plain(Str(name), "undefined") EXCEPT !.isIdentifier = TRUE]
Appended(name, arg) == [Ident(name) EXCEPT !.functions = <<Ident(arg)>>]
Output(field) == [Ident(field) EXCEPT !.type = "OUTPUT"]
TypedOutput(fieldType) == [Plain(Str(""), fieldType) EXCEPT !.type = "OUTPUT"]

\* Kinds of items.
Group(name, values, blossoms) ==
    [kind |-> "group", name |-> name, values |-> values, blossoms |-> blossoms]
Blossom(type, values) == [type |-> type, values |-> values]
Single(type, values) == Group("one", <<>>, <<Blossom(type, values)>>)
Subtree(name, values) ==
    [kind |-> "subtree", name |-> name, values |-> values]
If(left, equal, right, ifContent, elseContent) ==
    [kind |-> "if", leftSide |-> left, rightSide |-> right, equal |-> equal,
     ifContent |-> ifContent, elseContent |-> elseContent]
For(var, start, end, values, parallel, content) ==
    [kind |-> "for", tempVarName |-> var, start |-> start, end |-> end,
     values |-> values, parallel |-> parallel, content |-> content]
ForEach(var, array, values, parallel, content) ==
    [kind |-> "foreach", tempVarName |-> var, array |-> array,
     values |-> values, parallel |-> parallel, content |-> content]
Parallel(parts) == [kind |-> "parallel", parts |-> parts]

\* "inc": res = v + 1, for v below 7.  "mute": succeeds without its output.
MCGrow(type, input) ==
    CASE type = "inc" ->
            IF "v" \in DOMAIN input /\ Long(input.v) < 7
            THEN [ok |-> TRUE, output |-> [res |-> Num(Long(input.v) + 1)]]
            ELSE [ok |-> FALSE, output |-> <<>>]
      [] type = "mute" -> [ok |-> TRUE, output |-> <<>>]
      [] OTHER -> [ok |-> FALSE, output |-> <<>>]

MCText(d) ==
    IF TypeOf(d) = "int"
    THEN IF d[2] < 0 THEN "below zero" ELSE <<"0", "1", "2", "3", "4", "5", "6", "7">>[d[2] + 1]
    ELSE IF TypeOf(d) = "str" THEN d[2] ELSE "array"

\* "{{x}}" and the like stand for the value of an item, other texts for
\* themselves.
MCVariable == ("{{i}}" :> "i") @@ ("{{x}}" :> "x") @@ ("{{y}}" :> "y")
MCConvert(text, map) ==
    IF text \notin DOMAIN MCVariable THEN [ok |-> TRUE, text |-> text]
    ELSE IF MCVariable[text] \notin DOMAIN map THEN [ok |-> FALSE, text |-> ""]
    ELSE [ok |-> TRUE, text |-> MCText(map[MCVariable[text]])]

MCRank == [arg |-> 1, arr |-> 2, e |-> 3, i |-> 4, res |-> 5, sum |-> 6,
           v |-> 7, x |-> 8, y |-> 9, z |-> 10]

Inc(from, to) == Single("inc", [k \in {"v", to} |->
                    IF k = "v" THEN Ident(from) ELSE Output("res")])

MCCode == <<
    \* main: a loop, parallel branches with a subtree and a resource, an if
    For("i", Number(0), Ident("x"), [e |-> Number(0)], FALSE, <<2, 3>>),  \* 1
    Inc("y", "y"),                                                        \* 2
    Inc("i", "e"),                                                        \* 3
    Parallel(<<5, 6, 8>>),                                                \* 4
    Subtree(<<"lib", "sub">>, [arg |-> Ident("y"), z |-> Output("res")]), \* 5
    For("i", Ident("x"), Number(4), <<>>, FALSE, <<7>>),                  \* 6
    Inc("i", "y"),                                                        \* 7
    If(Ident("y"), TRUE, Number(2), <<9>>, <<10, 11>>),                   \* 8
    Group("{{y}}", [arg |-> Ident("x"), z |-> Output("res")],
          <<Blossom("half", <<>>)>>),                                     \* 9
    Inc("x", "x"),                                                        \* 10
    Inc("x", "z"),                                                        \* 11
    Subtree(<<"last">>, [arg |-> Ident("z"), z |-> Output("res")]),       \* 12
    \* lib/sub, which calls lib/leaf twice
    Subtree(<<"leaf">>, [arg |-> Ident("arg"), res |-> Output("res")]),   \* 13
    Subtree(<<"leaf">>, [arg |-> Ident("res"), res |-> Output("res")]),   \* 14
    Inc("arg", "res"),                                                    \* 15
    \* half, a resource, and last
    Inc("arg", "res"),                                                    \* 16
    Inc("arg", "res"),                                                    \* 17
    \* collect: a parallel loop over an array, within it a second one
    ForEach("e", Ident("arr"), [sum |-> Appended("sum", "y")], TRUE,
            <<19, 20>>),                                                  \* 18
    Inc("e", "y"),                                                        \* 19
    If(Ident("e"), TRUE, Literal("{{x}}"), <<21>>, <<>>),                     \* 20
    For("i", Number(0), Ident("x"), [y |-> Ident("i")], TRUE, <<22>>),    \* 21
    Inc("i", "z"),                                                        \* 22
    \* twice: two branches that write different items
    Parallel(<<24, 25>>),                                                 \* 23
    Inc("x", "y"),                                                        \* 24
    Inc("x", "z"),                                                        \* 25
    \* mixed: a group of a resource and a blossom
    Group("both", [arg |-> Ident("x"), z |-> Output("res")],
          <<Blossom("half", <<>>), Blossom("mute", <<>>)>>),              \* 26
    \* named: a group whose name needs an item that is not there
    Group("{{i}}", <<>>, <<Blossom("mute", <<>>)>>),                      \* 27
    \* again: two parallel branches, executed twice by one plan
    For("i", Number(0), Number(2), <<>>, FALSE, <<29>>),                  \* 28
    Parallel(<<30, 31>>),                                                 \* 29
    Inc("x", "y"),                                                        \* 30
    Inc("i", "z"),                                                        \* 31
    \* back: below zero, and a parallel loop whose end is before its start
    For("i", Number(0 - 2), Number(0 - 1), <<>>, FALSE, <<33>>),          \* 32
    Inc("i", "y"),                                                        \* 33
    For("i", Ident("y"), Number(1), <<>>, TRUE, <<35>>),                  \* 34
    Inc("i", "z")                                                         \* 35
>>

MCItem == DOMAIN MCCode

MCHome == [i \in MCItem |->
    CASE i \in 1 .. 12 -> <<"main">>
      [] i \in 13 .. 14 -> <<"lib", "sub">>
      [] i = 15 -> <<"lib", "leaf">>
      [] i = 16 -> <<"res", "half">>
      [] i = 17 -> <<"last">>
      [] i \in 18 .. 22 -> <<"collect">>
      [] i \in 23 .. 25 -> <<"twice">>
      [] i = 26 -> <<"mixed">>
      [] i = 27 -> <<"named">>
      [] i \in 28 .. 31 -> <<"again">>
      [] i \in 32 .. 35 -> <<"back">>]

Argument1 == [arg |-> Unset("int"), res |-> Number(0)]

MCTree ==
    (<<"main">> :> [values |-> [x |-> Unset("int"), y |-> Number(0),
                                z |-> TypedOutput("int")],
                    childs |-> <<1, 4, 12>>])
    @@ (<<"lib", "sub">> :> [values |-> Argument1, childs |-> <<13, 14>>])
    @@ (<<"lib", "leaf">> :> [values |-> Argument1, childs |-> <<15>>])
    @@ (<<"res", "half">> :> [values |-> Argument1, childs |-> <<16>>])
    @@ (<<"last">> :> [values |-> Argument1, childs |-> <<17>>])
    @@ (<<"collect">> :> [values |-> [arr |-> Unset("arr"),
                                      sum |-> [TypedOutput("arr") EXCEPT
                                                !.item = Arr(<<>>)],
                                      x |-> Number(2), y |-> Number(0),
                                      z |-> Number(0)],
                          childs |-> <<18>>])
    @@ [path \in {<<"twice">>, <<"mixed">>, <<"named">>, <<"again">>,
                  <<"back">>} |->
            [values |-> [x |-> Number(1), y |-> Number(0), z |-> Number(0)],
             childs |-> CASE path = <<"twice">> -> <<23>>
                          [] path = <<"mixed">> -> <<26>>
                          [] path = <<"named">> -> <<27>>
                          [] path = <<"again">> -> <<28>>
                          [] path = <<"back">> -> <<32, 34>>]]

MCResource == ("half" :> <<"res", "half">>)

Call(path, values) == [id |-> path, initialValues |-> values]

MCCalls ==
    {Call(<<"main">>, [x |-> Num(n)]) : n \in 0 .. 3}
    \cup {Call(<<"main">>, <<>>), Call(<<"main">>, [x |-> Str("a")]),
          Call(<<"main">>, [x |-> Num(1), i |-> Num(1)]),
          Call(<<"gone">>, <<>>), Call(<<"mixed">>, <<>>),
          Call(<<"named">>, <<>>), Call(<<"again">>, <<>>),
          Call(<<"back">>, <<>>),
          Call(<<"collect">>, [arr |-> Arr(<<Num(1), Num(2)>>)]),
          Call(<<"collect">>, [arr |-> Arr(<<Num(2), Num(7)>>)]),
          Call(<<"collect">>, [arr |-> Arr(<<>>)])}

-----------------------------------------------------------------------------
\* A script on which a property that a comment of the code states fails.
MCCallsTwice == {Call(<<"twice">>, <<>>)}

-----------------------------------------------------------------------------
\* The reference definitions, closed: TLC evaluates each by its equation (with
\* LET, because its coverage statistics expand bodies that apply operators).
MCMeaning(seq, env, path) ==
    LET meaning == MeaningOf(seq, env, path) IN meaning
MCGroupMeaning(blossoms, values, env) ==
    LET meaning == GroupMeaningOf(blossoms, values, env) IN meaning
MCLoopMeaning(c, left, env, path) ==
    LET meaning == LoopMeaningOf(c, left, env, path) IN meaning
=============================================================================
