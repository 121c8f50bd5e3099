------------------------------ MODULE ItemMaps ------------------------------
(***************************************************************************)
(* The maps scripts work on, and the functions that fill and merge them.   *)
(*                                                                         *)
(* A DataMap is a function from names to data.  A datum is a pair of its   *)
(* type and its content: <<"int", 3>>, <<"str", "x">>, <<"arr", <<...>>>>. *)
(* A ValueItemMap is a function from names to value items, the right-hand  *)
(* sides of "- name = value" in a script.  A string that is written in a    *)
(* script is a template for the converter of another library.  Append is   *)
(* the only function of value items here, and maps within maps are left    *)
(* out.                                                                    *)
(***************************************************************************)
EXTENDS Integers, Sequences

CONSTANTS
    Rank,           \* Rank[k]: the place of name k in a std::map's order
    Convert(_, _)   \* Jinja2Converter::convert of a text: [ok, text]

ASSUME RankAssumption == \A k \in DOMAIN Rank : Rank[k] \in Nat

TypeOf(d) == d[1]

\* DataItem::toString of a datum that holds a name.
NameIn(d) == d[2]

\* DataValue::getLong: 0 unless the datum is a number.
Long(d) == IF TypeOf(d) = "int" THEN d[2] ELSE 0

\* The marker of an input that a script leaves to its caller: "- name = ?".
Uninitialized == <<"str", "?">>

-----------------------------------------------------------------------------
\* The original map with entries of the override map: those whose names it
\* has (ONLY_EXISTING), those whose names it lacks (ONLY_NON_EXISTING), or ALL.
OverrideItems(original, override, type) ==
    [k \in DOMAIN original \cup
            (IF type = "ONLY_EXISTING" THEN {} ELSE DOMAIN override) |->
        IF k \in DOMAIN override
            /\ (type = "ONLY_NON_EXISTING" => k \notin DOMAIN original)
        THEN override[k]
        ELSE original[k]]

\* The data of a value-item map, for a merge into a data map.  An identifier
\* that has not been replaced by its value counts as its own name.
Items(values) == [k \in DOMAIN values |-> values[k].item]

Insert(map, name, d) == OverrideItems(map, [k \in {name} |-> d], "ALL")

Outputs(values) == {k \in DOMAIN values : values[k].type = "OUTPUT"}

-----------------------------------------------------------------------------
\* A literal: of a string, what the converter makes of it with the map.
CanConvert(d, map) == TypeOf(d) = "str" => Convert(d[2], map).ok

Converted(d, map) ==
    IF TypeOf(d) = "str" THEN <<"str", Convert(d[2], map).text>> ELSE d

\* The argument of a function is a literal or an identifier.
CanFillArgument(a, map) ==
    IF a.isIdentifier THEN NameIn(a.item) \in DOMAIN map
    ELSE CanConvert(a.item, map)

Argument(a, map) ==
    IF a.isIdentifier THEN map[NameIn(a.item)] ELSE Converted(a.item, map)

\* The functions of a value item can be applied to datum d: append needs an
\* array, and every argument a value.
CanProcess(v, d, map) ==
    v.functions # <<>> =>
        /\ TypeOf(d) = "arr"
        /\ \A i \in DOMAIN v.functions : CanFillArgument(v.functions[i], map)

Processed(v, d, map) ==
    IF v.functions = <<>> THEN d
    ELSE <<"arr", d[2] \o [i \in DOMAIN v.functions |->
                                Argument(v.functions[i], map)]>>

\* A value item can be filled from a map, and the value item that results.
\* Outputs are left alone, and the functions of strings are not called.
CanFill(v, map) ==
    v.type = "OUTPUT" \/
        IF v.isIdentifier
        THEN NameIn(v.item) \in DOMAIN map
             /\ CanProcess(v, map[NameIn(v.item)], map)
        ELSE IF TypeOf(v.item) = "str" THEN CanConvert(v.item, map)
        ELSE CanProcess(v, v.item, map)

FillValueItem(v, map) ==
    IF v.type = "OUTPUT" THEN v
    ELSE IF v.isIdentifier
    THEN [v EXCEPT !.item = Processed(v, map[NameIn(v.item)], map),
                   !.isIdentifier = FALSE]
    ELSE IF TypeOf(v.item) = "str"
    THEN [v EXCEPT !.item = Converted(v.item, map)]
    ELSE [v EXCEPT !.item = Processed(v, v.item, map)]

CanFillInput(values, map) == \A k \in DOMAIN values : CanFill(values[k], map)

FillInputValueItemMap(values, map) ==
    [k \in DOMAIN values |-> FillValueItem(values[k], map)]

-----------------------------------------------------------------------------
Available(v, output) == NameIn(v.item) \in DOMAIN output

\* Every output of values is there, which is what the function returns.
CanFillOutput(values, output) ==
    \A k \in Outputs(values) : Available(values[k], output)

\* Outputs are replaced in the order of their names, up to the first one that
\* is missing; that one and all after it keep the name of the field as item.
FillOutputValueItemMap(values, output) ==
    [k \in DOMAIN values |->
        IF k \in Outputs(values)
            /\ \A j \in Outputs(values) :
                    Rank[j] <= Rank[k] => Available(values[j], output)
        THEN [values[k] EXCEPT !.item = output[NameIn(values[k].item)],
                               !.isIdentifier = FALSE]
        ELSE values[k]]

\* Names of a data map that the value-item map does not have.
CheckInput(original, map) == DOMAIN map \ DOMAIN original

\* Names whose values nobody has set.
CheckItems(map) == {k \in DOMAIN map : map[k] = Uninitialized}

\* Every datum of the given direction has the type that is declared for it.
CheckTreeValues(values, map, type) ==
    \A k \in DOMAIN values \cap DOMAIN map :
        values[k].type = type => values[k].fieldType = TypeOf(map[k])
=============================================================================
