--------------------------- MODULE ValueItemMaps ---------------------------
(***************************************************************************)
(* The class ValueItemMap with its nested maps, the "- name = { ... }" of  *)
(* a script, and what fills, merges and converts them.                     *)
(*                                                                         *)
(* A map within maps is kept flat: an entry is found at a place <<w, n>>,  *)
(* the names w of the maps around it and its own name n.  "values" are the *)
(* entries of all m_valueMaps, "maps" the places of all m_childMaps.       *)
(***************************************************************************)
EXTENDS Integers, Sequences

\* A value item of the given content, with the defaults of struct ValueItem.
ValueItem(item, fieldType) ==
    [item |-> item, isIdentifier |-> FALSE, type |-> "INPUT",
     arguments |-> {}, fieldType |-> fieldType]

\* A name, with the identifiers among the arguments of its functions.
Identifier(name, arguments) ==
    [ValueItem(<<"str", name>>, "undefined")
        EXCEPT !.isIdentifier = TRUE, !.arguments = arguments]

EmptyMap == [values |-> <<>>, maps |-> {}]

Place(name) == << <<>>, name >>

\* The place p of a map that becomes the entry "name" of another one.
Below(name, p) == <<<<name>> \o p[1], p[2]>>

TopNames(places) == {p[2] : p \in {q \in places : q[1] = <<>>}}

Contains(map, name) == Place(name) \in DOMAIN map.values \cup map.maps

\* insert with its default, force.
InsertValue(map, name, v) ==
    [values |-> [p \in DOMAIN map.values \cup {Place(name)} |->
                    IF p = Place(name) THEN v ELSE map.values[p]],
     maps |-> map.maps]

InsertMap(map, name, child) ==
    LET new(places) == {Below(name, p) : p \in places}
        kept(places) == {p \in places : p[1] = <<>> \/ Head(p[1]) # name}
    IN  [values |->
            [p \in kept(DOMAIN map.values) \cup new(DOMAIN child.values) |->
                IF p \in kept(DOMAIN map.values) THEN map.values[p]
                ELSE child.values[<<Tail(p[1]), p[2]>>]],
         maps |-> kept(map.maps) \cup {Place(name)} \cup new(child.maps)]

-----------------------------------------------------------------------------
\* overrideItems of one value-item map into another, ONLY_NON_EXISTING: the
\* values that the original lacks are added.  The maps within the other one
\* are not looked at, nor those within the original.
FillGaps(original, override) ==
    LET added == {p \in DOMAIN override.values :
                    p[1] = <<>> /\ p \notin DOMAIN original.values}
    IN  [original EXCEPT !.values =
            [p \in DOMAIN original.values \cup added |->
                IF p \in added THEN override.values[p]
                ELSE original.values[p]]]

\* Mutant of FillInput: maps within the map are not filled.
FillInputFlat(map, data) ==
    [map EXCEPT !.values =
        [p \in DOMAIN map.values |->
            IF map.values[p].isIdentifier /\ map.values[p].type # "OUTPUT"
                /\ p[1] = <<>>
            THEN [map.values[p] EXCEPT !.item = data[map.values[p].item[2]],
                                       !.isIdentifier = FALSE]
            ELSE map.values[p]]]

\* Every identifier of the map, and of the maps within it, has a value.
CanFillInput(map, data) ==
    \A p \in DOMAIN map.values :
        map.values[p].isIdentifier /\ map.values[p].type # "OUTPUT"
            => map.values[p].item[2] \in DOMAIN data

FillInput(map, data) ==
    [map EXCEPT !.values =
        [p \in DOMAIN map.values |->
            IF map.values[p].isIdentifier /\ map.values[p].type # "OUTPUT"
            THEN [map.values[p] EXCEPT !.item = data[map.values[p].item[2]],
                                       !.isIdentifier = FALSE]
            ELSE map.values[p]]]

\* The names and directions that the validator compares with the fields.
CompareMap(map) ==
    [input  |-> {n \in TopNames(DOMAIN map.values) :
                    map.values[Place(n)].type = "INPUT"} \cup TopNames(map.maps),
     output |-> {map.values[Place(n)].item[2] :
                    n \in {k \in TopNames(DOMAIN map.values) :
                            map.values[Place(k)].type = "OUTPUT"}}]

\* Mutant of ConvertValueMap: maps within the map are left out.
ConvertFlat(map, mapWins) ==
    [p \in {q \in DOMAIN map.values : q[1] = <<>>} |-> map.values[p].item]

\* convertValueMap: the data map that a blossom gets, as data at places.  A
\* name that is both a value and a map is one entry of the data map: which of
\* the two stays is left open, since it is up to DataMap::insert.
ConvertValueMap(map, mapWins) ==
    LET twice == DOMAIN map.values \cap map.maps
        hidden == {p \in DOMAIN map.values \cup map.maps :
                    p[1] # <<>> /\ Place(Head(p[1])) \in twice}
    IN  [p \in (DOMAIN map.values \cup map.maps) \
                    (IF mapWins THEN {} ELSE hidden) |->
            IF p \in map.maps /\ (p \in DOMAIN map.values => mapWins)
            THEN <<"map">> ELSE map.values[p].item]
=============================================================================
