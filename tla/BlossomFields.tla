--------------------------- MODULE BlossomFields ---------------------------
(***************************************************************************)
(* The fields of a blossom and the checks of values against them, before   *)
(* a script is accepted and when the blossom is executed.                  *)
(*                                                                         *)
(* A validation map is a function from names of fields to definitions.     *)
(***************************************************************************)
EXTENDS ItemMaps

CONSTANTS
    Text(_),            \* DataItem::toString
    RegexMatch(_, _)    \* std::regex_match of a pattern and a string

NoItem == <<"null">>    \* nullptr instead of a datum
NoRegex == ""

FieldDef(ioType, fieldType, isRequired) ==
    [ioType |-> ioType, fieldType |-> fieldType, isRequired |-> isRequired,
     match |-> NoItem, defaultVal |-> NoItem, regex |-> NoRegex,
     lowerBorder |-> 0, upperBorder |-> 0]

\* The fields a constructor can register: inputs, and outputs that are never
\* required (registerInputField, registerOutputField).
AreFields(inDefs, outDefs) ==
    /\ \A n \in DOMAIN inDefs : inDefs[n].ioType = "INPUT"
    /\ \A n \in DOMAIN outDefs :
        outDefs[n].ioType = "OUTPUT" /\ ~outDefs[n].isRequired

-----------------------------------------------------------------------------
\* Mutant of FillDefaultValues: defaults replace what the caller has given.
FillDefaultValuesForced(defs, values) ==
    OverrideItems(values,
        [n \in {k \in DOMAIN defs : defs[k].defaultVal # NoItem} |->
            defs[n].defaultVal], "ALL")

FillDefaultValues(defs, values) ==
    OverrideItems(values,
        [n \in {k \in DOMAIN defs : defs[k].defaultVal # NoItem} |->
            defs[n].defaultVal], "ONLY_NON_EXISTING")

-----------------------------------------------------------------------------
\* Borders are for the value of a number and for the length of a string.
Size(d) == IF TypeOf(d) = "int" THEN d[2] ELSE Len(d[2])

\* Mutant of WithinBorders: the upper border is one too high.
WithinBordersLoose(def, d) ==
    (def.lowerBorder # 0 \/ def.upperBorder # 0)
            /\ TypeOf(d) \in {"int", "str"} =>
        def.lowerBorder <= Size(d) /\ Size(d) <= def.upperBorder + 1

\* The value lies within the borders, two zeros being no borders.
WithinBorders(def, d) ==
    (def.lowerBorder # 0 \/ def.upperBorder # 0)
            /\ TypeOf(d) \in {"int", "str"} =>
        def.lowerBorder <= Size(d) /\ Size(d) <= def.upperBorder

\* A datum against the definition of its field.
CheckValue(def, d) ==
    /\ TypeOf(d) = def.fieldType
    /\ def.regex # NoRegex => RegexMatch(def.regex, d[2])
    /\ WithinBorders(def, d)
    /\ def.match # NoItem => Text(def.match) = Text(d)

\* Fields that are not there are fine.
CheckBlossomValues(defs, values, ioType) ==
    \A n \in DOMAIN defs \cap DOMAIN values :
        defs[n].ioType = ioType => CheckValue(defs[n], values[n])

-----------------------------------------------------------------------------
Required(defs, ioType) ==
    {n \in DOMAIN defs : defs[n].isRequired /\ defs[n].ioType = ioType}

\* Mutant of ValidateFieldsCompleteness: unknown names are not refused.
ValidateFieldsCompletenessOpen(values, defs, ioType, allowUnmatched) ==
    Required(defs, ioType) \subseteq DOMAIN values

\* No name is unknown, and every required field is there.
ValidateFieldsCompleteness(values, defs, ioType, allowUnmatched) ==
    /\ allowUnmatched \/ DOMAIN values \subseteq DOMAIN defs
    /\ Required(defs, ioType) \subseteq DOMAIN values

-----------------------------------------------------------------------------
\* Mutant of FieldOf: outputs count by the name they are given.
FieldOfByKey(values, k) == k

\* The field an item of a script stands for: inputs carry its name on the
\* left-hand side, outputs on the right-hand side.
FieldOf(values, k) ==
    IF values[k].type = "OUTPUT" THEN NameIn(values[k].item) ELSE k

\* Fields with the direction they are used in; the first of two items for the
\* same field counts, in the order of the names on the left.
GetCompareMap(values) ==
    LET Pairs == {k \in DOMAIN values : values[k].type \in {"INPUT", "OUTPUT"}}
        For(f) == {k \in Pairs : FieldOf(values, k) = f}
        First(f) == CHOOSE k \in For(f) : \A j \in For(f) : Rank[k] <= Rank[j]
    IN  [f \in {FieldOf(values, k) : k \in Pairs} |-> values[First(f)].type]

\* Both maps in one: an output with the name of an input is dropped.
ValidationMap(inputDefs, outputDefs) ==
    OverrideItems(inputDefs, outputDefs, "ONLY_NON_EXISTING")

\* Mutant of ValidateInput: required fields may be missing.
ValidateInputLax(values, defs, allowUnmatched) ==
    LET compareMap == GetCompareMap(values)
    IN  allowUnmatched \/ DOMAIN compareMap \subseteq DOMAIN defs

\* The items of a script for a blossom against its fields, before anything
\* is executed.
ValidateInput(values, defs, allowUnmatched) ==
    LET compareMap == GetCompareMap(values)
    IN  /\ allowUnmatched \/ DOMAIN compareMap \subseteq DOMAIN defs
        /\ \A n \in DOMAIN defs : defs[n].isRequired =>
            n \in DOMAIN compareMap /\ compareMap[n] = defs[n].ioType
=============================================================================
