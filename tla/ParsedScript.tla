---------------------------- MODULE ParsedScript ----------------------------
(***************************************************************************)
(* What becomes of the items of a text at its blossoms: the tree that the  *)
(* parser hands out is validated, which merges the values of each group    *)
(* into its blossoms, and a thread that processes it merges them again,    *)
(* fills them, and turns them into the input of the blossom.               *)
(***************************************************************************)
EXTENDS SakuraParser

CONSTANTS
    Fields,     \* names of the fields of the blossoms
    Required,   \* the input fields that are required
    Data        \* the data of the tree while its blossoms are processed

VARIABLES
    values,     \* values[b]: the items of blossom b of the tree in the garden
    status,     \* "none", "refused", "accepted", "processed" or "failed"
    current,    \* the blossom that was processed last, or 0
    input       \* its input

scriptVars == <<values, status, current, input>>

\* A group without blossoms is one without items.
IsAlone(t, b) ==
    t[b].kind = "group" /\ (b = Len(t) \/ t[b + 1].kind # "blossom")

Blossoms(t) == {b \in DOMAIN t : t[b].kind = "blossom" \/ IsAlone(t, b)}

GroupOf(t, b) ==
    CHOOSE g \in 1..b :
        t[g].kind = "group" /\ \A i \in (g + 1)..b : t[i].kind = "blossom"

OfGroup(t, b) == t[GroupOf(t, b)].values

Own(t, b) == IF t[b].kind = "blossom" THEN t[b].values ELSE EmptyMap

ScriptTypeOK ==
    /\ TypeOK
    /\ status \in {"none", "refused", "accepted", "processed", "failed"}
    /\ DOMAIN values \subseteq Blossoms(handed)
    /\ current # 0 => current \in DOMAIN values

ScriptInit ==
    /\ Init
    /\ values = <<>>
    /\ status = "none"
    /\ current = 0
    /\ input = <<>>

\* Names that are compared as inputs and as outputs count as what comes first.
IsValid(map, outputsFirst) ==
    LET compared == CompareMap(map)
    IN  /\ compared.input \cup compared.output \subseteq Fields
        /\ Required \subseteq compared.input
        /\ outputsFirst => Required \cap compared.output = {}

\* addTree: the parser, the validator and the garden.  The validator leaves
\* the values of a group in its blossoms.
AddTree(outputsFirst) ==
    /\ phase = "handed" /\ status = "none"
    /\ values' = [b \in Blossoms(handed) |->
                    FillGaps(Own(handed, b), OfGroup(handed, b))]
    /\ status' = IF \A b \in Blossoms(handed) : IsValid(values'[b], outputsFirst)
                 THEN "accepted" ELSE "refused"
    /\ UNCHANGED <<vars, current, input>>

\* A thread comes to a blossom, merges the values of the group once more, and
\* fills what has come of it.
ProcessBlossom(b, mapWins) ==
    /\ status \in {"accepted", "processed"}
    /\ b > current
    /\ LET map == FillGaps(values[b], OfGroup(handed, b))
       IN  IF CanFillInput(map, Data)
           THEN /\ input' = ConvertValueMap(FillInput(map, Data), mapWins)
                /\ current' = b
                /\ status' = "processed"
           ELSE status' = "failed" /\ UNCHANGED <<current, input>>
    /\ UNCHANGED <<vars, values>>

NextText ==
    /\ Parse
    /\ values' = <<>> /\ status' = "none" /\ current' = 0 /\ input' = <<>>

ReadText ==
    /\ phase = "reading"
    /\ Next
    /\ UNCHANGED scriptVars

ScriptNext ==
    \/ NextText
    \/ ReadText
    \/ \E outputsFirst \in BOOLEAN : AddTree(outputsFirst)
    \/ \E b \in DOMAIN values, mapWins \in BOOLEAN : ProcessBlossom(b, mapWins)

ScriptSpec == ScriptInit /\ [][ScriptNext]_<<vars, scriptVars>>

-----------------------------------------------------------------------------
\* The content of a value item when the data of the tree are filled in.
Meaning(v) ==
    IF v.isIdentifier /\ v.type # "OUTPUT" THEN Data[v.item[2]] ELSE v.item

\* The names that a blossom uses for a map and its group for a flat value.
Clashes(b) ==
    TopNames(Own(handed, b).maps)
        \cap TopNames(DOMAIN OfGroup(handed, b).values)

TopName(p) == IF p[1] = <<>> THEN p[2] ELSE Head(p[1])

\* What the text says at a blossom reaches the input of the blossom, however
\* deep it is nested, with identifiers replaced by their values; so do the
\* flat values of its group whose names the blossom does not use itself.
\* (A name used for a map at the blossom and for a flat value in the group is
\* left out: see GroupItemsFillGaps.)
InputIsAsWritten ==
    current # 0 =>
        LET own == Own(handed, current)
            group == OfGroup(handed, current)
        IN  /\ \A p \in DOMAIN own.values :
                TopName(p) \notin Clashes(current) =>
                    p \in DOMAIN input /\ input[p] = Meaning(own.values[p])
            /\ \A p \in own.maps :
                TopName(p) \notin Clashes(current) =>
                    p \in DOMAIN input /\ input[p] = <<"map">>
            /\ \A p \in DOMAIN group.values :
                p[1] = <<>> /\ ~Contains(own, p[2]) =>
                    p \in DOMAIN input /\ input[p] = Meaning(group.values[p])

\* A blossom that is processed has all its required inputs, as the validator
\* has promised, and a name of its input that is not one of its fields stands
\* for an output or a comparison.
AcceptedIsFed ==
    current # 0 =>
        /\ \A n \in Required : Place(n) \in DOMAIN input
        /\ \A p \in DOMAIN input :
            p[1] = <<>> /\ p[2] \notin Fields =>
                /\ p \in DOMAIN values[current].values
                /\ values[current].values[p].type # "INPUT"

\* "copy values of the blossom-group into the blossom, but only values, which
\* are not defined which in the blossom" (processBlossomGroup): every item of
\* the group is in the input of the blossom, unless the blossom has an item
\* of that name, and then that one is.
GroupItemsFillGaps ==
    current # 0 =>
        LET own == Own(handed, current)
            group == OfGroup(handed, current)
        IN  /\ TopNames(DOMAIN group.values \cup group.maps)
                    \subseteq TopNames(DOMAIN input)
            /\ \A p \in own.maps : p[1] = <<>> => input[p] = <<"map">>
=============================================================================
