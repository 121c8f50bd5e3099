--------------------------- MODULE ValueFunctions ---------------------------
(***************************************************************************)
(* The functions of value items, as in  list.append(x).get(0).size() :     *)
(* getProcessedItem applies them one after another to a copy of the value  *)
(* of the identifier, and each of them replaces the value or fails.        *)
(*                                                                         *)
(* A datum is a pair of its type and its content.  A text is a sequence of *)
(* characters; an array is a sequence of data and a map a function from    *)
(* texts to data.                                                          *)
(***************************************************************************)
EXTENDS Integers, FiniteSets, SequencesExt

CONSTANTS
    Text(_),            \* DataItem::toString
    ValueSize,          \* DataValue::size
    Split(_, _),        \* splitStringByDelimiter(text, character)
    Parse,              \* JsonItem::parse: the datum of each text that is JSON
    LineBreak,          \* the character '\n'
    EscapedLineBreak,   \* the text "\\n" of a script
    IndexRange,         \* 2^32 in the code: loops count in uint32_t
    Start,              \* values of identifiers
    Argument,           \* data of arguments
    Datum,              \* these, what is parsed, and what is within them
    MaxFunctions        \* bound on the functions of one value item

VARIABLES
    item,       \* ValueItem::item
    failed,     \* getProcessedItem has returned false
    applied,    \* functions applied so far
    last        \* the last of them, its arguments and what it was applied to

vars == <<item, failed, applied, last>>

NoItem == <<"null">>

TypeOf(d) == d[1]
IsMap(d) == TypeOf(d) = "map"
IsArray(d) == TypeOf(d) = "arr"
IsValue(d) == TypeOf(d) \in {"int", "str", "bool"}
Bool(b) == <<"bool", b>>

\* A datum that is made of the data in S.
MadeOf(d, S) ==
    \/ IsValue(d)
    \/ IsArray(d) /\ d[2] \in Seq(S)
    \/ /\ IsMap(d)
       /\ d[2] = [k \in DOMAIN d[2] |-> d[2][k]]
       /\ \A k \in DOMAIN d[2] : d[2][k] \in S

ASSUME DatumAssumption ==
    /\ Start \cup Argument \cup {Parse[t] : t \in DOMAIN Parse} \subseteq Datum
    /\ \A d \in Datum : MadeOf(d, Datum)

ASSUME BoundAssumption == IndexRange \in Nat \ {0} /\ MaxFunctions \in Nat

\* A value that goes on to the next function is never nullptr, and it is a
\* datum of a known type.
TypeOK ==
    /\ failed \in BOOLEAN
    /\ ~failed => IsMap(item) \/ IsArray(item) \/ IsValue(item)
    /\ applied \in 0 .. MaxFunctions

-----------------------------------------------------------------------------
\* Each function returns NoItem (nullptr) where it fails.  Keys that are not
\* values fail: toValue of them is nullptr.

GetValue(d, key) ==
    CASE IsValue(key) /\ IsMap(d) /\ Text(key) \in DOMAIN d[2] ->
            d[2][Text(key)]
      [] TypeOf(key) = "int" /\ IsArray(d) /\ key[2] \in 0 .. Len(d[2]) - 1 ->
            d[2][key[2] + 1]
      [] OTHER -> NoItem

\* Only the first character of the delimiter counts.
SplitValue(d, delimiter) ==
    IF IsValue(d) /\ IsValue(delimiter) /\ Text(delimiter) # <<>>
    THEN LET char == IF Text(delimiter) = EscapedLineBreak THEN LineBreak
                     ELSE Head(Text(delimiter))
             pieces == Split(Text(d), char)
         IN <<"arr", [i \in DOMAIN pieces |-> <<"str", pieces[i]>>]>>
    ELSE NoItem

SizeValue(d) ==
    <<"int", CASE IsArray(d) -> Len(d[2])
               [] IsMap(d) -> Cardinality(DOMAIN d[2])
               [] OTHER -> ValueSize>>

Within(text, part) ==
    \E i \in 0 .. Len(text) - Len(part) :
        SubSeq(text, i + 1, i + Len(part)) = part

\* Mutant of ContainsValue: the search stops one element early.
ContainsValueShort(d, key) ==
    IF ~IsValue(key) THEN NoItem
    ELSE Bool(CASE IsMap(d) -> Text(key) \in DOMAIN d[2]
                [] IsArray(d) -> \E i \in 1 .. Len(d[2]) - 1 :
                                    Text(d[2][i]) = Text(key)
                [] OTHER -> Within(Text(d), Text(key)))

\* Elements of arrays are compared as texts.
ContainsValue(d, key) ==
    IF ~IsValue(key) THEN NoItem
    ELSE Bool(CASE IsMap(d) -> Text(key) \in DOMAIN d[2]
                [] IsArray(d) -> \E x \in ToSet(d[2]) : Text(x) = Text(key)
                [] OTHER -> Within(Text(d), Text(key)))

AppendValue(d, value) ==
    IF IsArray(d) THEN <<"arr", Append(d[2], value)>> ELSE NoItem

\* Mutant of InsertValue: the new pair does not replace an old one.
InsertValueUnforced(d, key, value) ==
    IF IsMap(d) /\ IsValue(key)
    THEN <<"map", [k \in DOMAIN d[2] \cup {Text(key)} |->
                      IF k \in DOMAIN d[2] THEN d[2][k] ELSE value]>>
    ELSE NoItem

InsertValue(d, key, value) ==
    IF IsMap(d) /\ IsValue(key)
    THEN <<"map", [k \in DOMAIN d[2] \cup {Text(key)} |->
                      IF k = Text(key) THEN value ELSE d[2][k]]>>
    ELSE NoItem

Index(n) == n % IndexRange

\* Mutant of RemoveIfEmpty: the index is not set back after a removal.
RemoveIfEmptySkipping(s) ==
    IF Text(s.array[s.i + 1]) = <<>>
    THEN [array |-> RemoveAt(s.array, s.i + 1), i |-> Index(s.i + 1)]
    ELSE [s EXCEPT !.i = Index(s.i + 1)]

\* One round of the loop in clearEmpty: after a removal the index is set one
\* back, below zero even, before the loop increases it.
RemoveIfEmpty(s) ==
    IF Text(s.array[s.i + 1]) = <<>>
    THEN [array |-> RemoveAt(s.array, s.i + 1),
          i |-> Index(Index(s.i - 1) + 1)]
    ELSE [s EXCEPT !.i = Index(s.i + 1)]

NextRound(s) == IF s.i < Len(s.array) THEN RemoveIfEmpty(s) ELSE s

\* The array and the index after each round of the loop.
Rounds(array) ==
    LET round[n \in 0 .. Len(array)] ==
            IF n = 0 THEN [array |-> array, i |-> 0] ELSE NextRound(round[n - 1])
    IN round

\* Each round removes an element or moves on, so there is one for each.
ClearEmpty(d) ==
    IF IsArray(d) THEN <<"arr", Rounds(d[2])[Len(d[2])].array>> ELSE NoItem

ParseJson(d) ==
    IF IsValue(d) /\ Text(d) \in DOMAIN Parse THEN Parse[Text(d)] ELSE NoItem

-----------------------------------------------------------------------------
Init ==
    /\ item \in Start
    /\ failed = FALSE
    /\ applied = 0
    /\ last = [type |-> "none", args |-> <<>>, before |-> NoItem]

\* Mutant of Process: the result is not checked before the next function.
ProcessUnchecked(type, args, tempItem) ==
    /\ ~failed /\ applied < MaxFunctions
    /\ item' = tempItem
    /\ failed' = FALSE
    /\ applied' = applied + 1
    /\ last' = [type |-> type, args |-> args, before |-> item]

\* The result of a function, if any, is the value for the next one.
Process(type, args, tempItem) ==
    /\ ~failed /\ applied < MaxFunctions
    /\ item' = tempItem
    /\ failed' = (tempItem = NoItem)
    /\ applied' = applied + 1
    /\ last' = [type |-> type, args |-> args, before |-> item]

ProcessGet ==
    \E key \in Argument : Process("get", <<key>>, GetValue(item, key))
ProcessSplit ==
    \E key \in Argument : Process("split", <<key>>, SplitValue(item, key))
ProcessContains ==
    \E key \in Argument : Process("contains", <<key>>, ContainsValue(item, key))
ProcessSize == Process("size", <<>>, SizeValue(item))
ProcessInsert ==
    \E key, value \in Argument :
        Process("insert", <<key, value>>, InsertValue(item, key, value))
ProcessAppend ==
    \E value \in Argument :
        Process("append", <<value>>, AppendValue(item, value))
ProcessClearEmpty == Process("clear_empty", <<>>, ClearEmpty(item))
ProcessParseJson == Process("parse_json", <<>>, ParseJson(item))

\* No other name of a function does anything: the value is lost.
UnknownFunction == Process("unknown", <<>>, NoItem)

\* A wrong number of arguments, or one that cannot be filled, ends the chain
\* and leaves the value as it is.
RejectArguments ==
    /\ ~failed /\ applied < MaxFunctions
    /\ failed' = TRUE
    /\ UNCHANGED <<item, applied, last>>

Next ==
    \/ ProcessGet \/ ProcessSplit \/ ProcessContains \/ ProcessSize
    \/ ProcessInsert \/ ProcessAppend \/ ProcessClearEmpty \/ ProcessParseJson
    \/ UnknownFunction \/ RejectArguments

Spec == Init /\ [][Next]_vars

-----------------------------------------------------------------------------
\* Whatever a chain has made of a value: contains and get agree about it.  A
\* map contains the keys one can get, an array the texts of the elements one
\* can get.
ContainsAgreesWithGet ==
    \A key \in {a \in Argument : IsValue(a)} :
        /\ IsMap(item) =>
            (ContainsValue(item, key) = Bool(TRUE)
                <=> GetValue(item, key) # NoItem)
        /\ IsArray(item) =>
            (ContainsValue(item, key) = Bool(TRUE)
                <=> \E pos \in 0 .. Len(item[2]) :
                        /\ GetValue(item, <<"int", pos>>) # NoItem
                        /\ Text(GetValue(item, <<"int", pos>>)) = Text(key))

\* What append and insert have added can be got back, under a key also when
\* something else was there before, and nothing else has changed.
AdditionsAreFound ==
    last.type \in {"append", "insert"} /\ ~failed =>
        LET before == last.before[2]
            new == Last(last.args)
        IN IF last.type = "append"
           THEN /\ GetValue(item, <<"int", Len(before)>>) = new
                /\ Front(item[2]) = before
           ELSE LET key == Text(Head(last.args))
                IN /\ GetValue(item, Head(last.args)) = new
                   /\ DOMAIN item[2] = DOMAIN before \cup {key}
                   /\ \A k \in DOMAIN before \ {key} : item[2][k] = before[k]

\* The places among the first n that keep their elements.
Kept(array, n) == {i \in 1 .. n : Text(array[i]) # <<>>}

\* clear_empty removes exactly the elements with an empty text, also next to
\* each other and at both ends, and keeps the order of the others: each moves
\* to the place that the number of those kept up to it says.  The index has to
\* fit its type.
ClearedIsFiltered ==
    last.type = "clear_empty" /\ ~failed =>
        LET before == last.before[2]
            length == Len(before)
        IN length < IndexRange =>
            /\ Len(item[2]) = Cardinality(Kept(before, length))
            /\ \A i \in Kept(before, length) :
                    item[2][Cardinality(Kept(before, i))] = before[i]
=============================================================================
