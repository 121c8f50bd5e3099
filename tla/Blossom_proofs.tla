--------------------------- MODULE Blossom_proofs ---------------------------
(***************************************************************************)
(* For any constructor, any call and any task: what a blossom promises the *)
(* task about its input and the caller about its result.                   *)
(***************************************************************************)
EXTENDS Blossom, BlossomFields_proofs

-----------------------------------------------------------------------------
(* The inductive invariant. *)

\* A definition is a record with these fields.
IsDef(def) ==
    DOMAIN def = {"ioType", "fieldType", "isRequired", "match", "defaultVal",
                  "regex", "lowerBorder", "upperBorder"}

DefsInv ==
    /\ \A n \in DOMAIN inputDefs : IsDef(inputDefs[n])
    /\ \A n \in DOMAIN outputDefs : IsDef(outputDefs[n])
    /\ \A n \in bordered : inputDefs[n].fieldType \in {"str", "int"}

\* Where the blossom stands in a call.
Waiting == phase \in {"constructing", "accepted", "rejected"}

PhaseInv ==
    /\ phase = "constructing" => caller = "none"
    /\ phase \in {"accepted", "rejected"} => caller = "script"
    /\ Waiting \/ phase \in {"check input", "run task"} =>
        task = "not run" /\ answer = "none"
    /\ phase \in {"check output", "check completeness"} =>
        task = "ok" /\ answer = "none"
    /\ phase = "ended" => answer \in {"ok", "failed"}
    /\ phase = "check completeness" => caller = "interface"
    /\ answer = "ok" => task = "ok"

\* What is known of the input before, at and after the check of it.
ScriptInv ==
    /\ phase = "accepted" => Required(inputDefs, "INPUT") \subseteq DOMAIN items
    /\ phase \in {"accepted", "rejected"} => DOMAIN items \subseteq DOMAIN Rank

GivenInv ==
    /\ phase = "check input" \/ phase = "run task" \/ Ran =>
        Required(inputDefs, "INPUT") \subseteq DOMAIN given
    /\ caller = "interface" /\ ~allowUnmatched /\ answer # "failed" =>
        DOMAIN given \subseteq DOMAIN inputDefs

InputInv ==
    phase = "run task" \/ Ran =>
        /\ input = FillDefaultValues(inputDefs, given)
        /\ CheckBlossomValues(inputDefs, input, "INPUT")

\* What is known of the output once it is checked.
OutputInv ==
    /\ phase = "check completeness" \/ answer = "ok" =>
        CheckBlossomValues(outputDefs, output, "OUTPUT")
    /\ answer = "ok" /\ caller = "interface" =>
        ValidateFieldsCompleteness(output, outputDefs, "OUTPUT", allowUnmatched)

\* Until the call has ended the library has set no status.
StatusInv ==
    /\ answer = "none" => status = left
    /\ StatusTellsWhy

IInv ==
    /\ TypeOK /\ DefsInv /\ PhaseInv /\ ScriptInv /\ GivenInv /\ InputInv
    /\ OutputInv /\ StatusInv /\ CompleteItemsAreAccepted

LEMMA InitIInv == Init => IInv
<1> SUFFICES ASSUME Init PROVE IInv
    OBVIOUS
<1>1. DOMAIN inputDefs = {} /\ DOMAIN outputDefs = {}
  <2>1. inputDefs = <<>> /\ outputDefs = <<>>
    BY Zenon DEF Init
  <2> QED
    BY <2>1
<1> QED
    BY <1>1 DEF Init, IInv, TypeOK, Phase, DefsInv, PhaseInv, Waiting,
                ScriptInv, GivenInv, InputInv, OutputInv, StatusInv,
                StatusTellsWhy, Task, Ran, CompleteItemsAreAccepted

-----------------------------------------------------------------------------
(* The calls of the constructor. *)

\* What TypeOK says of the fields.
DefsOK ==
    /\ DOMAIN inputDefs \subseteq Name /\ DOMAIN outputDefs \subseteq Name
    /\ \A n \in DOMAIN inputDefs :
        /\ inputDefs[n].ioType = "INPUT"
        /\ inputDefs[n].match = NoItem
        /\ inputDefs[n].isRequired => inputDefs[n].defaultVal = NoItem
        /\ inputDefs[n].regex # NoRegex => inputDefs[n].fieldType = "str"
    /\ \A n \in DOMAIN outputDefs :
        /\ outputDefs[n].ioType = "OUTPUT"
        /\ ~outputDefs[n].isRequired
        /\ outputDefs[n].defaultVal = NoItem
    /\ bordered \subseteq DOMAIN inputDefs

\* What a field is does not change: the step of DefinitionsStay.
FieldsStay ==
    /\ \A n \in DOMAIN inputDefs :
        /\ n \in DOMAIN inputDefs'
        /\ inputDefs'[n].fieldType = inputDefs[n].fieldType
        /\ inputDefs'[n].isRequired = inputDefs[n].isRequired
    /\ \A n \in DOMAIN outputDefs :
        /\ n \in DOMAIN outputDefs'
        /\ outputDefs'[n].fieldType = outputDefs[n].fieldType

\* Nothing is known of a call while the constructor runs.
LEMMA DefineKeeps ==
    ASSUME IInv, NEW inDefs, NEW outDefs, Define(inDefs, outDefs),
           DefsOK', DefsInv'
    PROVE  IInv'
<1>1. /\ phase = "constructing" /\ phase' = phase
      /\ allowUnmatched' = allowUnmatched
      /\ task' = task /\ answer' = answer /\ caller' = caller
      /\ status' = status /\ left' = left
    BY DEF Define, callVars
<1>2. /\ task = "not run" /\ answer = "none" /\ caller = "none"
      /\ status = left
    BY <1>1 DEF IInv, PhaseInv, Waiting, StatusInv
<1>3. TypeOK'
    BY <1>1 DEF IInv, TypeOK, DefsOK
<1>4. PhaseInv' /\ ScriptInv' /\ GivenInv' /\ InputInv' /\ OutputInv'
    BY <1>1, <1>2
    DEF PhaseInv, Waiting, ScriptInv, GivenInv, InputInv, OutputInv, Ran
<1>5. StatusInv' /\ CompleteItemsAreAccepted'
    BY <1>1, <1>2 DEF StatusInv, StatusTellsWhy, CompleteItemsAreAccepted
<1> QED
    BY <1>3, <1>4, <1>5 DEF IInv

\* A field is added under a name that has none.
LEMMA AddedFields ==
    ASSUME NEW defs, NEW name, name \notin DOMAIN defs, NEW def
    PROVE  /\ DOMAIN Added(defs, name, def) = DOMAIN defs \cup {name}
           /\ Added(defs, name, def)[name] = def
           /\ \A n \in DOMAIN defs : Added(defs, name, def)[n] = defs[n]
BY DEF Added

LEMMA RegisterKeeps ==
    ASSUME IInv, NEW n \in Name, NEW t \in FieldType, NEW r \in BOOLEAN,
           RegisterInputField(n, t, r) \/ RegisterOutputField(n, t)
    PROVE  IInv' /\ FieldsStay
<1>1. CASE RegisterInputField(n, t, r)
  <2> DEFINE def == FieldDef("INPUT", t, r)
  <2>1. /\ n \notin DOMAIN inputDefs /\ bordered' = bordered
        /\ Define(Added(inputDefs, n, def), outputDefs)
    BY <1>1 DEF RegisterInputField
  <2>2. inputDefs' = Added(inputDefs, n, def) /\ outputDefs' = outputDefs
    BY <2>1 DEF Define
  <2>3. /\ DOMAIN inputDefs' = DOMAIN inputDefs \cup {n}
        /\ inputDefs'[n] = def
        /\ \A k \in DOMAIN inputDefs : inputDefs'[k] = inputDefs[k]
    BY <2>1, <2>2 DEF Added
  <2>4. /\ IsDef(def) /\ def.ioType = "INPUT" /\ def.match = NoItem
        /\ def.defaultVal = NoItem /\ def.regex = NoRegex
    BY DEF IsDef, FieldDef
  <2> HIDE DEF def
  <2>5. DefsOK'
    BY <2>1, <2>2, <2>3, <2>4 DEF IInv, TypeOK, DefsOK
  <2>6. DefsInv'
    BY <2>1, <2>2, <2>3, <2>4 DEF IInv, TypeOK, DefsInv
  <2>7. FieldsStay
    BY <2>2, <2>3 DEF FieldsStay
  <2> QED
    BY <2>1, <2>5, <2>6, <2>7, DefineKeeps
<1>2. CASE RegisterOutputField(n, t)
  <2> DEFINE def == FieldDef("OUTPUT", t, FALSE)
  <2>1. /\ n \notin DOMAIN outputDefs /\ bordered' = bordered
        /\ Define(inputDefs, Added(outputDefs, n, def))
    BY <1>2 DEF RegisterOutputField
  <2>2. outputDefs' = Added(outputDefs, n, def) /\ inputDefs' = inputDefs
    BY <2>1 DEF Define
  <2>3. /\ DOMAIN outputDefs' = DOMAIN outputDefs \cup {n}
        /\ outputDefs'[n] = def
        /\ \A k \in DOMAIN outputDefs : outputDefs'[k] = outputDefs[k]
    BY <2>1, <2>2 DEF Added
  <2>4. /\ IsDef(def) /\ def.ioType = "OUTPUT"
        /\ def.defaultVal = NoItem /\ def.isRequired = FALSE
    BY DEF IsDef, FieldDef
  <2> HIDE DEF def
  <2>5. DefsOK'
    BY <2>1, <2>2, <2>3, <2>4 DEF IInv, TypeOK, DefsOK
  <2>6. DefsInv'
    BY <2>1, <2>2, <2>3, <2>4 DEF IInv, TypeOK, DefsInv
  <2>7. FieldsStay
    BY <2>2, <2>3 DEF FieldsStay
  <2> QED
    BY <2>1, <2>5, <2>6, <2>7, DefineKeeps
<1> QED
    BY <1>1, <1>2

\* A field keeps what it is when a default, a match, a regex or borders are
\* set.
LEMMA AddFieldMatchKeeps ==
    ASSUME IInv, NEW n \in Name, NEW d \in Matches, AddFieldMatch(n, d)
    PROVE  IInv' /\ FieldsStay
<1> DEFINE def == [outputDefs[n] EXCEPT !.match = d]
<1>1. /\ n \in DOMAIN outputDefs /\ bordered' = bordered
      /\ Define(inputDefs, [outputDefs EXCEPT ![n].match = d])
    BY DEF AddFieldMatch
<1>2. /\ inputDefs' = inputDefs
      /\ DOMAIN outputDefs' = DOMAIN outputDefs
      /\ outputDefs'[n] = def
      /\ \A k \in DOMAIN outputDefs \ {n} : outputDefs'[k] = outputDefs[k]
    BY <1>1 DEF Define
<1>3. IsDef(outputDefs[n])
    BY <1>1 DEF IInv, DefsInv
<1>4. /\ IsDef(def) /\ def.ioType = outputDefs[n].ioType
      /\ def.fieldType = outputDefs[n].fieldType
      /\ def.isRequired = outputDefs[n].isRequired
      /\ def.defaultVal = outputDefs[n].defaultVal
    BY <1>3 DEF IsDef
<1> HIDE DEF def
<1>5. DefsOK'
    BY <1>1, <1>2, <1>4 DEF IInv, TypeOK, DefsOK
<1>6. DefsInv'
    BY <1>1, <1>2, <1>4 DEF IInv, TypeOK, DefsInv
<1>7. FieldsStay
    BY <1>2, <1>4 DEF FieldsStay
<1> QED
    BY <1>1, <1>5, <1>6, <1>7, DefineKeeps

LEMMA AddFieldDefaultKeeps ==
    ASSUME IInv, NEW n \in Name, NEW d \in Defaults, AddFieldDefault(n, d)
    PROVE  IInv' /\ FieldsStay
<1> DEFINE def == [inputDefs[n] EXCEPT !.defaultVal = d]
<1>1. /\ n \in DOMAIN inputDefs /\ bordered' = bordered
      /\ ~inputDefs[n].isRequired
      /\ Define([inputDefs EXCEPT ![n].defaultVal = d], outputDefs)
    BY DEF AddFieldDefault
<1>2. /\ outputDefs' = outputDefs
      /\ DOMAIN inputDefs' = DOMAIN inputDefs
      /\ inputDefs'[n] = def
      /\ \A k \in DOMAIN inputDefs \ {n} : inputDefs'[k] = inputDefs[k]
    BY <1>1 DEF Define
<1>3. IsDef(inputDefs[n])
    BY <1>1 DEF IInv, DefsInv
<1>4. /\ IsDef(def) /\ def.ioType = inputDefs[n].ioType
      /\ def.fieldType = inputDefs[n].fieldType
      /\ def.isRequired = inputDefs[n].isRequired
      /\ def.match = inputDefs[n].match /\ def.regex = inputDefs[n].regex
    BY <1>3 DEF IsDef
<1> HIDE DEF def
<1>5. DefsOK'
    BY <1>1, <1>2, <1>4 DEF IInv, TypeOK, DefsOK
<1>6. DefsInv'
    BY <1>1, <1>2, <1>4 DEF IInv, TypeOK, DefsInv
<1>7. FieldsStay
    BY <1>2, <1>4 DEF FieldsStay
<1> QED
    BY <1>1, <1>5, <1>6, <1>7, DefineKeeps

LEMMA AddFieldRegexKeeps ==
    ASSUME IInv, NEW n \in Name, NEW d \in Regexes, AddFieldRegex(n, d)
    PROVE  IInv' /\ FieldsStay
<1> DEFINE def == [inputDefs[n] EXCEPT !.regex = d]
<1>1. /\ n \in DOMAIN inputDefs /\ bordered' = bordered
      /\ inputDefs[n].fieldType = "str"
      /\ Define([inputDefs EXCEPT ![n].regex = d], outputDefs)
    BY DEF AddFieldRegex
<1>2. /\ outputDefs' = outputDefs
      /\ DOMAIN inputDefs' = DOMAIN inputDefs
      /\ inputDefs'[n] = def
      /\ \A k \in DOMAIN inputDefs \ {n} : inputDefs'[k] = inputDefs[k]
    BY <1>1 DEF Define
<1>3. IsDef(inputDefs[n])
    BY <1>1 DEF IInv, DefsInv
<1>4. /\ IsDef(def) /\ def.ioType = inputDefs[n].ioType
      /\ def.fieldType = inputDefs[n].fieldType
      /\ def.isRequired = inputDefs[n].isRequired
      /\ def.match = inputDefs[n].match
      /\ def.defaultVal = inputDefs[n].defaultVal
    BY <1>3 DEF IsDef
<1> HIDE DEF def
<1>5. DefsOK'
    BY <1>1, <1>2, <1>4 DEF IInv, TypeOK, DefsOK
<1>6. DefsInv'
    BY <1>1, <1>2, <1>4 DEF IInv, TypeOK, DefsInv
<1>7. FieldsStay
    BY <1>2, <1>4 DEF FieldsStay
<1> QED
    BY <1>1, <1>5, <1>6, <1>7, DefineKeeps

LEMMA AddFieldBorderKeeps ==
    ASSUME IInv, NEW n \in Name, NEW d, NEW e, AddFieldBorder(n, d, e)
    PROVE  IInv' /\ FieldsStay
<1> DEFINE def == [[inputDefs[n] EXCEPT !.lowerBorder = d] EXCEPT !.upperBorder = e]
<1>1. /\ n \in DOMAIN inputDefs /\ bordered' = bordered \cup {n}
      /\ inputDefs[n].fieldType \in {"str", "int"}
      /\ Define([inputDefs EXCEPT ![n].lowerBorder = d, ![n].upperBorder = e],
                outputDefs)
    BY DEF AddFieldBorder
<1>2. /\ outputDefs' = outputDefs
      /\ DOMAIN inputDefs' = DOMAIN inputDefs
      /\ inputDefs'[n] = def
      /\ \A k \in DOMAIN inputDefs \ {n} : inputDefs'[k] = inputDefs[k]
    BY <1>1 DEF Define
<1>3. IsDef(inputDefs[n])
    BY <1>1 DEF IInv, DefsInv
<1>4. /\ IsDef(def) /\ def.ioType = inputDefs[n].ioType
      /\ def.fieldType = inputDefs[n].fieldType
      /\ def.isRequired = inputDefs[n].isRequired
      /\ def.match = inputDefs[n].match
      /\ def.defaultVal = inputDefs[n].defaultVal
      /\ def.regex = inputDefs[n].regex
    BY <1>3 DEF IsDef
<1> HIDE DEF def
<1>5. DefsOK'
    BY <1>1, <1>2, <1>4 DEF IInv, TypeOK, DefsOK
<1>6. DefsInv'
    BY <1>1, <1>2, <1>4 DEF IInv, TypeOK, DefsInv
<1>7. FieldsStay
    BY <1>2, <1>4 DEF FieldsStay
<1> QED
    BY <1>1, <1>5, <1>6, <1>7, DefineKeeps

LEMMA ConstructKeeps ==
    ASSUME IInv, Construct
    PROVE  IInv' /\ FieldsStay
BY RegisterKeeps, AddFieldMatchKeeps, AddFieldDefaultKeeps, AddFieldRegexKeeps,
   AddFieldBorderKeeps DEF Construct

-----------------------------------------------------------------------------
(* The calls of the blossom. *)

LEMMA DefsUnchanged ==
    ASSUME IInv, UNCHANGED defVars
    PROVE  /\ inputDefs' = inputDefs /\ outputDefs' = outputDefs
           /\ bordered' = bordered /\ allowUnmatched' = allowUnmatched
           /\ DefsOK' /\ DefsInv'
BY DEF IInv, TypeOK, DefsOK, DefsInv, defVars

LEMMA TypeOKParts ==
    ASSUME DefsOK', allowUnmatched' \in BOOLEAN, phase' \in Phase,
           caller' \in {"none", "interface", "script"}, task' \in Task,
           answer' \in {"none", "ok", "failed"}
    PROVE  TypeOK'
BY DEF TypeOK, DefsOK

LEMMA TriggerBlossomKeeps ==
    ASSUME IInv, NEW values \in Inputs, TriggerBlossom(values)
    PROVE  IInv'
<1>1. /\ inputDefs' = inputDefs /\ outputDefs' = outputDefs
      /\ allowUnmatched' = allowUnmatched /\ DefsOK' /\ DefsInv'
    BY DefsUnchanged DEF TriggerBlossom, Called
<1>2. /\ caller' = "interface" /\ given' = values /\ task' = "not run"
      /\ allowUnmatched \in BOOLEAN
    BY DEF TriggerBlossom, Called, IInv, TypeOK
<1>3. CASE ValidateFieldsCompleteness(values, inputDefs, "INPUT", allowUnmatched)
  <2>1. phase' = "check input" /\ answer' = "none" /\ status' = left'
    BY <1>3 DEF TriggerBlossom
  <2>2. TypeOK'
    BY <1>1, <1>2, <2>1, TypeOKParts DEF Phase, Task
  <2>3. GivenInv'
    BY <1>1, <1>2, <1>3, <2>1 DEF GivenInv, ValidateFieldsCompleteness
  <2>4. PhaseInv' /\ ScriptInv' /\ InputInv' /\ OutputInv'
    BY <1>2, <2>1 DEF PhaseInv, Waiting, ScriptInv, InputInv, OutputInv, Ran
  <2>5. StatusInv' /\ CompleteItemsAreAccepted'
    BY <2>1 DEF StatusInv, StatusTellsWhy, CompleteItemsAreAccepted
  <2> QED
    BY <1>1, <2>2, <2>3, <2>4, <2>5 DEF IInv
<1>4. CASE ~ValidateFieldsCompleteness(values, inputDefs, "INPUT", allowUnmatched)
  <2>1. phase' = "ended" /\ answer' = "failed" /\ status' = 400
    BY <1>4 DEF TriggerBlossom, Fail
  <2>2. TypeOK'
    BY <1>1, <1>2, <2>1, TypeOKParts DEF Phase, Task
  <2>3. PhaseInv' /\ ScriptInv' /\ GivenInv' /\ InputInv' /\ OutputInv'
    BY <1>2, <2>1
    DEF PhaseInv, Waiting, ScriptInv, GivenInv, InputInv, OutputInv, Ran
  <2>4. StatusInv' /\ CompleteItemsAreAccepted'
    BY <1>2, <2>1 DEF StatusInv, StatusTellsWhy, CompleteItemsAreAccepted
  <2> QED
    BY <1>1, <2>2, <2>3, <2>4 DEF IInv
<1> QED
    BY <1>3, <1>4

LEMMA TriggerUnknownBlossomKeeps ==
    ASSUME IInv, TriggerUnknownBlossom
    PROVE  IInv'
<1>1. /\ inputDefs' = inputDefs /\ outputDefs' = outputDefs
      /\ allowUnmatched' = allowUnmatched /\ DefsOK' /\ DefsInv'
    BY DefsUnchanged DEF TriggerUnknownBlossom, Called
<1>2. /\ caller' = "interface" /\ task' = "unknown" /\ status' = left'
      /\ phase' = "ended" /\ answer' = "failed" /\ allowUnmatched \in BOOLEAN
    BY DEF TriggerUnknownBlossom, Called, Fail, IInv, TypeOK
<1>3. TypeOK'
    BY <1>1, <1>2, TypeOKParts DEF Phase, Task
<1>4. PhaseInv' /\ ScriptInv' /\ GivenInv' /\ InputInv' /\ OutputInv'
    BY <1>2 DEF PhaseInv, Waiting, ScriptInv, GivenInv, InputInv, OutputInv, Ran
<1>5. StatusInv' /\ CompleteItemsAreAccepted'
    BY <1>2 DEF StatusInv, StatusTellsWhy, CompleteItemsAreAccepted
<1> QED
    BY <1>1, <1>3, <1>4, <1>5 DEF IInv

\* The fields of a blossom are such that the lemmas about checks apply.
LEMMA BlossomHasFields ==
    ASSUME IInv
    PROVE  AreFields(inputDefs, outputDefs)
BY DEF IInv, TypeOK, AreFields

LEMMA CheckBlossomItemKeeps ==
    ASSUME IInv, NEW values \in ItemMapsOfScripts, CheckBlossomItem(values)
    PROVE  IInv'
<1> DEFINE valid == ValidateInput(values, ValidationMap(inputDefs, outputDefs),
                                  allowUnmatched)
<1>1. /\ inputDefs' = inputDefs /\ outputDefs' = outputDefs
      /\ allowUnmatched' = allowUnmatched /\ DefsOK' /\ DefsInv'
    BY DefsUnchanged DEF CheckBlossomItem
<1>2. /\ items' = values /\ caller' = "script" /\ task' = "not run"
      /\ answer' = "none" /\ status' = left'
      /\ phase' = IF valid THEN "accepted" ELSE "rejected"
      /\ allowUnmatched \in BOOLEAN
    BY DEF CheckBlossomItem, IInv, TypeOK
<1>3. DOMAIN values \subseteq DOMAIN Rank
    BY NameAssumption
<1>4. valid => Required(inputDefs, "INPUT") \subseteq DOMAIN values
    BY <1>3, BlossomHasFields, ValidItemsAreComplete, Zenon
<1>5. ~valid => ~AreComplete(values, inputDefs, outputDefs)
    BY <1>3, BlossomHasFields, CompleteItemsAreValid, Zenon
<1> HIDE DEF valid
<1>6. TypeOK'
    BY <1>1, <1>2, TypeOKParts DEF Phase, Task
<1>7. PhaseInv' /\ ScriptInv' /\ GivenInv' /\ InputInv' /\ OutputInv'
    BY <1>1, <1>2, <1>3, <1>4
    DEF PhaseInv, Waiting, ScriptInv, GivenInv, InputInv, OutputInv, Ran
<1>8. CompleteItemsAreAccepted'
    BY <1>1, <1>2, <1>5 DEF CompleteItemsAreAccepted, AreComplete
<1> QED
    BY <1>1, <1>2, <1>6, <1>7, <1>8 DEF IInv, StatusInv, StatusTellsWhy

LEMMA ProcessBlossomKeeps ==
    ASSUME IInv, ProcessBlossom
    PROVE  IInv'
<1>1. /\ inputDefs' = inputDefs /\ outputDefs' = outputDefs
      /\ allowUnmatched' = allowUnmatched /\ DefsOK' /\ DefsInv'
    BY DefsUnchanged DEF ProcessBlossom
<1>2. /\ phase = "accepted" /\ phase' = "check input"
      /\ DOMAIN given' = DOMAIN items
      /\ caller' = caller /\ task' = task /\ answer' = answer
      /\ status' = left'
    BY DEF ProcessBlossom, Items
<1>3. /\ task = "not run" /\ answer = "none" /\ caller # "interface"
      /\ Required(inputDefs, "INPUT") \subseteq DOMAIN items
    BY <1>2 DEF IInv, PhaseInv, Waiting, ScriptInv
<1>4. TypeOK'
  <2>1. /\ allowUnmatched' \in BOOLEAN /\ caller' \in {"none", "interface", "script"}
        /\ task' \in Task /\ answer' \in {"none", "ok", "failed"}
    BY <1>1, <1>2, <1>3 DEF IInv, TypeOK, Task
  <2>2. phase' \in Phase
    BY <1>2 DEF Phase
  <2> QED
    BY <1>1, <2>1, <2>2, TypeOKParts
<1>5. PhaseInv' /\ ScriptInv' /\ GivenInv' /\ InputInv' /\ OutputInv'
    BY <1>1, <1>2, <1>3
    DEF PhaseInv, Waiting, ScriptInv, GivenInv, InputInv, OutputInv, Ran
<1>6. StatusInv' /\ CompleteItemsAreAccepted'
    BY <1>2, <1>3 DEF StatusInv, StatusTellsWhy, CompleteItemsAreAccepted
<1> QED
    BY <1>1, <1>4, <1>5, <1>6 DEF IInv

LEMMA GrowBlossomKeeps ==
    ASSUME IInv, GrowBlossom
    PROVE  IInv'
<1>1. /\ inputDefs' = inputDefs /\ outputDefs' = outputDefs
      /\ allowUnmatched' = allowUnmatched /\ DefsOK' /\ DefsInv'
    BY DefsUnchanged DEF GrowBlossom
<1>2. /\ phase = "check input" /\ given' = given /\ caller' = caller
      /\ task' = task /\ left' = left /\ input' = FillDefaultValues(inputDefs, given)
      /\ \/ /\ CheckBlossomValues(inputDefs, input', "INPUT")
            /\ phase' = "run task" /\ answer' = answer
            /\ status' = status
         \/ phase' = "ended" /\ answer' = "failed" /\ status' = 400
    BY DEF GrowBlossom, Fail
<1>3. /\ task = "not run" /\ answer = "none" /\ status = left
      /\ Required(inputDefs, "INPUT") \subseteq DOMAIN given
    BY <1>2 DEF IInv, PhaseInv, GivenInv, StatusInv
<1>4. TypeOK'
  <2>1. /\ allowUnmatched' \in BOOLEAN /\ caller' \in {"none", "interface", "script"}
        /\ task' \in Task /\ answer' \in {"none", "ok", "failed"}
    BY <1>1, <1>2, <1>3 DEF IInv, TypeOK, Task
  <2>2. phase' \in Phase
    BY <1>2 DEF Phase
  <2> QED
    BY <1>1, <2>1, <2>2, TypeOKParts
<1>5. PhaseInv' /\ ScriptInv' /\ InputInv' /\ OutputInv'
    BY <1>1, <1>2, <1>3
    DEF PhaseInv, Waiting, ScriptInv, InputInv, OutputInv, Ran
<1>6. GivenInv'
    BY <1>1, <1>2, <1>3 DEF IInv, GivenInv, Ran
<1>7. StatusInv' /\ CompleteItemsAreAccepted'
  <2>1. /\ task' = "not run"
        /\ \/ answer' = "none" /\ status' = left'
           \/ answer' = "failed" /\ status' = 400
    BY <1>2, <1>3
  <2>2. StatusInv'
    BY <2>1 DEF StatusInv, StatusTellsWhy
  <2>3. phase' # "rejected"
    BY <1>2
  <2> QED
    BY <2>2, <2>3 DEF CompleteItemsAreAccepted
<1> QED
    BY <1>1, <1>4, <1>5, <1>6, <1>7 DEF IInv

LEMMA RunTaskKeeps ==
    ASSUME IInv, RunTask
    PROVE  IInv'
<1>1. /\ inputDefs' = inputDefs /\ outputDefs' = outputDefs
      /\ allowUnmatched' = allowUnmatched /\ DefsOK' /\ DefsInv'
    BY DefsUnchanged DEF RunTask
<1>2. /\ phase = "run task" /\ given' = given /\ caller' = caller
      /\ input' = input /\ items' = items /\ status' = left'
      /\ \/ phase' = "check output" /\ answer' = answer /\ task' = "ok"
         \/ phase' = "ended" /\ answer' = "failed" /\ task' = "failed"
    BY DEF RunTask, Fail
<1>3. task = "not run" /\ answer = "none"
    BY <1>2 DEF IInv, PhaseInv
<1>4. TypeOK'
  <2>1. /\ allowUnmatched' \in BOOLEAN /\ caller' \in {"none", "interface", "script"}
        /\ task' \in Task /\ answer' \in {"none", "ok", "failed"}
    BY <1>1, <1>2, <1>3 DEF IInv, TypeOK, Task
  <2>2. phase' \in Phase
    BY <1>2 DEF Phase
  <2> QED
    BY <1>1, <2>1, <2>2, TypeOKParts
<1>5. PhaseInv' /\ ScriptInv' /\ OutputInv'
    BY <1>1, <1>2, <1>3 DEF PhaseInv, Waiting, ScriptInv, OutputInv
<1>6. GivenInv' /\ InputInv'
    BY <1>1, <1>2, <1>3 DEF IInv, GivenInv, InputInv, Ran
<1>7. StatusInv' /\ CompleteItemsAreAccepted'
    BY <1>2, <1>3 DEF StatusInv, StatusTellsWhy, CompleteItemsAreAccepted
<1> QED
    BY <1>1, <1>4, <1>5, <1>6, <1>7 DEF IInv

LEMMA CheckOutputKeeps ==
    ASSUME IInv, CheckOutput
    PROVE  IInv'
<1>1. /\ inputDefs' = inputDefs /\ outputDefs' = outputDefs
      /\ allowUnmatched' = allowUnmatched /\ DefsOK' /\ DefsInv'
    BY DefsUnchanged DEF CheckOutput
<1>2. /\ phase = "check output" /\ given' = given /\ caller' = caller
      /\ task' = task /\ input' = input /\ items' = items /\ output' = output
      /\ left' = left
      /\ \/ /\ CheckBlossomValues(outputDefs, output, "OUTPUT")
            /\ caller = "interface"
            /\ phase' = "check completeness" /\ answer' = "none"
            /\ status' = status
         \/ /\ CheckBlossomValues(outputDefs, output, "OUTPUT")
            /\ caller # "interface"
            /\ phase' = "ended" /\ answer' = "ok" /\ status' = status
         \/ phase' = "ended" /\ answer' = "failed" /\ status' = 500
  <2>1. /\ phase = "check output" /\ given' = given /\ caller' = caller
        /\ task' = task /\ input' = input /\ items' = items /\ output' = output
        /\ left' = left
    BY Zenon DEF CheckOutput
  <2>2. CASE CheckBlossomValues(outputDefs, output, "OUTPUT")
    <3>1. /\ phase' = IF caller = "interface" THEN "check completeness"
                                              ELSE "ended"
          /\ answer' = IF caller = "interface" THEN "none" ELSE "ok"
          /\ status' = status
      BY <2>2, Zenon DEF CheckOutput
    <3>2. CASE caller = "interface"
      BY <2>1, <2>2, <3>1, <3>2, Zenon
    <3>3. CASE caller # "interface"
      BY <2>1, <2>2, <3>1, <3>3, Zenon
    <3> QED
      BY <3>2, <3>3, Zenon
  <2>3. CASE ~CheckBlossomValues(outputDefs, output, "OUTPUT")
    <3>1. phase' = "ended" /\ answer' = "failed" /\ status' = 500
      BY <2>3, Zenon DEF CheckOutput, Fail
    <3> QED
      BY <2>1, <3>1, Zenon
  <2> QED
    BY <2>2, <2>3, Zenon
<1>3. task = "ok" /\ answer = "none" /\ status = left
    BY <1>2 DEF IInv, PhaseInv, StatusInv
<1>4. TypeOK'
  <2>1. /\ allowUnmatched' \in BOOLEAN /\ caller' \in {"none", "interface", "script"}
        /\ task' \in Task /\ answer' \in {"none", "ok", "failed"}
    BY <1>1, <1>2, <1>3 DEF IInv, TypeOK, Task
  <2>2. phase' \in Phase
    BY <1>2 DEF Phase
  <2> QED
    BY <1>1, <2>1, <2>2, TypeOKParts
<1>5. PhaseInv' /\ ScriptInv' /\ OutputInv'
    BY <1>1, <1>2, <1>3 DEF PhaseInv, Waiting, ScriptInv, OutputInv
<1>6. GivenInv' /\ InputInv'
    BY <1>1, <1>2, <1>3 DEF IInv, GivenInv, InputInv, Ran
<1>7. StatusInv' /\ CompleteItemsAreAccepted'
  <2>1. /\ task' = "ok"
        /\ \/ answer' # "failed" /\ status' = left'
           \/ answer' = "failed" /\ status' = 500
    BY <1>2, <1>3
  <2>2. StatusInv'
    BY <2>1 DEF StatusInv, StatusTellsWhy
  <2>3. phase' # "rejected"
    BY <1>2
  <2> QED
    BY <2>2, <2>3 DEF CompleteItemsAreAccepted
<1> QED
    BY <1>1, <1>4, <1>5, <1>6, <1>7 DEF IInv

LEMMA CheckCompletenessKeeps ==
    ASSUME IInv, CheckCompleteness
    PROVE  IInv'
<1>1. /\ inputDefs' = inputDefs /\ outputDefs' = outputDefs
      /\ allowUnmatched' = allowUnmatched /\ DefsOK' /\ DefsInv'
    BY DefsUnchanged DEF CheckCompleteness
<1>2. /\ phase = "check completeness" /\ given' = given /\ caller' = caller
      /\ task' = task /\ input' = input /\ items' = items /\ output' = output
      /\ left' = left
      /\ phase' = "ended"
      /\ \/ /\ ValidateFieldsCompleteness(output, outputDefs, "OUTPUT",
                                          allowUnmatched)
            /\ answer' = "ok" /\ status' = status
         \/ answer' = "failed" /\ status' = 500
    BY DEF CheckCompleteness, Fail
<1>3. /\ task = "ok" /\ answer = "none" /\ status = left
      /\ CheckBlossomValues(outputDefs, output, "OUTPUT")
    BY <1>2 DEF IInv, PhaseInv, OutputInv, StatusInv
<1>4. TypeOK'
  <2>1. /\ allowUnmatched' \in BOOLEAN /\ caller' \in {"none", "interface", "script"}
        /\ task' \in Task /\ answer' \in {"none", "ok", "failed"}
    BY <1>1, <1>2, <1>3 DEF IInv, TypeOK, Task
  <2>2. phase' \in Phase
    BY <1>2 DEF Phase
  <2> QED
    BY <1>1, <2>1, <2>2, TypeOKParts
<1>5. PhaseInv' /\ ScriptInv' /\ OutputInv'
    BY <1>1, <1>2, <1>3 DEF PhaseInv, Waiting, ScriptInv, OutputInv
<1>6. GivenInv' /\ InputInv'
    BY <1>1, <1>2, <1>3 DEF IInv, GivenInv, InputInv, Ran
<1>7. StatusInv' /\ CompleteItemsAreAccepted'
  <2>1. /\ task' = "ok"
        /\ \/ answer' # "failed" /\ status' = left'
           \/ answer' = "failed" /\ status' = 500
    BY <1>2, <1>3
  <2>2. StatusInv'
    BY <2>1 DEF StatusInv, StatusTellsWhy
  <2>3. phase' # "rejected"
    BY <1>2
  <2> QED
    BY <2>2, <2>3 DEF CompleteItemsAreAccepted
<1> QED
    BY <1>1, <1>4, <1>5, <1>6, <1>7 DEF IInv

LEMMA NextKeeps == IInv /\ [Next]_vars => IInv'
<1> SUFFICES ASSUME IInv, [Next]_vars PROVE IInv'
    OBVIOUS
<1>1. CASE UNCHANGED vars
  <2> USE <1>1 DEF vars, defVars, callVars
  <2>1. TypeOK' /\ DefsInv'
    BY DEF IInv, TypeOK, DefsInv
  <2>2. PhaseInv'
    BY Zenon DEF IInv, PhaseInv, Waiting
  <2>3. ScriptInv' /\ GivenInv'
    BY Zenon DEF IInv, ScriptInv, GivenInv, Ran
  <2>4. InputInv' /\ OutputInv'
    BY Zenon DEF IInv, InputInv, OutputInv, Ran
  <2>5. StatusInv'
    BY Zenon DEF IInv, StatusInv, StatusTellsWhy
  <2>6. CompleteItemsAreAccepted'
    BY DEF IInv, CompleteItemsAreAccepted
  <2> QED
    BY <2>1, <2>2, <2>3, <2>4, <2>5, <2>6 DEF IInv
<1>2. CASE Next
    BY <1>2, ConstructKeeps, TriggerBlossomKeeps,
       TriggerUnknownBlossomKeeps, CheckBlossomItemKeeps, ProcessBlossomKeeps, GrowBlossomKeeps, RunTaskKeeps, CheckOutputKeeps,
       CheckCompletenessKeeps DEF Next
<1> QED
    BY <1>1, <1>2

LEMMA Invariance == Spec => []IInv
BY InitIInv, NextKeeps, PTL DEF Spec

-----------------------------------------------------------------------------
(* The theorems. *)

\* The fields are what the constructor can make of them, and a call is always
\* in one of its phases.
THEOREM BlossomTypes == Spec => []TypeOK
<1>1. IInv => TypeOK
    BY DEF IInv
<1> QED
    BY <1>1, Invariance, PTL

\* Whoever calls, and whatever fields were registered in whatever order: when
\* runTask is executed every required field is there, and what is there has
\* its type and keeps to regex and borders.
THEOREM TasksGetValidInput == Spec => []TaskInputIsValid
<1>1. IInv => TaskInputIsValid
  <2> SUFFICES ASSUME IInv, Ran PROVE TaskInputIsValid
    BY DEF TaskInputIsValid
  <2>1. /\ Required(inputDefs, "INPUT") \subseteq DOMAIN given
        /\ input = FillDefaultValues(inputDefs, given)
        /\ CheckBlossomValues(inputDefs, input, "INPUT")
    BY DEF IInv, GivenInv, InputInv
  <2>2. DOMAIN given \subseteq DOMAIN input
    BY <2>1, FilledValues
  <2>3. \A n \in DOMAIN inputDefs \cap DOMAIN input :
            CheckValue(inputDefs[n], input[n])
    BY <2>1 DEF IInv, TypeOK, CheckBlossomValues
  <2>4. \A n \in DOMAIN inputDefs \cap DOMAIN input :
            /\ TypeOf(input[n]) = inputDefs[n].fieldType
            /\ inputDefs[n].regex # NoRegex =>
                    RegexMatch(inputDefs[n].regex, input[n][2])
    BY <2>3 DEF CheckValue
  <2>5. ASSUME NEW n \in bordered \cap DOMAIN input
        PROVE  \/ inputDefs[n].lowerBorder = 0 /\ inputDefs[n].upperBorder = 0
               \/ /\ inputDefs[n].lowerBorder <= Size(input[n])
                  /\ Size(input[n]) <= inputDefs[n].upperBorder
    <3>1. /\ n \in DOMAIN inputDefs
          /\ inputDefs[n].fieldType \in {"int", "str"}
      BY DEF IInv, TypeOK, DefsInv
    <3>2. /\ TypeOf(input[n]) \in {"int", "str"}
          /\ WithinBorders(inputDefs[n], input[n])
      BY <2>3, <3>1 DEF CheckValue
    <3> QED
      BY <3>2 DEF WithinBorders
  <2> QED
    BY <2>1, <2>2, <2>4, <2>5 DEF TaskInputIsValid
<1> QED
    BY <1>1, Invariance, PTL

\* A default never takes the place of what a caller has given, and it is there
\* wherever the caller has given nothing (fillDefaultValues).
THEOREM TasksGetCallerValues == Spec => []CallerValuesReachTask
<1>1. IInv => CallerValuesReachTask
  <2> SUFFICES ASSUME IInv, Ran PROVE CallerValuesReachTask
    BY DEF CallerValuesReachTask
  <2>1. input = FillDefaultValues(inputDefs, given)
    BY DEF IInv, InputInv
  <2>2. ASSUME NEW n \in DOMAIN given
        PROVE  n \in DOMAIN input /\ input[n] = given[n]
    BY <2>1, FilledValues
  <2>3. ASSUME NEW n \in DOMAIN inputDefs \ DOMAIN given,
               inputDefs[n].defaultVal # NoItem
        PROVE  n \in DOMAIN input /\ input[n] = inputDefs[n].defaultVal
    <3>1. /\ \A k \in DOMAIN inputDefs :
                inputDefs[k].defaultVal # NoItem => k \in DOMAIN input
          /\ \A k \in DOMAIN inputDefs \ DOMAIN given :
                inputDefs[k].defaultVal # NoItem =>
                    input[k] = inputDefs[k].defaultVal
      BY <2>1, FilledValues
    <3> QED
      BY <2>3, <3>1
  <2> QED
    BY <2>2, <2>3 DEF CallerValuesReachTask
<1> QED
    BY <1>1, Invariance, PTL

\* What a call returns with success has declared types and expected values, and
\* a direct call neither reads nor returns fields that nobody has declared.
THEOREM ResultsAreDeclared == Spec => []ResultIsDeclared
<1>1. IInv => ResultIsDeclared
  <2> SUFFICES ASSUME IInv, answer = "ok" PROVE ResultIsDeclared
    BY DEF ResultIsDeclared
  <2>1. \A n \in DOMAIN outputDefs \cap DOMAIN output :
            CheckValue(outputDefs[n], output[n])
    BY DEF IInv, TypeOK, OutputInv, CheckBlossomValues
  <2>2. caller = "interface" /\ ~allowUnmatched =>
            /\ DOMAIN output \subseteq DOMAIN outputDefs
            /\ DOMAIN given \subseteq DOMAIN inputDefs
    BY DEF IInv, GivenInv, OutputInv, ValidateFieldsCompleteness
  <2> QED
    BY <2>1, <2>2 DEF ResultIsDeclared
<1> QED
    BY <1>1, Invariance, PTL

\* Whatever codes the tasks use and the caller passes: 400 if a known blossom
\* has not run its task, 500 if its result was refused, and everything else is
\* what the caller or the task has left.
THEOREM StatusesTellWhy == Spec => []StatusTellsWhy
<1>1. IInv => StatusTellsWhy
    BY DEF IInv, StatusInv
<1> QED
    BY <1>1, Invariance, PTL

\* No script is refused for an item that is complete and unambiguous.
THEOREM CompleteItemsPass == Spec => []CompleteItemsAreAccepted
<1>1. IInv => CompleteItemsAreAccepted
    BY DEF IInv
<1> QED
    BY <1>1, Invariance, PTL

\* Neither a default nor a match, a regex or borders change the type of a
\* field or whether it is required, nor does a second registration.
THEOREM FieldsAreStable == Spec => DefinitionsStay
<1>1. IInv /\ [Next]_vars => [FieldsStay]_vars
  <2> SUFFICES ASSUME IInv, Next PROVE FieldsStay
    OBVIOUS
  <2>1. CASE Construct
    BY <2>1, ConstructKeeps
  <2>2. CASE ~Construct
    <3>1. UNCHANGED defVars
      BY <2>2 DEF Next, TriggerBlossom, TriggerUnknownBlossom, Called,
                  CheckBlossomItem, ProcessBlossom,
                  GrowBlossom, RunTask, CheckOutput, CheckCompleteness
    <3> QED
      BY <3>1 DEF FieldsStay, defVars
  <2> QED
    BY <2>1, <2>2
<1> QED
    BY <1>1, Invariance, PTL DEF Spec, DefinitionsStay, FieldsStay
=============================================================================
