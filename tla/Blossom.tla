------------------------------ MODULE Blossom ------------------------------
(***************************************************************************)
(* A blossom: its constructor registers fields and constraints, then it is *)
(* executed, either directly (triggerBlossom) or for an item of a script   *)
(* that was validated when its tree was added.  runTask is the code of the *)
(* application: any of Outcome may come of it.                             *)
(***************************************************************************)
EXTENDS BlossomFields, FiniteSets

CONSTANTS
    Name,               \* names of fields
    FieldType,          \* their types
    Defaults, Matches,  \* data for addFieldDefault and addFieldMatch
    Regexes, Borders,   \* patterns, and pairs of borders
    MaxDefinitions,     \* bound on the calls of a constructor
    Inputs,             \* data maps for triggerBlossom
    ItemMapsOfScripts,  \* value-item maps of blossoms in scripts
    Outcome             \* [ok, output, statusCode] of runTask

\* The statusCode of a task that leaves the status as it is.
Untouched == -1

\* All names in a std::map have a place in its order.
ASSUME NameAssumption ==
    \A values \in ItemMapsOfScripts : DOMAIN values \subseteq DOMAIN Rank

VARIABLES
    allowUnmatched,     \* the member of that name
    inputDefs,          \* m_inputValidationMap
    outputDefs,         \* m_outputValidationMap
    definitions,        \* calls of the constructor so far
    bordered,           \* fields for which addFieldBorder returned true
    phase,              \* what comes next
    caller,             \* "interface" or "script"
    items,              \* value items of the script
    given,              \* the input as the caller has built it
    input, output,      \* BlossomIO
    task,               \* how runTask ended, "not run" or "unknown" blossom
    status,             \* BlossomStatus::statusCode
    left,               \* the status without what the library has set
    answer              \* "none", "ok" or "failed"

defVars == <<allowUnmatched, inputDefs, outputDefs, definitions, bordered>>
callVars == <<caller, items, given, input, output, task, status, left, answer>>
vars == <<defVars, phase, callVars>>

Phase == {"constructing", "accepted", "rejected", "check input", "run task",
          "check output", "check completeness", "ended"}

Task == {"unknown", "not run", "ok", "failed"}

Ran == task \in {"ok", "failed"}

TypeOK ==
    /\ DOMAIN inputDefs \subseteq Name /\ DOMAIN outputDefs \subseteq Name
    /\ \A n \in DOMAIN inputDefs :
        /\ inputDefs[n].ioType = "INPUT"
        /\ inputDefs[n].match = NoItem
        /\ inputDefs[n].isRequired => inputDefs[n].defaultVal = NoItem
        /\ inputDefs[n].regex # NoRegex => inputDefs[n].fieldType = "str"
    /\ \A n \in DOMAIN outputDefs :
        /\ outputDefs[n].ioType = "OUTPUT"
        /\ ~outputDefs[n].isRequired
        /\ outputDefs[n].defaultVal = NoItem
    /\ bordered \subseteq DOMAIN inputDefs
    /\ allowUnmatched \in BOOLEAN
    /\ phase \in Phase
    /\ caller \in {"none", "interface", "script"}
    /\ task \in Task
    /\ answer \in {"none", "ok", "failed"}

Init ==
    /\ allowUnmatched \in BOOLEAN
    /\ inputDefs = <<>> /\ outputDefs = <<>>
    /\ definitions = 0
    /\ bordered = {}
    /\ phase = "constructing"
    /\ caller = "none"
    /\ items = <<>> /\ given = <<>>
    /\ input = <<>> /\ output = <<>>
    /\ task = "not run"
    /\ status = 0 /\ left = 0
    /\ answer = "none"

-----------------------------------------------------------------------------
Added(defs, name, def) ==
    [n \in DOMAIN defs \cup {name} |-> IF n = name THEN def ELSE defs[n]]

\* One more call of the constructor.  Calls that return false change nothing,
\* so only those that return true are steps.
Define(inDefs, outDefs) ==
    /\ phase = "constructing"
    /\ definitions < MaxDefinitions
    /\ definitions' = definitions + 1
    /\ inputDefs' = inDefs
    /\ outputDefs' = outDefs
    /\ UNCHANGED <<allowUnmatched, phase, callVars>>

\* Mutant of RegisterInputField: a name can be registered again.
RegisterInputFieldAgain(name, fieldType, isRequired) ==
    /\ Define(Added(inputDefs, name, FieldDef("INPUT", fieldType, isRequired)),
              outputDefs)
    /\ UNCHANGED bordered

RegisterInputField(name, fieldType, isRequired) ==
    /\ name \notin DOMAIN inputDefs
    /\ Define(Added(inputDefs, name, FieldDef("INPUT", fieldType, isRequired)),
              outputDefs)
    /\ UNCHANGED bordered

RegisterOutputField(name, fieldType) ==
    /\ name \notin DOMAIN outputDefs
    /\ Define(inputDefs,
              Added(outputDefs, name, FieldDef("OUTPUT", fieldType, FALSE)))
    /\ UNCHANGED bordered

AddFieldMatch(name, match) ==
    /\ name \in DOMAIN outputDefs
    /\ Define(inputDefs, [outputDefs EXCEPT ![name].match = match])
    /\ UNCHANGED bordered

\* Mutant of AddFieldDefault: required fields get a default, too.
AddFieldDefaultAny(name, defaultValue) ==
    /\ name \in DOMAIN inputDefs
    /\ Define([inputDefs EXCEPT ![name].defaultVal = defaultValue], outputDefs)
    /\ UNCHANGED bordered

AddFieldDefault(name, defaultValue) ==
    /\ name \in DOMAIN inputDefs
    /\ ~inputDefs[name].isRequired
    /\ Define([inputDefs EXCEPT ![name].defaultVal = defaultValue], outputDefs)
    /\ UNCHANGED bordered

AddFieldRegex(name, regex) ==
    /\ name \in DOMAIN inputDefs
    /\ inputDefs[name].fieldType = "str"
    /\ Define([inputDefs EXCEPT ![name].regex = regex], outputDefs)
    /\ UNCHANGED bordered

AddFieldBorder(name, lower, upper) ==
    /\ name \in DOMAIN inputDefs
    /\ inputDefs[name].fieldType \in {"str", "int"}
    /\ Define([inputDefs EXCEPT ![name].lowerBorder = lower,
                                ![name].upperBorder = upper], outputDefs)
    /\ bordered' = bordered \cup {name}

-----------------------------------------------------------------------------
\* A new call may follow the constructor or an earlier call.
Ready == phase \in {"constructing", "rejected", "ended"}

Fail(code) ==
    /\ phase' = "ended"
    /\ answer' = "failed"
    /\ status' = code

\* The status belongs to the caller, who may pass that of an earlier call.
Called ==
    /\ Ready
    /\ caller' = "interface"
    /\ items' = <<>> /\ output' = <<>>
    /\ left' \in {0, status}
    /\ UNCHANGED defVars

\* A direct call begins with the check that its input is complete.
TriggerBlossom(values) ==
    /\ Called
    /\ given' = values
    /\ input' = values
    /\ task' = "not run"
    /\ IF ValidateFieldsCompleteness(values, inputDefs, "INPUT", allowUnmatched)
       THEN phase' = "check input" /\ answer' = "none" /\ status' = left'
       ELSE Fail(400)

\* The name is not that of a registered blossom: the status is left as it is.
TriggerUnknownBlossom ==
    /\ Called
    /\ given' = <<>> /\ input' = <<>>
    /\ task' = "unknown"
    /\ Fail(left')

\* A tree with the blossom is added: its item is validated.
CheckBlossomItem(values) ==
    /\ Ready
    /\ items' = values
    /\ phase' = IF ValidateInput(values, ValidationMap(inputDefs, outputDefs),
                                 allowUnmatched)
                THEN "accepted" ELSE "rejected"
    /\ caller' = "script"
    /\ given' = <<>> /\ input' = <<>> /\ output' = <<>>
    /\ task' = "not run"
    /\ status' = 0 /\ left' = 0
    /\ answer' = "none"
    /\ UNCHANGED defVars

Left(outcome) ==
    IF outcome.statusCode = Untouched THEN status ELSE outcome.statusCode

\* The script reaches the item: all its items become input.  The status is
\* that of the plan, which an earlier blossom of the plan may have set.
ProcessBlossom ==
    /\ phase = "accepted"
    /\ given' = Items(items)
    /\ input' = Items(items)
    /\ phase' = "check input"
    /\ left' \in {0} \cup {Left(outcome) : outcome \in {o \in Outcome : o.ok}}
    /\ status' = left'
    /\ UNCHANGED <<defVars, caller, items, output, task, answer>>

\* The first half of growBlossom: defaults, and the check of the input.
GrowBlossom ==
    /\ phase = "check input"
    /\ input' = FillDefaultValues(inputDefs, given)
    /\ IF CheckBlossomValues(inputDefs, input', "INPUT")
       THEN phase' = "run task" /\ UNCHANGED <<status, answer>>
       ELSE Fail(400)
    /\ UNCHANGED <<defVars, caller, items, given, output, task, left>>

RunTask ==
    /\ phase = "run task"
    /\ \E outcome \in Outcome :
        /\ output' = outcome.output
        /\ left' = Left(outcome)
        /\ IF outcome.ok
           THEN task' = "ok" /\ phase' = "check output" /\ UNCHANGED answer
                /\ status' = left'
           ELSE task' = "failed" /\ Fail(left')
    /\ UNCHANGED <<defVars, caller, items, given, input>>

\* Mutant of CheckOutput: the status of a rejected input.
CheckOutputAsInput ==
    /\ phase = "check output"
    /\ IF CheckBlossomValues(outputDefs, output, "OUTPUT")
       THEN /\ phase' = IF caller = "interface" THEN "check completeness"
                                                ELSE "ended"
            /\ answer' = IF caller = "interface" THEN "none" ELSE "ok"
            /\ UNCHANGED status
       ELSE Fail(400)
    /\ UNCHANGED <<defVars, caller, items, given, input, output, task, left>>

\* The second half: the check of the output.
CheckOutput ==
    /\ phase = "check output"
    /\ IF CheckBlossomValues(outputDefs, output, "OUTPUT")
       THEN /\ phase' = IF caller = "interface" THEN "check completeness"
                                                ELSE "ended"
            /\ answer' = IF caller = "interface" THEN "none" ELSE "ok"
            /\ UNCHANGED status
       ELSE Fail(500)
    /\ UNCHANGED <<defVars, caller, items, given, input, output, task, left>>

\* Direct calls end with the check that their output is complete.
CheckCompleteness ==
    /\ phase = "check completeness"
    /\ IF ValidateFieldsCompleteness(output, outputDefs, "OUTPUT",
                                     allowUnmatched)
       THEN phase' = "ended" /\ answer' = "ok" /\ UNCHANGED status
       ELSE Fail(500)
    /\ UNCHANGED <<defVars, caller, items, given, input, output, task, left>>

Construct ==
    \E n \in Name :
        \/ \E t \in FieldType, isRequired \in BOOLEAN :
            RegisterInputField(n, t, isRequired)
        \/ \E t \in FieldType : RegisterOutputField(n, t)
        \/ \E d \in Matches : AddFieldMatch(n, d)
        \/ \E d \in Defaults : AddFieldDefault(n, d)
        \/ \E r \in Regexes : AddFieldRegex(n, r)
        \/ \E b \in Borders : AddFieldBorder(n, b[1], b[2])

Next ==
    \/ Construct
    \/ \E values \in Inputs : TriggerBlossom(values)
    \/ TriggerUnknownBlossom
    \/ \E values \in ItemMapsOfScripts : CheckBlossomItem(values)
    \/ ProcessBlossom
    \/ GrowBlossom \/ RunTask \/ CheckOutput \/ CheckCompleteness

Spec == Init /\ [][Next]_vars

-----------------------------------------------------------------------------
\* Whoever calls, directly or from a validated script: when runTask is
\* executed every required field is there, and every field that is there has
\* the declared type and keeps to the regex and the borders accepted for it,
\* two zeros being no borders (checkBlossomValues, validateFieldsCompleteness,
\* validateInput).  A task may so read its input without checks of its own.
TaskInputIsValid ==
    Ran => /\ Required(inputDefs, "INPUT") \subseteq DOMAIN input
           /\ \A n \in DOMAIN inputDefs \cap DOMAIN input :
                /\ TypeOf(input[n]) = inputDefs[n].fieldType
                /\ inputDefs[n].regex # NoRegex =>
                        RegexMatch(inputDefs[n].regex, input[n][2])
           /\ \A n \in bordered \cap DOMAIN input :
                \/ inputDefs[n].lowerBorder = 0 /\ inputDefs[n].upperBorder = 0
                \/ /\ inputDefs[n].lowerBorder <= Size(input[n])
                   /\ Size(input[n]) <= inputDefs[n].upperBorder

\* The task sees every value as its caller gave it, and a field that the
\* caller has left out with its default (fillDefaultValues, which inserts
\* without force).
CallerValuesReachTask ==
    Ran => /\ \A n \in DOMAIN given : n \in DOMAIN input /\ input[n] = given[n]
           /\ \A n \in DOMAIN inputDefs \ DOMAIN given :
                inputDefs[n].defaultVal # NoItem =>
                    n \in DOMAIN input /\ input[n] = inputDefs[n].defaultVal

\* A direct call that succeeds has returned only fields that were declared,
\* each with its declared type and expected value, and has read no field that
\* was not declared, unless allowUnmatched says otherwise.
ResultIsDeclared ==
    answer = "ok" =>
        /\ \A n \in DOMAIN outputDefs \cap DOMAIN output :
            CheckValue(outputDefs[n], output[n])
        /\ caller = "interface" /\ ~allowUnmatched =>
            /\ DOMAIN output \subseteq DOMAIN outputDefs
            /\ DOMAIN given \subseteq DOMAIN inputDefs

\* A status tells why a call of a blossom has failed: 400 that nothing has
\* happened yet, 500 that the task was done and its result is refused, and the
\* task itself what the task says.  The library says nothing else: a call that
\* ends well, fails in the task or names no blossom keeps the status of the
\* task or of the caller (growBlossom, triggerBlossom).
StatusTellsWhy ==
    answer # "none" =>
        status = IF answer = "failed" /\ task = "not run" THEN 400
                 ELSE IF answer = "failed" /\ task = "ok" THEN 500
                 ELSE left

\* What a field is does not change any more once it is registered, whatever
\* the constructor calls after that: neither type nor requirement.
DefinitionsStay ==
    [][/\ \A n \in DOMAIN inputDefs :
            /\ n \in DOMAIN inputDefs'
            /\ inputDefs'[n].fieldType = inputDefs[n].fieldType
            /\ inputDefs'[n].isRequired = inputDefs[n].isRequired
       /\ \A n \in DOMAIN outputDefs :
            /\ n \in DOMAIN outputDefs'
            /\ outputDefs'[n].fieldType = outputDefs[n].fieldType]_vars

\* A script is refused only if its item for the blossom names a field that is
\* not declared in that direction, does not set a required one, or uses the
\* name of an output also on the left-hand side (validateInput: the first of
\* two entries with one name hides the other).
CompleteItemsAreAccepted ==
    phase = "rejected" =>
        \/ \E k \in DOMAIN items :
            IF items[k].type = "INPUT" THEN k \notin DOMAIN inputDefs
            ELSE NameIn(items[k].item) \notin DOMAIN outputDefs
        \/ \E n \in Required(inputDefs, "INPUT") :
            n \notin DOMAIN items \/ items[n].type # "INPUT"
        \/ \E k \in DOMAIN items :
            items[k].type = "OUTPUT" /\ NameIn(items[k].item) \in DOMAIN items
=============================================================================
