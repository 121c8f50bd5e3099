# Verification of libKitsunemimiSakuraLang

TLA+ models of libKitsunemimiSakuraLang, a C++ library that parses and executes scripts
("trees") made of calls to application code ("blossoms"), with the TLC runs that check them and
the proofs that TLAPS checks. Paths below are relative to the root of the repository, so
`src/processing/sakura_thread.cpp` is the file `sakura_thread.cpp` of the library's own sources.

Contents: [inventory](#1-inventory), [modules](#2-modules-and-the-code), [runs](#3-runs),
[fairness](#4-fairness), [proofs](#5-proofs), [disagreements
found](#6-where-the-code-and-its-text-disagree), [limits](#7-what-is-not-modelled),
[plan](#8-plan).

## 1. Inventory

### Components, their state and their operations

| Component | State | Operations |
|---|---|---|
| Library interface (`src/sakura_lang_interface.cpp`) | registered blossoms, `m_lock`, pointers to all other parts | `addTree`, `addResource`, `addTemplate`, `addFile`, `addBlossom`, `readFilesInDir`, `triggerTree`, `triggerBlossom`, getters |
| Garden (`src/sakura_garden.cpp`) | maps of trees, resources, templates, files | insert if absent, look up, `getRelativePath` |
| File collector (`src/sakura_file_collector.cpp`) | none | reads a directory and registers what it finds, one by one |
| Initial validator (`src/initial_validator.cpp`) | none | checks every blossom item of a new tree |
| Blossom (`src/blossom.cpp`) | definitions of input and output fields | declaring fields and constraints, `growBlossom`, `validateInput`, `validateFieldsCompleteness` |
| Runtime validation (`src/runtime_validation.cpp`) | none | types, borders, matches and regexes of values |
| Processing engine (`src/processing/subtree_queue.cpp`, `growth_plan.*`, `active_counter.h`, `thread_pool.cpp`) | the queue, growth plans with flag and counter, worker threads | spawn, take, process, report, count, wait, collect, delete |
| Script execution (`src/processing/sakura_thread.cpp`) | per plan: items, file path, the recursion | one method per kind of item |
| Item maps (`src/items/item_methods.cpp`, `value_item_map.cpp`, `value_items.h`) | maps from names to values, value items or further maps | insert, fill, override, convert, check |
| Value functions (`src/items/value_item_functions.cpp`) | none | get, split, size, contains, append, insert, clear_empty, parse_json |
| Execution tree (`src/items/sakura_items.cpp`) | items, which own their parts by raw pointers | deep copies, destructors |
| Parser (`src/parsing/`) | `m_registeredKeys`, `m_output`, the stacks of the generated parser | text to tree |

### How they interact

A caller thread enters through the interface. `triggerTree` takes `m_lock`, sets a growth plan
up on its own stack, spawns the tree as the only child plan and polls that plan's counter.
Workers of the pool poll the queue, process a plan by recursive descent and, when they meet a
parallel part or loop, become parents themselves: they create child plans with a copy of their
items, queue them, and poll until the counter is complete. A child that has ended writes its own
flag, then its parent's, then increases the parent's counter. The parent then merges the
children's items into its own and deletes them. Blossoms run inside a worker and are looked up
in the interface without a lock. The only locks are `m_lock`, the queue's mutex and the one of
each counter.

A text becomes a tree in the parser, which keeps it as `m_output` and hands out a copy. The
validator merges the items of each group into its blossoms and checks them, and the garden keeps
the tree. Whoever executes it gets another copy, since execution happens in place: filling an
item replaces its identifiers by values. Loops copy their content for every iteration, parallel
parts and loops for every child plan.

### What is hard here

* Interleaving: several workers, callers and registrations; results of branches must be merged
  in a fixed order whatever order they end in.
* Deletion: a plan is deleted by the thread that waited for it, as soon as it believes that all
  its children have ended.
* Nested waiting on a pool of fixed size.
* Stale copies: every branch and loop iteration works on a copy of the items.
* Ownership: trees, their copies and plans are deleted by hand, on paths that return from the
  middle of nested calls.
* One parser object reads many texts, and may give up in the middle of one.
* Saving and restoring of items and path around calls and loops, on a recursion that may fail at
  any depth.
* Validation long before execution, while the registries go on changing.
* Failures half-way: of one branch, of one file of a directory, of a call that holds the lock,
  of a task before, in or after it has run.

There are no timeouts, retries or messages, and nothing is persisted.

### What makes each component correct

* Engine: nobody touches a deleted plan; a join is complete and ends; a failure reaches the
  caller; nothing is left over; workers do not starve; every call returns; in one sentence, it
  is structured concurrency (`ForkJoin`).
* Script execution: in every interleaving a script does what it says; names of loops and called
  trees stay inside; relative paths are relative to the file they are written in.
* Interface, garden and collector: what is registered is never replaced, success means that
  one's own content was registered, whatever was validated can be executed later, every call
  returns.
* Parser, validator and item maps: a tree that is handed out says what its text says, uses only
  names that the text declares, and its items reach the input of the blossoms, at whatever
  depth.
* Execution tree: each item has one owner, is not used after its deletion, not executed twice,
  and not changed while it is registered.
* Blossoms: tasks only see valid and complete input with the caller's own values; callers only
  see declared results; status codes tell on which side of the task a call failed; definitions
  are not changed by later declarations.

## 2. Modules and the code

| Module | Models | Kind |
|---|---|---|
| `ForkJoin` | what the engine promises | abstract specification |
| `SubtreeQueue` | engine, with the callers of `triggerTree` | state machine, refines `ForkJoin` |
| `SubtreeQueue_proofs` | | theorems about the engine |
| `ItemMaps` | item maps and value items | operators |
| `SakuraThread` | execution of scripts | state machine over `ItemMaps` |
| `ScriptMeaning` | what scripts mean, without interleaving and stacks | abstract specification |
| `SakuraThread_proofs` | | theorems about paths, names and what scripts mean |
| `ValueFunctions` | functions of value items | state machine |
| `ValueFunctions_proofs` | | theorems about chains of functions |
| `BlossomFields` | fields, their constraints and validation | operators over `ItemMaps` |
| `BlossomFields_proofs` | | lemmas about the checks of fields |
| `Blossom` | life of one blossom and calls of it | state machine over `BlossomFields` |
| `Blossom_proofs` | | theorems about tasks and their callers |
| `SakuraLangInterface` | registries, lock, all calls of the interface | state machine over `BlossomFields` |
| `SakuraLangInterface_proofs` | | theorems about registries and tasks |
| `ValueItemMaps` | the class `ValueItemMap` with maps within maps | operators |
| `SakuraParser` | parser | state machine over `ValueItemMaps` |
| `ParsedScript` | way of a text's items through parser, validator and execution | composition of `SakuraParser` with validator and blossom calls |
| `SakuraParser_proofs` | | theorems about handed-out trees and the way of their items |
| `ExecutionTree` | memory of trees, in parser, garden and execution | state machine |
| `ExecutionTree_proofs` | | theorems about owners, copies and registered trees |
| `MC...` | instances for TLC | |

These abstractions tie the state machines together. `SubtreeQueue` has the steps of queue, flags
and counters one by one and leaves open what a script computes and how often it forks.
`SakuraThread` takes queueing all children of a fork, reporting and counting as one step each,
and `ExecutionTree`, which looks at objects only, leaves open what is computed. Both wait as the
code does, until a counter equals what was announced, with a counter that is never reset:
`earlier` is what it has from former children, `IsCounter` adds the present ones that have
ended, and both numbers are taken modulo `CounterRange`. So a plan's second fork may go on early
and delete children that run, and a descending loop waits for ever. The history variable
`orderly` is true as long as every fork has announced a number that its counter reaches exactly
when all its children have ended (`CanCount`): the plan had no children that have ended before,
and as many are created as announced, fewer than `CounterRange`. What workers do with plans that
were deleted under them is undefined and not modelled, so most properties of both modules speak
about executions up to there, and say so. `SakuraLangInterface` executes a tree as the sequence
of its blossoms, each of them in the way `Blossom` describes.

**SubtreeQueue.** A plan goes through the phases free, new (created, not yet in the queue),
queued, run, spawn (creating children and polling), collect, returned, reported (flags written),
done (counted). `ReturnTrigger`, `Report` and `IncreaseCounter` are separate actions because the
code writes flag and counter in separate steps with other threads in between; a spawn announces
its count in one step and queues the children in further ones, as `addGrowthPlan` does.
`CounterRange` is 2^32 in the code. `alive` holds the plans that are allocated. A worker may
fork only when it executes an item, and any item may fail.

**SakuraThread.** The C++ recursion of one plan is a stack of frames: items still to do, and
what is to be restored after a call or a loop. One step processes one item, exactly in the order
of the code's checks. Plans are named by their way from the root plan. A script is data:
`Code[i]` describes item `i`, `Home[i]` the file it is in. Values are tagged pairs. `Word`
stands for 2^64; positions of loops are unsigned and their values are cast back (`Signed`). A
plan is queued until one of `NumberOfThreads` workers takes it (`Start`), and the worker of a
plan that waits takes no other (`Busy`). Spawning queues all children at once and any of them
may be next, which allows more orders than the queue.

**ScriptMeaning.** What a list of items makes of a map of values is defined item by item: a call
is the meaning of the called tree on a map of its own, a loop that of its content again and
again, a parallel part that of each branch on the same map. There are no stack, saved copies,
plans or steps, and what fails is `Bad`, whatever was done before. How maps of value items are
filled and names converted (`ItemMaps`), how parallel iterations are aggregated (`Aggregate`)
and what a loop iterates over (`Iterations`) is shared with `SakuraThread`. The evaluation is
recursive; its three operators are parameters, which `MCSakuraThread` gives the values that the
equations of `ScriptMeaning` define, and the theorem about it any values that satisfy these
equations.

**ItemMaps** has `OverrideItems` with its three modes, `FillInputValueItemMap` and
`FillOutputValueItemMap` with the conditions under which the code gives up (`CanFill...`), and
the checks of trees. Which of several failing outputs is met first depends on the order of names
in a `std::map`; `Rank` gives that order. Strings are templates for the converter of another
library: `Convert` is what it makes of a text and the items, or that it fails.

**ValueFunctions.** A state is the value a chain of functions has got to. Each function is an
operator that returns `NoItem` where the code returns `nullptr`, each block of
`getProcessedItem` an action that applies it to any arguments. Data is nested pairs of a type
and a content. `clearEmpty` is modelled round by round, with the index that wraps round below
zero (`IndexRange` is 2^32 in the code; an array of that size would keep the loop from ending,
so `ClearedIsFiltered` speaks of smaller ones); of a delimiter only the first character counts,
as in `splitValue`. What data look like as text, how a text is split and what JSON yields are
constants (`Datum` holds the data that chains start with, and what is within them). `ItemMaps`
has its own `append`, the one function the scripts of `MCSakuraThread` use.

**Blossom.** First a constructor makes any sequence of declaring calls, then the blossom is
called again and again, directly (`TriggerBlossom`) or from a script whose item was validated
before (`CheckBlossomItem`, `ProcessBlossom`). `RunTask` is the application's code: any member
of `Outcome`, which may set any status code or none (`Untouched`). Nothing resets the status: a
direct call starts with that of its caller, who may have got it from an earlier call, and a
blossom in a script with that of its plan. `left` is what caller and task have made of it,
without the codes of the library. `TriggerUnknownBlossom` is a call with a name that nobody has
registered.

**SakuraLangInterface.** Every method is one call or, for `readFilesInDir`, the sequence of
single calls it makes until one fails. Steps end where the code gives other threads a chance:
taking the lock, parsing, validating each blossom item, inserting, and between the look-up and
the insertion of `addBlossom`, which takes no lock. `triggerBlossom` looks its blossom up and
runs it in one step: the pointer it holds stays valid because nothing is ever replaced
(`FirstStays`).

**SakuraParser.** A step reads a line: a header, an item, a brace. The tree under construction
is flat: its parts in the order of the text, each with the branches and loops it is in, and at
most one open item set with the maps open within it. The actions of the grammar run when a rule
is complete, so their order matters: a name is registered before the value behind it is read,
the three names of a `for` are compared only after its closing brace, a duplicate is refused
after its value. `parse` clears the names of the text before. A line that does not fit ends the
parse, and one behind a complete tree ends it after `setOutput` was called. `MaxLines` bounds
the text. Expressions are value items with the identifiers in the arguments of their functions;
lexical details and JSON contents are constants.

**ValueItemMaps** keeps a map with maps inside flat: an entry is at a place, which is the names
of the maps around it and its own. `FillGaps` is the merge of a group into a blossom, which the
code does for flat values only; `FillInput` and `ConvertValueMap` recurse in the code and so
apply to all places.

**ParsedScript.** `AddTree` is the validator with its lasting effect on the items,
`ProcessBlossom` the merge, fill and conversion before a blossom gets its input. Where the
result depends on the order of names in a `std::map`, or on what the data library does with a
key that is inserted twice, both outcomes are possible.

**ExecutionTree.** An object is named by the copy that made it and the item of the text it
stands for. `heap` has the objects that exist, with their parts and whether they were filled. A
plan is a stack of frames; frames of calls and iterations know what is to be deleted behind
them, on every way out (`delete`) or on success only. What a step computes is left open, so
every step may fail, and a failure unwinds the whole stack of the plan. `GetTreeValidMap` takes
no lock and runs at any time. Copying the children of a parallel part is one step, and any plan
that is queued may run, which covers any number of workers. The items of all texts are numbered
in the order in which they are written, so what is within an item are the numbers up to `End` of
it (`ItemAssumption`, evaluated by TLC on every run and used by the proofs). Where the validator
refuses a text it has looked at the items up to one (`last`), which is any.

## 3. Runs

| Run | Shows | States, time |
|---|---|---|
| `engine` | all engine properties, two callers, two workers | 252 k, 100 s |
| `scripts` | fifteen calls of trees with everything the language has, four workers | 10 k, 50 s |
| `values` | chains of up to three functions of a value item | 209 k, 12 s |
| `blossom` | all constructors of up to four calls, any calls after that | 1.6 M, 160 s |
| `interface` | two callers, twenty different calls, four calls in all | 95 k, 45 s |
| `parser` | all texts of up to five lines and braces, one after another, and their execution | 1.9 M, 50 s |
| `copies` | three texts, four calls, failures anywhere | 272 k, 135 s |
| `two_forks`, `nested` | scripts for which the engine does not keep its word | violations |
| `lost_update`, `dropped_maps` | comments that the execution of scripts does not live up to | violations |
| `register_race` | the same for the interface | violation |

**engine** (`MCSubtreeQueue`). `NoDanglingPlan`: no thread reaches a deleted plan or one in
another thread's hands. `JoinComplete`: results are collected when all children have ended.
`WaitEnds`: when they have, the counters agree. `FailureReachesCaller`, `TriggerLeavesNothing`,
`NoStarvation`, `EveryTriggerReturns`, and `ImplementsForkJoin`, the refinement. Bounds: six
plans, two of them callers', so that four child plans can be spread over a tree and its
branches; parallel parts of 0 to 3 branches and loops of 0 to 2 iterations, so that empty,
single and more branches than workers occur; one parallel part per plan and no nesting, because
the violation runs show that other scripts break the engine. Two workers is the default of the
constructor. The theorems below lift all bounds but those two.

**scripts** (`MCSakuraThread`). `RunsAsWritten` compares what `triggerTree` returns, in every
interleaving, with `Meaning`, the evaluation of the script that `ScriptMeaning` defines.
`NoNameLeaks` and `RelativeToOwnFile` look at every state on the way; `TriggerReturns` is
liveness. The trees contain loops within branches, a parallel loop within a parallel loop,
subtrees that call subtrees in other directories, a resource alone and in a group, both sides of
an if, and chained functions; the calls include missing and wrongly typed inputs, an unknown
tree, empty arrays, failures at different depths, names that cannot be converted, negative
positions, a second fork of one plan and a descending parallel loop. The last two are not
`orderly`, and end, early or never, in ways the properties leave out, hence `CHECK_DEADLOCK
FALSE`; all others are decided by `TriggerReturns`. In these scripts at most two plans wait at a
time, that of a tree and an iteration of its parallel loop with a loop inside, so three workers
are enough, and the default pool of two is not: `nested`. There are four (`NumberOfThreads`), so
that branches run beside each other while both wait. The configuration gives the three
parameters of `ScriptMeaning` the right-hand sides of their own equations, so no module declares
a `RECURSIVE` operator.

**values** (`MCValueFunctions`). `ContainsAgreesWithGet`, `AdditionsAreFound` and
`ClearedIsFiltered` relate functions to each other or to a plain definition: each element kept
by `clear_empty` is where the number of those kept before it says. Three functions are enough to
add two things and then look at or clear them. The initial values have empty elements next to
each other and at both ends, and data of different types with equal texts; the arguments have
numbers outside arrays, unusable keys and the two kinds of delimiters. `CHECK_DEADLOCK FALSE`: a
chain ends.

**blossom** (`MCBlossom`). `TaskInputIsValid` and `CallerValuesReachTask` speak about what
`runTask` gets, `ResultIsDeclared` and `StatusTellsWhy` about what the caller gets,
`CompleteItemsAreAccepted` about the refusal of scripts, `DefinitionsStay` about constructors.
Two fields and four declarations are enough to declare one field with every pair of constraints,
a second field, or the same field twice; values lie on both sides of every constraint, and two
borders of zero, which the code takes for none, are among the constraints. Tasks set 400 or 500
themselves or leave the status as it is, and callers pass the status of an earlier call, so that
a code of the library can be mistaken for another's unless `StatusTellsWhy` holds. It cannot say
that a code comes from the library: with 400 from a task nobody can.

**interface** (`MCSakuraLangInterface`). `SuccessMeansMine`, `NoUnknownBlossom`, `TasksAreFed`,
`FirstStays`, `EveryCallReturns`. The contents compete: two blossoms for one name, two trees for
one id, a resource with the name of a blossom, directories that add an id that is taken and fail
in the middle. Four calls are what it takes to register a blossom, add a resource and a tree
that uses both, and execute it, or to let a second registration interfere with a validated tree.
`CHECK_DEADLOCK FALSE` because the callers stop after their calls.

**parser** (`MCParsedScript`). `IdentifiersAreDeclared` and `EveryItemIsKept` compare what is
handed out with the text; `InputIsAsWritten` and `AcceptedIsFed` compare what a blossom gets
with the text and with what the validator has accepted. Five lines (`MaxLines` counts parts,
items and open braces) are enough for a tree, a group with an item, a blossom, and a map with an
entry, or for a loop or an else-branch with content; the number of texts is unbounded, so names
that were declared in an earlier text, or in one that failed, are tried in a later one. Two
names are enough to declare one and use another; one field is required and one name is none.
`CHECK_DEADLOCK FALSE`: nothing has to happen to a blossom.

**copies** (`MCExecutionTree`). `NothingDangles`, `OneOwner` and `ExecutedAsWritten` are about
every state, `SourcesStay` and `LosesOnlyOnFailure` about steps. The three texts have a loop
around a resource, a called tree in a branch, a parallel loop in a parallel part, and a branch
without content; loops run up to twice, since the second iteration is the first that can see
what the first has left behind. Four calls are what it takes to add three texts and execute one,
or to add one text twice. Every addition may fail at every blossom. `CHECK_DEADLOCK FALSE`
because calls are bounded.

## 4. Fairness

* `SubtreeQueue`: weak fairness of each caller's, each worker's and each waiting plan's steps.
  Threads are scheduled by the operating system, polling loops never give up, and items end. For
  the lock it asks only that a waiting caller gets it when it stays free; a mutex held by
  finitely many callers in turn does that. Forking is not fair: a script need not fork.
* `SakuraThread`: weak fairness of `Next`: as long as a worker or the caller can take a step,
  one of them does. That is less than the scheduler of the operating system gives, and does not
  presume a worker for each plan: a plan in the queue can only start on a free one, so nested
  forks on too few workers stop, as they do in the code.
* `SakuraLangInterface`: weak fairness of the steps of each caller, not of beginning a call.
  Here too calls are bounded, so nobody is overtaken for ever at the lock.

All three assume that `runTask` returns, which the library cannot enforce. The other modules
state safety only and assume no fairness.

## 5. Proofs

Checked by TLAPS for every value of the constants that satisfies the named assumptions.

**Engine** (`SubtreeQueue_proofs`): `TypeCorrect`, `NoDangling`, `JoinIsComplete`,
`WaitIsExact`, `FailuresReachCallers`, `TriggersLeaveNothing`, `NobodyStarves` and the
refinement `EngineImplementsForkJoin`. They assume `PlanAssumption` and `BoundAssumption` and,
by `ScriptAssumption`, that a plan executes at most one parallel part or loop, that loops do not
end before they start, and that fewer than 2^32 plans exist. `two_forks` shows that the first is
needed; for the second see the end of section 6. `NobodyStarves` further assumes two workers and
no nesting (see `nested`). The number of callers, workers, plans and branches is arbitrary, and
except for `NobodyStarves` so is the depth of nesting.

None of these properties is inductive. `IInv` adds: plans form a forest in which `ancestors`
follows `parent` (`ParentInv`, `AncestorInv`); whatever has an unfinished plan below it is still
in its spawn (`JoinInv`), which is why a deletion, which is recursive, cannot reach a plan in
use; a plan is in the queue at most once or in the hands of one worker (`QueueInv`, `HeldInv`);
`isCounter` is the number of children that are done and `shouldCount` the number created or to
be created (`CounterInv`, `ForkInv`), which turns the equality of two numbers into the equality
of two finite sets; and a child that has reported a failure has left `success` false in its
parent until the parent reads it (`ResultInv`). The proof has one lemma per action. The
refinement proof shows that queueing, reporting and collecting map to stuttering and every other
action to an action of `ForkJoin`.

**Scripts** (`SakuraThread_proofs`): `PathsAreOwn`, `NamesDoNotLeak`, `ScriptsRunAsWritten` and
`ScriptsNeverStandStill`, under `ScriptAssumption` (what the parser builds: an item and its
parts are in one file) and `PoolAssumption` (sizes are numbers). `PathsAreOwn` holds without a
condition; the other three are about `orderly` executions, in which every fork has announced
what its counter can reach, and have no other way to hold: `two_forks` shows what a second fork
of a plan does. That in these a counter equals the announced number only when all children have
ended is proved, from the number of children there are and the equality of two finite sets, not
assumed. The path of a plan belongs to the frames above the topmost return frame;
the path in a return frame belongs to those down to the next (`OwnPaths`). `PathInv` says so for
every plan and is inductive. For the names, the frames of a plan that put saved items back
(loops with a value and calls) cut its stack into stretches; `Keeps` says which names the plan
has at the end of each stretch: those with which the call below has begun, or, at the bottom of
a branch, those that the waiting parent has. `NameInv` says so for every plan of the tree of
plans, failed ones excepted, and that a parent goes on waiting while a branch of it runs. That
merging the branches brings no further name is the reason why the parent's names stay what the
invariant said before the fork.

`ScriptsRunAsWritten` says that the interleaved machine and `ScriptMeaning` agree, for scripts
nested to any depth, any number of branches and iterations, and any blossoms that do the same
whenever they get the same. It further assumes `MeaningIsDefined`, the equations of `Meaning`,
`GroupMeaning` and `LoopMeaning`. They have a solution: every equation yields `Bad` where
something it asks for is `Bad`, so giving `Bad` to what never comes to an end satisfies them.
(About such scripts the property says nothing, since `triggerTree` does not return.) The proof
gives each frame a meaning, too (`FrameMeaning`): what is left of a loop or group, or the return
from a call. A stack turns an outcome, which is a map and a path or the failure, into another by
way of a trace with one outcome for each frame (`EndsIn`), so that no recursive definition is
needed. `MeaningInv` says that there is a fate for every plan such that the stack of a running
plan ends in it, an ended plan has come to it, and the stack below the join of a waiting plan
ends in it from what the fates of its children make together (`JoinMeaning`); and the fate of
the root is the meaning of the tree. Steps of one plan keep its fate (`AloneMeans`, one lemma
per action, each an equation of `ScriptMeaning`). A spawn chooses the fates of the new plans,
the meanings of their items, and a join finds them fulfilled (`MeaningSpawned`, `JoinMeans`).
That the last branch wins needs `NameInv`: a value of another branch survives only if the last
one lacks the name. Interleaving never comes up in the proof: a step of one plan does not touch
the stack or items of another (`OthersExplained`), which is why the order of steps cannot
matter.

`ScriptsNeverStandStill` says that plans never wait for each other in vain, in parallel parts
and loops nested to any depth, as long as the execution is `orderly` and fewer plans wait than
there are workers: a plan runs on a worker, or one is queued and a worker is free for it, or the
counter of one that waits equals what it has announced, or only the plan of the triggered tree
is left and has ended. The argument is a measure: at any time the depth of nesting is bounded
(`WaitInv`), and of the waiting plans that are nested deepest, the children cannot be waiting;
if they have all ended, the counter is right. With as many waiting plans as workers the engine
does stand still (`nested`).

**Blossom** (`Blossom_proofs`): `BlossomTypes`, `TasksGetValidInput`, `TasksGetCallerValues`,
`ResultsAreDeclared`, `StatusesTellWhy`, `CompleteItemsPass` and `FieldsAreStable`. Assumed are
`RankAssumption` (the order of names in a map is one) and `NameAssumption` (names in scripts
have their place in that order). Fields, defaults, patterns, borders and values are arbitrary,
as are the number of declarations, what tasks do, and the codes that they set and callers pass.
The properties speak about the end of a call, so the invariant carries what each check has found
out up to there: a definition has all its parts and a bordered one is of a type that has borders
(`DefsInv`), in which phase a task may have run (`PhaseInv`), that the library has set no status
before the end (`StatusInv`), what the validator knows of an item of a script and the interface
of what it is given (`ScriptInv`, `GivenInv`), that the input is the given one with the defaults
filled in, and checked, from the check on (`InputInv`), and the same of the output
(`OutputInv`). `DefsInv` is what makes the check of borders mean something, since the code looks
at borders only for two types. `BlossomFields_proofs` holds what the checks of single values and
of whole maps establish, and the existence of the first name in the order of a map, which is the
one the code reports. Neither `CompleteItemsAreAccepted` nor `TaskInputIsValid` holds without
its exception: an input and an output of one name, and two borders of zero (section 6).

**Interface** (`SakuraLangInterface_proofs`): `NothingIsReplaced` needs no invariant: each step
inserts at most where nothing was, `addBlossom` included, since `std::map::insert` does not
replace. `SuccessIsOwn` needs that results are recorded for the call they belong to
(`PcMatchesJob`), and then follows from `Stays`, which is shown for every step. `TypesAreKnown`
and `TasksGetRequiredFields` connect two moments: a tree is validated in one state of the
registries and executed in another. `FInv` says that every registered tree and resource is valid
as things stand now (`RegistriesAreValid`), which each insertion preserves because nothing is
replaced, and of each caller (`CallerInv`) that the items of the text it adds are valid or still
to be checked (`IsChecked`), that those it has to execute are valid, and that its task has the
fields it requires. Assumed are `CallerAssumption`, `BlossomAssumption` (each blossom object
belongs to a class with fields), `TextAssumption` (items are given as sequences, and the
validator needs an order of names) and `DirectoryAssumption` (lists of files are finite).

**Parser** (`SakuraParser_proofs`): `HandedTreesAreClosed` and `HandedTreesAreWritten`; for the
composition `ScriptTypes`, `ScriptTreesAreClosed`, `ScriptTreesAreWritten`, `InputsAreAsWritten`
and `AcceptedTreesAreFed`. No assumption; texts, names, values and the number of texts are
arbitrary. `IdentifiersAreDeclared` speaks of complete trees only. The invariant says of a tree
under construction that every part uses names declared up to it (`PartsUseKnown`) and open item
sets names declared up to now (`SetsUseKnown`), that `m_registeredKeys` holds only such names
while a text is read (`KeysAreKnown`), that a `for` whose names disagree is still open
(`WrongIsOpen`), and what the sequences and maps look like (`Shape`). The heart of the proof is
that closing a map within a map neither loses a declaration nor adds a use. For
`EveryItemIsKept`, `KInv` says that finished parts and open item sets together hold every line
of the text read so far at its place, and nothing else, and that no map has a name twice. `TInv`
gives the types, with each brace at a part that exists and each blossom behind its group or
another blossom of it; that is how a blossom finds its group. `VInv` says that the tree in the
garden has at each blossom what `Gathered` makes of the text, the values of the blossom with
those of its group in the gaps; that an accepted tree passed the check with exactly these; and
that the last input of a task comes of them and nothing else. The two merges, of the validator
and of the thread, are one, because filling gaps a second time changes nothing. `SInv` is all of
these together.

**Execution tree** (`ExecutionTree_proofs`): `MemoryIsSafe`, `EverythingHasOneOwner`,
`NothingIsExecutedTwice`, `RegisteredTreesStay` and `CopiesAreDeleted`, for any texts, any
number of calls, plans and iterations, and failures anywhere. Assumed are `ItemAssumption` (a
text is nested: what is within an item is numbered behind it, its parts one after another),
`TextAssumption` (by the grammar, trees, groups, loops and parallel parts have content) and
`BoundAssumption`. They hold up to the first fork that announces what its counter does not reach
exactly when the new children have ended (`orderly`): from there on, plans and trees may be
deleted while workers execute them. `CountInv` says of every plan that waits that it has as many
children as it has announced and that none has counted before; both invariants hold until then
(`OrderlyInv`), so nothing is left below an ended plan (`NothingBelowEnded`) and a join finds
all children ended (`JoinWaits`). `Reach` follows pointers to any depth; `ReachIs` shows that
what it finds is an interval of one copy (`Span`), by the well-founded order of the sizes of
these intervals. From there on nothing is recursive. The properties are not inductive. `IInv`
has four parts: objects of a copy point to those of the same copy that the text puts below them,
and all of these exist (`HeapInv`); what anybody owns is the root of a whole copy, and no two
owners have the same copy (`OwnInv`); a frame that is yet to execute something finds it below an
object that a frame further out deletes, or below the root of its plan, no two frames of a plan
work on common objects, and what is to be executed has not been filled (`StackInv` in
`PlanInv`); what is registered has never been filled (`RegisteredInv`). `PlanInv` also says that
a plan that is not deleted belongs to an earlier one that waits for it, so nothing is left of
the plans when `triggerTree` returns. Every action is shown to delete whole copies of owners
that are gone with it, to fill only below the object that its plan works on, and to give each
new copy one owner (`SafeStep`, `OwnersStep`); the five theorems follow from that
(`StepIsRight`). The exceptions of `LosesOnlyOnFailure` are those of section 6.

**Value functions** (`ValueFunctions_proofs`): `ValuesAreThere`, `ContainedIsFound`,
`AddedIsFound` and `ClearingFilters`, for any values, chains of any length and data nested to
any depth. Assumed are `DatumAssumption` (values, arguments and what JSON yields are texts,
numbers, booleans, and arrays and maps of such), `BoundAssumption`, and in the theorems
themselves `SplitIsList`, that the library splits a text into a list; what the list holds is
arbitrary. `SplitIsList` quantifies over all data, which TLC cannot. Data nest, so "is a datum"
would be a recursive definition. Instead `IsDatum(d)` says that there is a set of data that are
made of each other, and `d` is made of these; what a function makes of data is made of the union
of such sets. `IInv` says that the value is a datum, or the chain has failed without one. The
loop of `clear_empty` is a recursive function. That it exists and what holds of each of its
rounds is proved by induction, in the first-order form that the smallest element of a set of
numbers gives (`InductionOnSets`): after n rounds the first n elements are filtered, the rest is
untouched, and the index is between them (`Filtered`).

Only model-checked is liveness, out of reach of the proof system as is anything about `ENABLED`.
Every other property of a passing run is stated by a theorem.

## 6. Where the code and its text disagree

* `two_forks`: a plan's counter is never reset, so the second parallel part of a plan does not
  wait for its children, which are then deleted under the workers.
* `nested`: with parallel parts inside parallel parts all workers can end up waiting.
* `lost_update`: a later branch's stale copy overrides what an earlier branch wrote.
* `dropped_maps`: a map among the items of a group does not reach its blossoms, although the
  comment at `sakura_thread.cpp:311` speaks of the values of the group that the blossom lacks.
* `register_race`: two callers can both be told that their blossom was registered.

Also seen, without a run of its own:

* In the engine: a parallel loop whose end lies before its start waits for about 2^32 children
  that do not exist (`subtree_queue.cpp:72`), while the sequential one does nothing; the check
  for the failure of another thread reads the flag of the plan itself (`sakura_thread.cpp:121`),
  so queued branches are still executed after a sibling has failed.
* In blossoms: an input and an output of one name get into each other's way, and a script that
  sets the input may be refused (`blossom.cpp:475`; the exception in
  `CompleteItemsAreAccepted`), although `CHANGELOG:18` lists such a conflict as fixed; zero
  borders mean none (`runtime_validation.cpp:119`); a direct call of a blossom that does not
  exist fails without a code of its own, so the caller reads the one passed in
  (`sakura_lang_interface.cpp:183`).
* In scripts: an optional output that a blossom does not set leaves the field's name as a value
  (`sakura_thread.cpp:250`); a called tree with an output that has only a type always fails
  (`sakura_thread.cpp:632`); a resource ends the group of blossoms it is in, whatever follows
  (`sakura_thread.cpp:303`); of a delimiter for `split` only the first character is used
  (`value_item_functions.cpp:131`); a directory's trees cannot use its resources on first
  reading (`sakura_file_collector.cpp:90`).
* In the parser: `!=` in item sets is stored as `==` (`sakura_parser.y:590`), and neither is
  read later; only the first JSON item of a set gets a type (`sakura_parser.y:517`, `:625`); an
  invalid character is reported and skipped, and the parse succeeds (`sakura_lexer.l:129`); the
  content of a refused text stays in `m_output` if its beginning was a tree
  (`sakura_parser.y:171`).
* Memory that nobody deletes: a tree that is refused or whose id is taken
  (`sakura_lang_interface.cpp:403`, `:472`), the copies of resources that the validator looks at
  (`initial_validator.cpp:63`), the copy of `getTreeValidMap` (`sakura_lang_interface.cpp:369`),
  and the copy of a loop's content when an iteration fails (`sakura_thread.cpp:682`).

## 7. What is not modelled

* Characters, tokens and JSON contents: the parser is modelled from lines on. `SakuraThread`
  takes its trees as constants; what it assumes of them (`ScriptAssumption`: a tree, its items
  and their parts are of one file) holds because `parseTreeString` makes one tree of one text.
* Starting and stopping the pool, `getInstance`, the destructors of interface and garden: an
  application creates and ends the interface once, outside of all other calls.
* Data races on `std::map`s between unlocked readers and locked writers: each access is one step
  of the models.
* Blossoms that call the library from their task. They would wait for `m_lock` for ever.
* Resources that contain an item of their own name, which call themselves without end.
* Maps within maps in `ItemMaps` and `SakuraThread` (they are in `ValueItemMaps` and
  `ParsedScript`), the text of jinja2 templates (`Convert` is any function), printed output.
* What workers do with plans and trees that were deleted while they executed them, after a join
  that came too early (`two_forks`): it is undefined. `SakuraThread` and `ExecutionTree` end the
  children at the join, and their properties are about executions without such a join.

## 8. Plan

Done, in this order, the most important first: `ForkJoin` and `SubtreeQueue` with their
theorems; `ItemMaps` and `SakuraThread`; `BlossomFields` and `Blossom`; `SakuraLangInterface`;
`ValueFunctions`; `ValueItemMaps`, `SakuraParser` and `ParsedScript` with their theorems;
`ExecutionTree`.

Then the theorems about `Blossom`, about tasks and registries of `SakuraLangInterface`, about
the items in `SakuraParser` and `ParsedScript`, and about names in `SakuraThread`; then those
about `ExecutionTree` and `ValueFunctions`; last `ScriptMeaning`, and that `SakuraThread`
computes it.

To do:

1. Outputs that are not set, and the status a caller sees after several failures
   (`getErrorResult`).
2. The chains of `ValueFunctions` in the scripts.
