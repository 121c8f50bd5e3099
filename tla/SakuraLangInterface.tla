------------------------ MODULE SakuraLangInterface ------------------------
(***************************************************************************)
(* The interface of the library: registries of blossoms, trees, resources, *)
(* templates and files, which callers on different threads fill and use.   *)
(* m_lock is held while something is added to the garden and while a tree  *)
(* is executed; blossoms are registered and triggered without it.          *)
(*                                                                         *)
(* A tree is the sequence of the blossom items in it: what else it does is *)
(* the subject of module SakuraThread.  Whether runTask succeeds is open.  *)
(***************************************************************************)
EXTENDS BlossomFields, FiniteSets, SequencesExt

CONSTANTS
    Caller,         \* threads of the application
    NoCaller,
    Call,           \* calls they make: records with the operation in op
    MaxCalls,       \* bound on the calls of all callers together
    Fields,         \* Fields[b]: the fields of blossom b, when constructed
    Parsed,         \* Parsed[s]: the tree of a source text, if it has one
    Unreadable,     \* a file that cannot be read
    Directory       \* the directories there are, with what is found in them

ASSUME CallerAssumption == NoCaller \notin Caller /\ MaxCalls \in Nat

\* Blossoms are objects of a class whose constructor has registered its fields.
ASSUME BlossomAssumption ==
    /\ \A call \in Call : call.op = "addBlossom" => call.blossom \in DOMAIN Fields
    /\ \A b \in DOMAIN Fields : AreFields(Fields[b].input, Fields[b].output)

\* The blossom items of all texts.
BlossomItem == UNION {Range(Parsed[s].blossoms) : s \in DOMAIN Parsed}

\* Their names have a place in the order of a std::map.
ASSUME TextAssumption ==
    /\ \A s \in DOMAIN Parsed : Parsed[s].blossoms \in Seq(BlossomItem)
    /\ \A item \in BlossomItem : DOMAIN item.values \subseteq DOMAIN Rank

ASSUME DirectoryAssumption ==
    \A path \in DOMAIN Directory :
        \A kind \in {"trees", "files", "resources", "templates"} :
            Directory[path][kind] \in Seq(Range(Directory[path][kind]))

VARIABLES
    blossoms,       \* m_registeredBlossoms: <<group, type>> -> blossom
    trees,          \* m_trees
    resources,      \* m_resources
    templates,      \* m_templates
    files,          \* m_files
    lock,           \* holder of m_lock
    calls,          \* number of calls so far
    pc,             \* where each caller is
    jobs,           \* the single calls left of a call
    todo,           \* blossom items left to validate or to process
    done,           \* the single calls of this call that returned true
    task,           \* what runTask was called with last: blossom and input
    answer          \* what the last call has returned

registries == <<blossoms, trees, resources, templates, files>>
callerVars == <<calls, pc, jobs, todo, done, task, answer>>
vars == <<registries, lock, callerVars>>

NoTask == [blossom |-> "none", input |-> <<>>]
Job(c) == Head(jobs[c])
Locked == {"addTree", "addResource", "addTemplate", "addFile", "triggerTree"}

TypeOK ==
    /\ \A k \in DOMAIN blossoms : blossoms[k] \in DOMAIN Fields
    /\ \A k \in DOMAIN trees : trees[k] \in Range(Parsed)
    /\ \A k \in DOMAIN resources : resources[k] \in Range(Parsed)
    /\ lock \in Caller \cup {NoCaller}
    /\ calls \in 0..MaxCalls
    /\ \A c \in Caller :
        /\ pc[c] \in {"idle", "next", "locked", "validate", "run", "insert"}
        /\ pc[c] \in {"locked", "validate", "run"} <=> lock = c
        /\ pc[c] # "idle" => jobs[c] # <<>>
        /\ answer[c] \in {"none", "ok", "failed", "unknown blossom-type"}

Init ==
    /\ blossoms = <<>> /\ trees = <<>> /\ resources = <<>>
    /\ templates = <<>> /\ files = <<>>
    /\ lock = NoCaller
    /\ calls = 0
    /\ pc = [c \in Caller |-> "idle"]
    /\ jobs = [c \in Caller |-> <<>>]
    /\ todo = [c \in Caller |-> <<>>]
    /\ done = [c \in Caller |-> {}]
    /\ task = [c \in Caller |-> NoTask]
    /\ answer = [c \in Caller |-> "none"]

-----------------------------------------------------------------------------
\* std::map::insert, which leaves an entry alone that is there already.
Inserted(map, k, v) ==
    OverrideItems(map, [n \in {k} |-> v], "ONLY_NON_EXISTING")

Go(c, where) == pc' = [pc EXCEPT ![c] = where]

\* Mutant of Return: a call that fails keeps m_lock.
ReturnHolding(c, ret) ==
    /\ done' = [done EXCEPT ![c] =
                    IF ret = "ok" THEN @ \cup {Job(c)} ELSE @]
    /\ jobs' = [jobs EXCEPT ![c] = IF ret = "ok" THEN Tail(@) ELSE <<>>]
    /\ IF jobs'[c] = <<>>
       THEN Go(c, "idle") /\ answer' = [answer EXCEPT ![c] = ret]
       ELSE Go(c, "next") /\ UNCHANGED answer
    /\ lock' = IF lock = c /\ ret = "ok" THEN NoCaller ELSE lock
    /\ todo' = [todo EXCEPT ![c] = <<>>]
    /\ UNCHANGED calls

\* A single call returns, and m_lock is released with it.  The collector goes
\* on with the next file, but not after a failure.
Return(c, ret) ==
    /\ done' = [done EXCEPT ![c] =
                    IF ret = "ok" THEN @ \cup {Job(c)} ELSE @]
    /\ jobs' = [jobs EXCEPT ![c] = IF ret = "ok" THEN Tail(@) ELSE <<>>]
    /\ IF jobs'[c] = <<>>
       THEN Go(c, "idle") /\ answer' = [answer EXCEPT ![c] = ret]
       ELSE Go(c, "next") /\ UNCHANGED answer
    /\ lock' = IF lock = c THEN NoCaller ELSE lock
    /\ todo' = [todo EXCEPT ![c] = <<>>]
    /\ UNCHANGED calls

\* Everything in a directory, kind by kind: trees and resources are named in
\* their text, files and templates by their path.
ReadFilesInDir(dir) ==
    [i \in DOMAIN dir.trees |->
        [op |-> "addTree", id |-> "", content |-> dir.trees[i]]]
    \o [i \in DOMAIN dir.files |->
        [op |-> "addFile", id |-> dir.files[i].id,
         content |-> dir.files[i].content]]
    \o [i \in DOMAIN dir.resources |->
        [op |-> "addResource", id |-> "", content |-> dir.resources[i]]]
    \o [i \in DOMAIN dir.templates |->
        [op |-> "addTemplate", id |-> dir.templates[i].id,
         content |-> dir.templates[i].content]]

\* A caller calls a method.
Begin(c) ==
    /\ pc[c] = "idle"
    /\ calls < MaxCalls
    /\ calls' = calls + 1
    /\ done' = [done EXCEPT ![c] = {}]
    /\ task' = [task EXCEPT ![c] = NoTask]
    /\ \E call \in Call :
        IF call.op # "readFilesInDir"
        THEN /\ jobs' = [jobs EXCEPT ![c] = <<call>>]
             /\ Go(c, "next")
             /\ answer' = [answer EXCEPT ![c] = "none"]
        ELSE IF call.path \notin DOMAIN Directory
        THEN /\ answer' = [answer EXCEPT ![c] = "failed"]
             /\ UNCHANGED <<jobs, pc>>
        ELSE LET found == ReadFilesInDir(Directory[call.path])
             IN  /\ jobs' = [jobs EXCEPT ![c] = found]
                 /\ Go(c, IF found = <<>> THEN "idle" ELSE "next")
                 /\ answer' = [answer EXCEPT ![c] =
                                IF found = <<>> THEN "ok" ELSE "none"]
    /\ UNCHANGED <<registries, lock, todo>>

\* The collector cannot read a file: it gives up.
CannotRead(c) ==
    /\ pc[c] = "next"
    /\ Job(c).op \in Locked \ {"triggerTree"}
    /\ Job(c).content = Unreadable
    /\ Return(c, "failed")
    /\ UNCHANGED <<registries, task>>

Lock(c) ==
    /\ pc[c] = "next"
    /\ Job(c).op \in Locked
    /\ Job(c).op # "triggerTree" => Job(c).content # Unreadable
    /\ lock = NoCaller
    /\ lock' = c
    /\ Go(c, "locked")
    /\ UNCHANGED <<registries, calls, jobs, todo, done, task, answer>>

-----------------------------------------------------------------------------
\* addTree and addResource: the text is parsed first.
ParseTreeString(c) ==
    /\ pc[c] = "locked"
    /\ Job(c).op \in {"addTree", "addResource"}
    /\ IF Job(c).content \in DOMAIN Parsed
       THEN /\ todo' = [todo EXCEPT ![c] = Parsed[Job(c).content].blossoms]
            /\ Go(c, "validate")
            /\ UNCHANGED <<lock, calls, jobs, done, answer>>
       ELSE Return(c, "failed")
    /\ UNCHANGED <<registries, task>>

\* Mutant of ValidBlossomItem: a type that is not known is left to the
\* execution.
ValidBlossomItemLater(item) ==
    LET k == <<item.group, item.type>>
    IN  item.type \in DOMAIN resources \/ k \notin DOMAIN blossoms
            \/ LET f == Fields[blossoms[k]]
               IN  ValidateInput(item.values, ValidationMap(f.input, f.output),
                                 f.allowUnmatched)

\* A resource, or a blossom whose fields fit to the values of the item.
ValidBlossomItem(item) ==
    LET k == <<item.group, item.type>>
    IN  item.type \in DOMAIN resources
            \/ /\ k \in DOMAIN blossoms
               /\ LET f == Fields[blossoms[k]]
                  IN  ValidateInput(item.values,
                                    ValidationMap(f.input, f.output),
                                    f.allowUnmatched)

\* The validator takes one blossom item after the other.
CheckBlossomItem(c) ==
    /\ pc[c] = "validate"
    /\ todo[c] # <<>>
    /\ IF ValidBlossomItem(Head(todo[c]))
       THEN /\ todo' = [todo EXCEPT ![c] = Tail(@)]
            /\ UNCHANGED <<lock, calls, pc, jobs, done, answer>>
       ELSE Return(c, "failed")
    /\ UNCHANGED <<registries, task>>

\* Without a name from the caller the name in the text counts.
TreeId(job) == IF job.id = "" THEN Parsed[job.content].id ELSE job.id

AddTree(c) ==
    /\ pc[c] = "validate" /\ todo[c] = <<>>
    /\ Job(c).op = "addTree"
    /\ trees' = Inserted(trees, TreeId(Job(c)), Parsed[Job(c).content])
    /\ Return(c, IF TreeId(Job(c)) \in DOMAIN trees THEN "failed" ELSE "ok")
    /\ UNCHANGED <<blossoms, resources, templates, files, task>>

AddResource(c) ==
    /\ pc[c] = "validate" /\ todo[c] = <<>>
    /\ Job(c).op = "addResource"
    /\ resources' = Inserted(resources, TreeId(Job(c)), Parsed[Job(c).content])
    /\ Return(c, IF TreeId(Job(c)) \in DOMAIN resources THEN "failed" ELSE "ok")
    /\ UNCHANGED <<blossoms, trees, templates, files, task>>

\* Mutant of AddTemplate: that there is a template already goes unnoticed.
AddTemplateBlindly(c) ==
    /\ pc[c] = "locked" /\ Job(c).op = "addTemplate"
    /\ templates' = Inserted(templates, Job(c).id, Job(c).content)
    /\ Return(c, "ok")
    /\ UNCHANGED <<blossoms, trees, resources, files, task>>

AddTemplate(c) ==
    /\ pc[c] = "locked" /\ Job(c).op = "addTemplate"
    /\ templates' = Inserted(templates, Job(c).id, Job(c).content)
    /\ Return(c, IF Job(c).id \in DOMAIN templates THEN "failed" ELSE "ok")
    /\ UNCHANGED <<blossoms, trees, resources, files, task>>

AddFile(c) ==
    /\ pc[c] = "locked" /\ Job(c).op = "addFile"
    /\ files' = Inserted(files, Job(c).id, Job(c).content)
    /\ Return(c, IF Job(c).id \in DOMAIN files THEN "failed" ELSE "ok")
    /\ UNCHANGED <<blossoms, trees, resources, templates, task>>

\* addBlossom looks whether the name is free ...
DoesBlossomExist(c) ==
    /\ pc[c] = "next" /\ Job(c).op = "addBlossom"
    /\ IF Job(c).key \in DOMAIN blossoms
       THEN Return(c, "failed")
       ELSE Go(c, "insert") /\ UNCHANGED <<lock, calls, jobs, todo, done, answer>>
    /\ UNCHANGED <<registries, task>>

\* Mutant of AddBlossom: the entry is assigned.
AddBlossomAssigning(c) ==
    /\ pc[c] = "insert"
    /\ blossoms' = OverrideItems(blossoms,
                        [k \in {Job(c).key} |-> Job(c).blossom], "ALL")
    /\ Return(c, "ok")
    /\ UNCHANGED <<trees, resources, templates, files, task>>

\* ... and inserts, without a lock around the two.
AddBlossom(c) ==
    /\ pc[c] = "insert"
    /\ blossoms' = Inserted(blossoms, Job(c).key, Job(c).blossom)
    /\ Return(c, "ok")
    /\ UNCHANGED <<trees, resources, templates, files, task>>

-----------------------------------------------------------------------------
\* growBlossom for a blossom: runTask is called unless the input is refused,
\* and ret says how it ends.
GrowBlossom(c, blossom, input, ret) ==
    LET filled == FillDefaultValues(Fields[blossom].input, input)
    IN  IF CheckBlossomValues(Fields[blossom].input, filled, "INPUT")
        THEN task' = [task EXCEPT ![c] = [blossom |-> blossom, input |-> filled]]
        ELSE ret = "failed" /\ UNCHANGED task

TriggerTree(c) ==
    /\ pc[c] = "locked" /\ Job(c).op = "triggerTree"
    /\ LET id == IF Job(c).id = "" THEN "root.sakura" ELSE Job(c).id
       IN  IF id \in DOMAIN trees
           THEN /\ todo' = [todo EXCEPT ![c] = trees[id].blossoms]
                /\ Go(c, "run")
                /\ UNCHANGED <<lock, calls, jobs, done, answer>>
           ELSE Return(c, "failed")
    /\ UNCHANGED <<registries, task>>

\* A blossom item that names a resource stands for the items of that.
ProcessResource(c) ==
    /\ pc[c] = "run" /\ todo[c] # <<>>
    /\ Head(todo[c]).type \in DOMAIN resources
    /\ todo' = [todo EXCEPT ![c] =
                    resources[Head(@).type].blossoms \o Tail(@)]
    /\ UNCHANGED <<registries, lock, calls, pc, jobs, done, task, answer>>

ProcessBlossom(c) ==
    /\ pc[c] = "run" /\ todo[c] # <<>>
    /\ Head(todo[c]).type \notin DOMAIN resources
    /\ LET item == Head(todo[c])
           k == <<item.group, item.type>>
       IN  IF k \in DOMAIN blossoms
           THEN \E ret \in {"ok", "failed"} :
                /\ GrowBlossom(c, blossoms[k], Items(item.values), ret)
                /\ IF ret = "ok"
                   THEN /\ todo' = [todo EXCEPT ![c] = Tail(@)]
                        /\ UNCHANGED <<lock, calls, pc, jobs, done, answer>>
                   ELSE Return(c, ret)
           ELSE Return(c, "unknown blossom-type") /\ UNCHANGED task
    /\ UNCHANGED registries

ReturnTrigger(c) ==
    /\ pc[c] = "run" /\ todo[c] = <<>>
    /\ Return(c, "ok")
    /\ UNCHANGED <<registries, task>>

\* A direct call looks for the blossom, checks that its input is complete and
\* executes it, all without the lock.
TriggerBlossom(c) ==
    /\ pc[c] = "next" /\ Job(c).op = "triggerBlossom"
    /\ IF /\ Job(c).key \in DOMAIN blossoms
          /\ LET f == Fields[blossoms[Job(c).key]]
             IN  ValidateFieldsCompleteness(Job(c).input, f.input, "INPUT",
                                            f.allowUnmatched)
       THEN \E ret \in {"ok", "failed"} :
                /\ GrowBlossom(c, blossoms[Job(c).key], Job(c).input, ret)
                /\ Return(c, ret)
       ELSE Return(c, "failed") /\ UNCHANGED task
    /\ UNCHANGED registries

\* What the getters look into.
Lookup(job) ==
    CASE job.op = "getBlossom" -> job.key \in DOMAIN blossoms
      [] job.op = "getTreeComment" -> job.id \in DOMAIN trees
      [] job.op = "getTemplate" -> job.id \in DOMAIN templates
      [] job.op = "getFile" -> job.id \in DOMAIN files

Get(c) ==
    /\ pc[c] = "next"
    /\ Job(c).op \in {"getBlossom", "getTreeComment", "getTemplate", "getFile"}
    /\ Return(c, IF Lookup(Job(c)) THEN "ok" ELSE "failed")
    /\ UNCHANGED <<registries, task>>

Step(c) ==
    \/ CannotRead(c) \/ Lock(c)
    \/ ParseTreeString(c) \/ CheckBlossomItem(c) \/ AddTree(c) \/ AddResource(c)
    \/ AddTemplate(c) \/ AddFile(c)
    \/ DoesBlossomExist(c) \/ AddBlossom(c)
    \/ TriggerTree(c) \/ ProcessResource(c) \/ ProcessBlossom(c)
    \/ ReturnTrigger(c)
    \/ TriggerBlossom(c) \/ Get(c)

Next == \E c \in Caller : Begin(c) \/ Step(c)

Spec == Init /\ [][Next]_vars

\* Threads run, and runTask returns.
Fairness == \A c \in Caller : WF_vars(Step(c))
FairSpec == Spec /\ Fairness

-----------------------------------------------------------------------------
Stays(map, mapNext) ==
    \A k \in DOMAIN map : k \in DOMAIN mapNext /\ mapNext[k] = map[k]

\* Every registry keeps what it has.
RegistriesStay ==
    /\ Stays(blossoms, blossoms')
    /\ Stays(trees, trees')
    /\ Stays(resources, resources')
    /\ Stays(templates, templates')
    /\ Stays(files, files')

\* What is registered stays registered and is never replaced, also when two
\* callers register the same name: pointers that getBlossom and getFile have
\* handed out, and what validated scripts rely on, stay valid.
FirstStays == [][RegistriesStay]_registries

Has(map, k, v) == k \in DOMAIN map /\ map[k] = v

\* What a single call was to add to the garden is there.
Registered(job) ==
    /\ job.op = "addTree" => Has(trees, TreeId(job), Parsed[job.content])
    /\ job.op = "addResource" =>
            Has(resources, TreeId(job), Parsed[job.content])
    /\ job.op = "addTemplate" => Has(templates, job.id, job.content)
    /\ job.op = "addFile" => Has(files, job.id, job.content)

\* An add method of the garden that returns true has registered what it was
\* given and not found something else under that name, so every file is there
\* when readFilesInDir succeeds, whatever other callers add in between.
SuccessMeansMine ==
    \A c \in Caller : \A job \in done[c] : Registered(job)

\* The same for addBlossom.
BlossomIsMine ==
    \A c \in Caller : \A job \in done[c] :
        job.op = "addBlossom" => blossoms[job.key] = job.blossom

\* A tree that was accepted never meets a blossom type nobody has registered,
\* in its own items or in those of resources that were added later.
NoUnknownBlossom == \A c \in Caller : answer[c] # "unknown blossom-type"

\* Every runTask gets the fields it requires, with their types.  For trees the
\* validator has to see to it when they are added, long before they are
\* executed and while other callers register blossoms and resources.
TasksAreFed ==
    \A c \in Caller : task[c] # NoTask =>
        LET defs == Fields[task[c].blossom].input
        IN  /\ Required(defs, "INPUT") \subseteq DOMAIN task[c].input
            /\ CheckBlossomValues(defs, task[c].input, "INPUT")

\* Every call returns, also those that fail half-way or wait for m_lock.
EveryCallReturns == \A c \in Caller : pc[c] # "idle" ~> pc[c] = "idle"
=============================================================================
