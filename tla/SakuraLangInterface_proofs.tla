--------------------- MODULE SakuraLangInterface_proofs ---------------------
(***************************************************************************)
(* For any callers, calls and contents: nothing that is registered is ever *)
(* replaced, an add method of the garden that returns true has registered  *)
(* what it was given, no accepted tree meets a blossom that is not known,  *)
(* and every runTask gets the fields it requires.                          *)
(***************************************************************************)
EXTENDS SakuraLangInterface, BlossomFields_proofs, TLAPS

\* std::map::insert leaves every entry alone that is there already.
LEMMA InsertedStays ==
    ASSUME NEW map, NEW k, NEW v
    PROVE  Stays(map, Inserted(map, k, v))
<1> DEFINE new == [n \in {k} |-> v]
<1>1. DOMAIN new = {k}
    OBVIOUS
<1>2. Inserted(map, k, v) =
        [n \in DOMAIN map \cup {k} |->
            IF n \in {k} /\ n \notin DOMAIN map THEN new[n] ELSE map[n]]
  <2>1. \A n : (n \in {k} /\ ("ONLY_NON_EXISTING" = "ONLY_NON_EXISTING" =>
                    n \notin DOMAIN map)) <=> (n \in {k} /\ n \notin DOMAIN map)
    OBVIOUS
  <2>2. "ONLY_NON_EXISTING" # "ONLY_EXISTING"
    OBVIOUS
  <2> QED
    BY <1>1, <2>1, <2>2 DEF Inserted, OverrideItems
<1> HIDE DEF new
<1>3. SUFFICES ASSUME NEW n \in DOMAIN map
      PROVE  /\ n \in DOMAIN Inserted(map, k, v)
             /\ Inserted(map, k, v)[n] = map[n]
    BY DEF Stays
<1> QED
    BY <1>2, <1>3

\* A registry that does not change keeps what it has.
LEMMA SameStays ==
    ASSUME NEW map, NEW mapNext, mapNext = map
    PROVE  Stays(map, mapNext)
BY DEF Stays

LEMMA UnchangedStay ==
    ASSUME UNCHANGED registries
    PROVE  RegistriesStay
<1>1. /\ blossoms' = blossoms /\ trees' = trees /\ resources' = resources
      /\ templates' = templates /\ files' = files
    BY DEF registries
<1> QED
    BY <1>1, SameStays DEF RegistriesStay

\* Every step of a caller keeps what is registered.
LEMMA StepStays ==
    ASSUME NEW c \in Caller, Step(c)
    PROVE  RegistriesStay
<1>1. CASE CannotRead(c) \/ Lock(c) \/ ParseTreeString(c) \/ CheckBlossomItem(c)
            \/ DoesBlossomExist(c)
    BY <1>1, UnchangedStay
    DEF CannotRead, Lock, ParseTreeString, CheckBlossomItem, DoesBlossomExist
<1>2. CASE TriggerTree(c) \/ ProcessResource(c) \/ ProcessBlossom(c)
            \/ ReturnTrigger(c) \/ TriggerBlossom(c) \/ Get(c)
    BY <1>2, UnchangedStay
    DEF TriggerTree, ProcessResource, ProcessBlossom, ReturnTrigger,
        TriggerBlossom, Get
<1>3. CASE AddTree(c)
  <2>1. /\ trees' = Inserted(trees, TreeId(Job(c)), Parsed[Job(c).content])
        /\ blossoms' = blossoms /\ resources' = resources
        /\ templates' = templates /\ files' = files
    BY <1>3 DEF AddTree
  <2> QED
    BY <2>1, InsertedStays, SameStays DEF RegistriesStay
<1>4. CASE AddResource(c)
  <2>1. /\ resources' =
            Inserted(resources, TreeId(Job(c)), Parsed[Job(c).content])
        /\ blossoms' = blossoms /\ trees' = trees
        /\ templates' = templates /\ files' = files
    BY <1>4 DEF AddResource
  <2> QED
    BY <2>1, InsertedStays, SameStays DEF RegistriesStay
<1>5. CASE AddTemplate(c)
  <2>1. /\ templates' = Inserted(templates, Job(c).id, Job(c).content)
        /\ blossoms' = blossoms /\ trees' = trees
        /\ resources' = resources /\ files' = files
    BY <1>5 DEF AddTemplate
  <2> QED
    BY <2>1, InsertedStays, SameStays DEF RegistriesStay
<1>6. CASE AddFile(c)
  <2>1. /\ files' = Inserted(files, Job(c).id, Job(c).content)
        /\ blossoms' = blossoms /\ trees' = trees
        /\ resources' = resources /\ templates' = templates
    BY <1>6 DEF AddFile
  <2> QED
    BY <2>1, InsertedStays, SameStays DEF RegistriesStay
<1>7. CASE AddBlossom(c)
  <2>1. /\ blossoms' = Inserted(blossoms, Job(c).key, Job(c).blossom)
        /\ trees' = trees /\ resources' = resources
        /\ templates' = templates /\ files' = files
    BY <1>7 DEF AddBlossom
  <2> QED
    BY <2>1, InsertedStays, SameStays DEF RegistriesStay
<1> QED
    BY <1>1, <1>2, <1>3, <1>4, <1>5, <1>6, <1>7 DEF Step

\* For all callers and calls nothing registered is lost or replaced, although
\* addBlossom looks and inserts without a lock: insert does not overwrite.
THEOREM NothingIsReplaced == Spec => FirstStays
<1>1. [Next]_vars => [RegistriesStay]_registries
  <2> SUFFICES ASSUME [Next]_vars
               PROVE  [RegistriesStay]_registries
    OBVIOUS
  <2>1. CASE UNCHANGED vars
    BY <2>1 DEF vars
  <2>2. CASE Next
    <3>1. PICK c \in Caller : Begin(c) \/ Step(c)
      BY <2>2 DEF Next
    <3>2. CASE Begin(c)
      BY <3>2, UnchangedStay DEF Begin
    <3>3. CASE Step(c)
      BY <3>3, StepStays
    <3> QED
      BY <3>1, <3>2, <3>3
  <2> QED
    BY <2>1, <2>2
<1> QED
    BY <1>1, PTL DEF Spec, FirstStays

-----------------------------------------------------------------------------
\* What a call returns depends on what it is: only trees are executed, and
\* only addBlossom inserts without the lock.
PcMatchesJob ==
    /\ DOMAIN pc = Caller
    /\ DOMAIN jobs = Caller
    /\ DOMAIN done = Caller
    /\ \A c \in Caller : /\ pc[c] = "run" => Job(c).op = "triggerTree"
                         /\ pc[c] = "insert" => Job(c).op = "addBlossom"

IInv == PcMatchesJob /\ SuccessMeansMine

\* What has been registered for a call is there after any step.
LEMMA RegisteredStays ==
    ASSUME NEW job, Registered(job), RegistriesStay
    PROVE  Registered(job)'
<1>1. ASSUME NEW map, NEW mapNext, NEW k, NEW v,
             Stays(map, mapNext), Has(map, k, v)
      PROVE  Has(mapNext, k, v)
    BY <1>1 DEF Stays, Has
<1>2. TreeId(job)' = TreeId(job)
    BY DEF TreeId
<1>3. job.op = "addTree" => Has(trees', TreeId(job), Parsed[job.content])
    BY <1>1 DEF Registered, RegistriesStay
<1>4. job.op = "addResource" =>
        Has(resources', TreeId(job), Parsed[job.content])
    BY <1>1 DEF Registered, RegistriesStay
<1>5. job.op = "addTemplate" => Has(templates', job.id, job.content)
    BY <1>1 DEF Registered, RegistriesStay
<1>6. job.op = "addFile" => Has(files', job.id, job.content)
    BY <1>1 DEF Registered, RegistriesStay
<1> QED
    BY <1>2, <1>3, <1>4, <1>5, <1>6 DEF Registered, TreeId

\* A call leaves only one caller changed, and adds at most the call itself to
\* those that have succeeded.
LEMMA ReturnKeeps ==
    ASSUME IInv, RegistriesStay, NEW c \in Caller, NEW ret, Return(c, ret),
           NEW job, job = Job(c), ret = "ok" => Registered(job)'
    PROVE  IInv'
<1>1. /\ DOMAIN done' = Caller /\ DOMAIN jobs' = Caller
      /\ DOMAIN pc' = Caller
      /\ pc'[c] \in {"idle", "next"}
      /\ \A d \in Caller : d # c => pc'[d] = pc[d] /\ jobs'[d] = jobs[d]
  <2>1. PICK where \in {"idle", "next"} : pc' = [pc EXCEPT ![c] = where]
    BY Zenon DEF Return, Go
  <2>2. PICK left : jobs' = [jobs EXCEPT ![c] = left]
    BY Zenon DEF Return
  <2>3. PICK succeeded : done' = [done EXCEPT ![c] = succeeded]
    BY Zenon DEF Return
  <2> QED
    BY <2>1, <2>2, <2>3 DEF IInv, PcMatchesJob
<1>2. PcMatchesJob'
    BY <1>1 DEF IInv, PcMatchesJob, Job
<1>3. ASSUME NEW d \in Caller, NEW old \in done'[d]
      PROVE  Registered(old)'
  <2>1. CASE old \in done[d]
    BY <2>1, RegisteredStays DEF IInv, SuccessMeansMine
  <2>2. CASE old \notin done[d]
    <3>1. ret = "ok" /\ old = job
      BY <1>3, <2>2 DEF Return, IInv, PcMatchesJob
    <3> QED
      BY <3>1
  <2> QED
    BY <2>1, <2>2
<1> QED
    BY <1>2, <1>3 DEF IInv, SuccessMeansMine

\* A step that goes on with a call keeps what has succeeded.
LEMMA GoKeeps ==
    ASSUME IInv, RegistriesStay, NEW c \in Caller, NEW where,
           pc' = [pc EXCEPT ![c] = where], UNCHANGED <<jobs, done>>,
           where = "run" => Job(c).op = "triggerTree",
           where = "insert" => Job(c).op = "addBlossom"
    PROVE  IInv'
<1>1. PcMatchesJob'
    BY DEF IInv, PcMatchesJob, Job
<1>2. SuccessMeansMine'
    BY RegisteredStays DEF IInv, SuccessMeansMine
<1> QED
    BY <1>1, <1>2 DEF IInv

\* So does a step that only works on the items of a tree.
LEMMA StayKeeps ==
    ASSUME IInv, RegistriesStay, UNCHANGED <<pc, jobs, done>>
    PROVE  IInv'
<1>1. PcMatchesJob'
    BY DEF IInv, PcMatchesJob, Job
<1>2. SuccessMeansMine'
    BY RegisteredStays DEF IInv, SuccessMeansMine
<1> QED
    BY <1>1, <1>2 DEF IInv

\* A name that was free has the new entry.
LEMMA InsertedHas ==
    ASSUME NEW map, NEW k, NEW v, k \notin DOMAIN map
    PROVE  Has(Inserted(map, k, v), k, v)
<1> DEFINE new == [n \in {k} |-> v]
<1>1. DOMAIN new = {k} /\ new[k] = v
    OBVIOUS
<1>2. k \in DOMAIN map \cup DOMAIN new
    BY <1>1
<1> HIDE DEF new
<1>3. "ONLY_NON_EXISTING" # "ONLY_EXISTING"
    OBVIOUS
<1>4. Inserted(map, k, v) = OverrideItems(map, new, "ONLY_NON_EXISTING")
    BY DEF Inserted, new
<1> QED
    BY <1>1, <1>2, <1>3, <1>4 DEF OverrideItems, Has

LEMMA BeginKeeps ==
    ASSUME IInv, NEW c \in Caller, Begin(c)
    PROVE  IInv'
<1>1. RegistriesStay
    BY UnchangedStay DEF Begin
<1>2. /\ done' = [done EXCEPT ![c] = {}]
      /\ pc[c] = "idle"
      /\ DOMAIN jobs' = Caller
      /\ DOMAIN pc' = Caller
      /\ pc'[c] \in {"idle", "next"}
      /\ \A d \in Caller : d # c => pc'[d] = pc[d] /\ jobs'[d] = jobs[d]
  <2>1. done' = [done EXCEPT ![c] = {}] /\ pc[c] = "idle"
    BY DEF Begin
  <2>2. PICK call \in Call :
        IF call.op # "readFilesInDir"
        THEN /\ jobs' = [jobs EXCEPT ![c] = <<call>>]
             /\ Go(c, "next")
        ELSE IF call.path \notin DOMAIN Directory
        THEN UNCHANGED <<jobs, pc>>
        ELSE LET found == ReadFilesInDir(Directory[call.path])
             IN  /\ jobs' = [jobs EXCEPT ![c] = found]
                 /\ Go(c, IF found = <<>> THEN "idle" ELSE "next")
    BY Zenon DEF Begin
  <2>3. jobs' = jobs \/ \E left : jobs' = [jobs EXCEPT ![c] = left]
    BY <2>2, Zenon
  <2>4. pc' = pc \/ \E where \in {"idle", "next"} :
                        pc' = [pc EXCEPT ![c] = where]
    BY <2>2, Zenon DEF Go
  <2>5. DOMAIN jobs' = Caller
            /\ \A d \in Caller : d # c => jobs'[d] = jobs[d]
    BY <2>3 DEF IInv, PcMatchesJob
  <2>6. /\ DOMAIN pc' = Caller
        /\ pc'[c] \in {"idle", "next"}
        /\ \A d \in Caller : d # c => pc'[d] = pc[d]
    BY <2>1, <2>4 DEF IInv, PcMatchesJob
  <2> QED
    BY <2>1, <2>5, <2>6
<1>3. PcMatchesJob'
    BY <1>2 DEF IInv, PcMatchesJob, Job
<1>4. SuccessMeansMine'
    BY <1>1, <1>2, RegisteredStays DEF IInv, PcMatchesJob, SuccessMeansMine
<1> QED
    BY <1>3, <1>4 DEF IInv

\* Only calls that add to the garden have something to show for it.
LEMMA OthersRegistered ==
    ASSUME NEW job,
           job.op \notin {"addTree", "addResource", "addTemplate", "addFile"}
    PROVE  Registered(job)'
BY DEF Registered

\* A call that fails keeps the invariant, whatever it was.
LEMMA FailureKeeps ==
    ASSUME IInv, RegistriesStay, NEW c \in Caller, NEW ret, ret # "ok",
           Return(c, ret)
    PROVE  IInv'
<1>1. PICK job : job = Job(c)
    OBVIOUS
<1> QED
    BY <1>1, ReturnKeeps

LEMMA StepKeeps ==
    ASSUME IInv, NEW c \in Caller, Step(c)
    PROVE  IInv'
<1>0. PICK job : job = Job(c)
    OBVIOUS
<1>1. RegistriesStay
    BY StepStays
<1>2. CASE CannotRead(c)
    BY <1>1, <1>2, FailureKeeps DEF CannotRead
<1>3. CASE Lock(c)
  <2>1. pc' = [pc EXCEPT ![c] = "locked"] /\ UNCHANGED <<jobs, done>>
    BY <1>3 DEF Lock, Go
  <2> QED
    BY <1>1, <2>1, GoKeeps
<1>4. CASE AddTree(c)
  <2> DEFINE ret == IF TreeId(job) \in DOMAIN trees THEN "failed" ELSE "ok"
  <2>1. /\ job.op = "addTree"
        /\ trees' = Inserted(trees, TreeId(job), Parsed[job.content])
        /\ Return(c, ret)
    BY <1>0, <1>4, Zenon DEF AddTree
  <2>2. ret = "ok" => TreeId(job) \notin DOMAIN trees
    OBVIOUS
  <2>3. ret = "ok" => Has(trees', TreeId(job), Parsed[job.content])
    BY <2>1, <2>2, InsertedHas
  <2> HIDE DEF ret
  <2>4. ret = "ok" => Registered(job)'
    BY <2>1, <2>3 DEF Registered, TreeId
  <2> QED
    BY <1>0, <1>1, <2>1, <2>4, ReturnKeeps
<1>5. CASE AddResource(c)
  <2> DEFINE ret == IF TreeId(job) \in DOMAIN resources THEN "failed" ELSE "ok"
  <2>1. /\ job.op = "addResource"
        /\ resources' = Inserted(resources, TreeId(job), Parsed[job.content])
        /\ Return(c, ret)
    BY <1>0, <1>5, Zenon DEF AddResource
  <2>2. ret = "ok" => TreeId(job) \notin DOMAIN resources
    OBVIOUS
  <2>3. ret = "ok" => Has(resources', TreeId(job), Parsed[job.content])
    BY <2>1, <2>2, InsertedHas
  <2> HIDE DEF ret
  <2>4. ret = "ok" => Registered(job)'
    BY <2>1, <2>3 DEF Registered, TreeId
  <2> QED
    BY <1>0, <1>1, <2>1, <2>4, ReturnKeeps
<1>6. CASE AddTemplate(c)
  <2> DEFINE ret == IF job.id \in DOMAIN templates THEN "failed" ELSE "ok"
  <2>1. /\ job.op = "addTemplate"
        /\ templates' = Inserted(templates, job.id, job.content)
        /\ Return(c, ret)
    BY <1>0, <1>6, Zenon DEF AddTemplate
  <2>2. ret = "ok" => job.id \notin DOMAIN templates
    OBVIOUS
  <2>3. ret = "ok" => Has(templates', job.id, job.content)
    BY <2>1, <2>2, InsertedHas
  <2> HIDE DEF ret
  <2>4. ret = "ok" => Registered(job)'
    BY <2>1, <2>3 DEF Registered
  <2> QED
    BY <1>0, <1>1, <2>1, <2>4, ReturnKeeps
<1>7. CASE AddFile(c)
  <2> DEFINE ret == IF job.id \in DOMAIN files THEN "failed" ELSE "ok"
  <2>1. /\ job.op = "addFile"
        /\ files' = Inserted(files, job.id, job.content)
        /\ Return(c, ret)
    BY <1>0, <1>7, Zenon DEF AddFile
  <2>2. ret = "ok" => job.id \notin DOMAIN files
    OBVIOUS
  <2>3. ret = "ok" => Has(files', job.id, job.content)
    BY <2>1, <2>2, InsertedHas
  <2> HIDE DEF ret
  <2>4. ret = "ok" => Registered(job)'
    BY <2>1, <2>3 DEF Registered
  <2> QED
    BY <1>0, <1>1, <2>1, <2>4, ReturnKeeps
<1>8. CASE ParseTreeString(c)
  <2>1. CASE Return(c, "failed")
    BY <1>1, <2>1, FailureKeeps
  <2>2. CASE pc' = [pc EXCEPT ![c] = "validate"] /\ UNCHANGED <<jobs, done>>
    BY <1>1, <2>2, GoKeeps
  <2> QED
    BY <1>8, <2>1, <2>2 DEF ParseTreeString, Go
<1>9. CASE CheckBlossomItem(c)
  <2>1. Return(c, "failed") \/ UNCHANGED <<pc, jobs, done>>
    BY <1>9 DEF CheckBlossomItem
  <2> QED
    BY <1>1, <2>1, FailureKeeps, StayKeeps
<1>10. CASE DoesBlossomExist(c)
  <2>1. CASE Return(c, "failed")
    BY <1>1, <2>1, FailureKeeps
  <2>2. CASE /\ pc' = [pc EXCEPT ![c] = "insert"] /\ UNCHANGED <<jobs, done>>
             /\ Job(c).op = "addBlossom"
    BY <1>1, <2>2, GoKeeps
  <2> QED
    BY <1>10, <2>1, <2>2 DEF DoesBlossomExist, Go
<1>11. CASE AddBlossom(c)
  <2>1. job.op = "addBlossom" /\ Return(c, "ok")
    BY <1>0, <1>11 DEF AddBlossom, IInv, PcMatchesJob
  <2>2. Registered(job)'
    BY <2>1, OthersRegistered
  <2> QED
    BY <1>0, <1>1, <2>1, <2>2, ReturnKeeps
<1>12. CASE TriggerTree(c)
  <2>1. CASE Return(c, "failed")
    BY <1>1, <2>1, FailureKeeps
  <2>2. CASE /\ pc' = [pc EXCEPT ![c] = "run"] /\ UNCHANGED <<jobs, done>>
             /\ Job(c).op = "triggerTree"
    BY <1>1, <2>2, GoKeeps
  <2> QED
    BY <1>12, <2>1, <2>2 DEF TriggerTree, Go
<1>13. CASE ProcessResource(c)
    BY <1>1, <1>13, StayKeeps DEF ProcessResource
<1>14. CASE ProcessBlossom(c)
  <2>1. \/ UNCHANGED <<pc, jobs, done>>
        \/ \E ret \in {"failed", "unknown blossom-type"} : Return(c, ret)
    BY <1>14, Zenon DEF ProcessBlossom
  <2> QED
    BY <1>1, <2>1, FailureKeeps, StayKeeps
<1>15. CASE ReturnTrigger(c)
  <2>1. job.op = "triggerTree" /\ Return(c, "ok")
    BY <1>0, <1>15 DEF ReturnTrigger, IInv, PcMatchesJob
  <2>2. Registered(job)'
    BY <2>1, OthersRegistered
  <2> QED
    BY <1>0, <1>1, <2>1, <2>2, ReturnKeeps
<1>16. CASE TriggerBlossom(c)
  <2>1. job.op = "triggerBlossom" /\ \E ret : Return(c, ret)
    BY <1>0, <1>16, Zenon DEF TriggerBlossom
  <2>2. Registered(job)'
    BY <2>1, OthersRegistered
  <2> QED
    BY <1>0, <1>1, <2>1, <2>2, ReturnKeeps
<1>17. CASE Get(c)
  <2>1. /\ job.op \in {"getBlossom", "getTreeComment", "getTemplate", "getFile"}
        /\ \E ret : Return(c, ret)
    BY <1>0, <1>17, Zenon DEF Get
  <2>2. Registered(job)'
    BY <2>1, OthersRegistered
  <2> QED
    BY <1>0, <1>1, <2>1, <2>2, ReturnKeeps
<1> QED
    BY <1>2, <1>3, <1>4, <1>5, <1>6, <1>7, <1>8, <1>9, <1>10, <1>11, <1>12,
       <1>13, <1>14, <1>15, <1>16, <1>17 DEF Step

\* An add method of the garden that has returned true has registered what it
\* was given, for all callers and contents: m_lock makes look and insert one.
THEOREM SuccessIsOwn == Spec => []SuccessMeansMine
<1>1. Init => IInv
    BY DEF Init, IInv, PcMatchesJob, SuccessMeansMine
<1>2. IInv /\ [Next]_vars => IInv'
  <2> SUFFICES ASSUME IInv, [Next]_vars
               PROVE  IInv'
    OBVIOUS
  <2>1. CASE UNCHANGED vars
    <3>1. UNCHANGED <<pc, jobs, done>> /\ UNCHANGED registries
      BY <2>1 DEF vars, callerVars
    <3> QED
      BY <3>1, StayKeeps, UnchangedStay
  <2>2. CASE Next
    BY <2>2, BeginKeeps, StepKeeps DEF Next
  <2> QED
    BY <2>1, <2>2
<1>3. IInv => SuccessMeansMine
    BY DEF IInv
<1> QED
    BY <1>1, <1>2, <1>3, PTL DEF Spec

-----------------------------------------------------------------------------
\* The single calls that reading a directory leads to.
FoundIn(dir) ==
    {[op |-> "addTree", id |-> "", content |-> text] : text \in Range(dir.trees)}
    \cup {[op |-> "addFile", id |-> f.id, content |-> f.content] :
            f \in Range(dir.files)}
    \cup {[op |-> "addResource", id |-> "", content |-> text] :
            text \in Range(dir.resources)}
    \cup {[op |-> "addTemplate", id |-> f.id, content |-> f.content] :
            f \in Range(dir.templates)}

SingleCall == Call \cup UNION {FoundIn(Directory[path]) : path \in DOMAIN Directory}

LEMMA MappedList ==
    ASSUME NEW S, NEW list, \E n \in Nat : DOMAIN list = 1..n,
           NEW f, f = [i \in DOMAIN list |-> f[i]],
           \A i \in DOMAIN list : f[i] \in S
    PROVE  f \in Seq(S)
OBVIOUS

LEMMA FoundCalls ==
    ASSUME NEW path \in DOMAIN Directory
    PROVE  ReadFilesInDir(Directory[path]) \in Seq(SingleCall)
<1>0. PICK dir : dir = Directory[path]
    OBVIOUS
<1> DEFINE addTrees == [i \in DOMAIN dir.trees |->
                [op |-> "addTree", id |-> "", content |-> dir.trees[i]]]
           addFiles == [i \in DOMAIN dir.files |->
                [op |-> "addFile", id |-> dir.files[i].id,
                 content |-> dir.files[i].content]]
           addResources == [i \in DOMAIN dir.resources |->
                [op |-> "addResource", id |-> "", content |-> dir.resources[i]]]
           addTemplates == [i \in DOMAIN dir.templates |->
                [op |-> "addTemplate", id |-> dir.templates[i].id,
                 content |-> dir.templates[i].content]]
<1>1. ASSUME NEW list, list \in Seq(Range(list))
      PROVE  \E n \in Nat : DOMAIN list = 1..n
    BY <1>1
<1>2. /\ \E n \in Nat : DOMAIN dir.trees = 1..n
      /\ \E n \in Nat : DOMAIN dir.files = 1..n
      /\ \E n \in Nat : DOMAIN dir.resources = 1..n
      /\ \E n \in Nat : DOMAIN dir.templates = 1..n
  <2>1. /\ dir.trees \in Seq(Range(dir.trees))
        /\ dir.files \in Seq(Range(dir.files))
        /\ dir.resources \in Seq(Range(dir.resources))
        /\ dir.templates \in Seq(Range(dir.templates))
    BY <1>0, DirectoryAssumption
  <2> QED
    BY <1>1, <2>1
<1> DEFINE Trees == {[op |-> "addTree", id |-> "", content |-> text] :
                        text \in Range(dir.trees)}
           Files == {[op |-> "addFile", id |-> f.id, content |-> f.content] :
                        f \in Range(dir.files)}
           Resources == {[op |-> "addResource", id |-> "", content |-> text] :
                            text \in Range(dir.resources)}
           Templates == {[op |-> "addTemplate", id |-> f.id,
                          content |-> f.content] : f \in Range(dir.templates)}
<1>3. addTrees \in Seq(Trees)
  <2>1. /\ \A i \in DOMAIN dir.trees : addTrees[i] \in Trees
        /\ addTrees = [i \in DOMAIN dir.trees |-> addTrees[i]]
    BY Zenon DEF Range
  <2> HIDE DEF addTrees, Trees
  <2> QED
    BY <1>2, <2>1, MappedList
<1>4. addFiles \in Seq(Files)
  <2>1. /\ \A i \in DOMAIN dir.files : addFiles[i] \in Files
        /\ addFiles = [i \in DOMAIN dir.files |-> addFiles[i]]
    BY Zenon DEF Range
  <2> HIDE DEF addFiles, Files
  <2> QED
    BY <1>2, <2>1, MappedList
<1>5. addResources \in Seq(Resources)
  <2>1. /\ \A i \in DOMAIN dir.resources : addResources[i] \in Resources
        /\ addResources = [i \in DOMAIN dir.resources |-> addResources[i]]
    BY Zenon DEF Range
  <2> HIDE DEF addResources, Resources
  <2> QED
    BY <1>2, <2>1, MappedList
<1>6. addTemplates \in Seq(Templates)
  <2>1. /\ \A i \in DOMAIN dir.templates : addTemplates[i] \in Templates
        /\ addTemplates = [i \in DOMAIN dir.templates |-> addTemplates[i]]
    BY Zenon DEF Range
  <2> HIDE DEF addTemplates, Templates
  <2> QED
    BY <1>2, <2>1, MappedList
<1>f. FoundIn(dir) = Trees \cup Files \cup Resources \cup Templates
    BY Zenon DEF FoundIn
<1>7. ReadFilesInDir(dir) =
        addTrees \o addFiles \o addResources \o addTemplates
    BY DEF ReadFilesInDir
<1> HIDE DEF addTrees, addFiles, addResources, addTemplates,
             Trees, Files, Resources, Templates
<1>8. ReadFilesInDir(dir) \in Seq(FoundIn(dir))
    BY <1>3, <1>4, <1>5, <1>6, <1>7, <1>f
<1>9. FoundIn(dir) \subseteq SingleCall
    BY <1>0 DEF SingleCall
<1> QED
    BY <1>0, <1>8, <1>9

\* Only objects of a blossom class are registered.
LEMMA RegisteredBlossoms ==
    ASSUME NEW job \in SingleCall, job.op = "addBlossom"
    PROVE  job.blossom \in DOMAIN Fields
<1>1. CASE job \in Call
    BY <1>1, BlossomAssumption
<1>2. CASE \E path \in DOMAIN Directory : job \in FoundIn(Directory[path])
  <2>1. job.op \in {"addTree", "addFile", "addResource", "addTemplate"}
    <3>1. PICK dir : job \in FoundIn(dir)
      BY <1>2
    <3>2. CASE \E id, text : job = [op |-> "addTree", id |-> id,
                                    content |-> text]
      BY <3>2
    <3>3. CASE \E id, text : job = [op |-> "addFile", id |-> id,
                                    content |-> text]
      BY <3>3
    <3>4. CASE \E id, text : job = [op |-> "addResource", id |-> id,
                                    content |-> text]
      BY <3>4
    <3>5. CASE \E id, text : job = [op |-> "addTemplate", id |-> id,
                                    content |-> text]
      BY <3>5
    <3> QED
      BY <3>1, <3>2, <3>3, <3>4, <3>5, Zenon DEF FoundIn
  <2> QED
    BY <2>1
<1> QED
    BY <1>1, <1>2 DEF SingleCall

-----------------------------------------------------------------------------
\* All items of a list are valid as things stand.
Valid(items) == \A i \in DOMAIN items : ValidBlossomItem(items[i])

\* Registered blossoms have fields, and registered texts only have items that
\* are valid: they have been checked against the blossoms and resources of
\* that moment, and nothing of those is ever removed or replaced.
RegistriesAreValid ==
    /\ \A k \in DOMAIN blossoms : blossoms[k] \in DOMAIN Fields
    /\ \A k \in DOMAIN trees :
        trees[k] \in Range(Parsed) /\ Valid(trees[k].blossoms)
    /\ \A k \in DOMAIN resources :
        resources[k] \in Range(Parsed) /\ Valid(resources[k].blossoms)

\* The items of a text that is being added are valid or still to be checked.
IsChecked(c) ==
    LET items == Parsed[Job(c).content].blossoms
    IN  /\ Job(c).content \in DOMAIN Parsed
        /\ \A i \in DOMAIN items :
            ValidBlossomItem(items[i])
                \/ \E j \in DOMAIN todo[c] : todo[c][j] = items[i]

\* A task has the fields it requires, with their types.
IsFed(t) ==
    t # NoTask =>
        LET defs == Fields[t.blossom].input
        IN  /\ Required(defs, "INPUT") \subseteq DOMAIN t.input
            /\ CheckBlossomValues(defs, t.input, "INPUT")

\* Where a caller is, and what it has in hand there: the lock while it works
\* on a text, and only valid items while it executes one.
CallerInv(c) ==
    /\ jobs[c] \in Seq(SingleCall)
    /\ todo[c] \in Seq(BlossomItem)
    /\ pc[c] \in {"idle", "next", "locked", "validate", "run", "insert"}
    /\ pc[c] \in {"locked", "validate", "run"} <=> lock = c
    /\ pc[c] # "idle" => jobs[c] # <<>>
    /\ answer[c] \in {"none", "ok", "failed"}
    /\ pc[c] = "validate" => IsChecked(c)
    /\ pc[c] = "run" => Valid(todo[c])
    /\ IsFed(task[c])

FInv ==
    /\ IInv
    /\ DOMAIN todo = Caller /\ DOMAIN task = Caller /\ DOMAIN answer = Caller
    /\ lock \in Caller \cup {NoCaller}
    /\ calls \in 0..MaxCalls
    /\ RegistriesAreValid
    /\ \A c \in Caller : CallerInv(c)

\* What is valid stays valid, whatever other callers register.
LEMMA ValidStays ==
    ASSUME RegistriesStay, NEW item, ValidBlossomItem(item)
    PROVE  ValidBlossomItem(item)'
BY Zenon DEF RegistriesStay, Stays, ValidBlossomItem

LEMMA AllValidStay ==
    ASSUME RegistriesStay, NEW items, Valid(items)
    PROVE  Valid(items)'
BY ValidStays DEF Valid

\* A step of caller c is no step of the others.
Alters(c) ==
    /\ DOMAIN todo' = Caller /\ DOMAIN task' = Caller /\ DOMAIN answer' = Caller
    /\ \A d \in Caller : d # c =>
        /\ pc'[d] = pc[d] /\ jobs'[d] = jobs[d] /\ todo'[d] = todo[d]
        /\ task'[d] = task[d] /\ answer'[d] = answer[d]
    /\ calls' \in 0..MaxCalls
    /\ lock' = lock \/ (lock \in {NoCaller, c} /\ lock' \in {NoCaller, c})

LEMMA OthersKeep ==
    ASSUME FInv, RegistriesStay, NEW c \in Caller, Alters(c),
           NEW d \in Caller, d # c
    PROVE  CallerInv(d)'
<1>1. /\ pc'[d] = pc[d] /\ jobs'[d] = jobs[d] /\ todo'[d] = todo[d]
      /\ task'[d] = task[d] /\ answer'[d] = answer[d]
    BY DEF Alters
<1>2. CallerInv(d)
    BY DEF FInv
<1>3. lock' = d <=> lock = d
    BY CallerAssumption DEF Alters
<1>4. IsChecked(d) => IsChecked(d)'
    BY <1>1, ValidStays DEF IsChecked, Job
<1>5. Valid(todo[d]) => Valid(todo[d])'
    BY <1>1, ValidStays DEF Valid
<1> QED
    BY <1>1, <1>2, <1>3, <1>4, <1>5 DEF CallerInv

LEMMA Assembled ==
    ASSUME FInv, RegistriesStay, NEW c \in Caller, Alters(c),
           IInv', RegistriesAreValid', CallerInv(c)'
    PROVE  FInv'
<1>1. \A d \in Caller : CallerInv(d)'
    BY OthersKeep
<1>2. lock' \in Caller \cup {NoCaller}
    BY DEF Alters, FInv
<1> QED
    BY <1>1, <1>2 DEF FInv, Alters

LEMMA SameRegistries ==
    ASSUME FInv, UNCHANGED registries
    PROVE  RegistriesAreValid'
<1>1. blossoms' = blossoms /\ trees' = trees /\ resources' = resources
    BY DEF registries
<1>2. RegistriesStay
    BY UnchangedStay
<1> QED
    BY <1>1, <1>2, AllValidStay DEF FInv, RegistriesAreValid

\* What a step does to the tasks: at most that of c is new, and that is fed.
TaskStep(c) ==
    /\ DOMAIN task' = Caller
    /\ \A d \in Caller : d # c => task'[d] = task[d]
    /\ IsFed(task'[c])

LEMMA SameTask ==
    ASSUME FInv, NEW c \in Caller, UNCHANGED task
    PROVE  TaskStep(c)
BY DEF FInv, CallerInv, TaskStep

\* A call that returns releases the lock and leaves nothing behind.
LEMMA ReturnDone ==
    ASSUME FInv, RegistriesStay, IInv', RegistriesAreValid',
           NEW c \in Caller, pc[c] # "idle", TaskStep(c),
           NEW ret \in {"ok", "failed"}, Return(c, ret)
    PROVE  FInv'
<1> DEFINE left == IF ret = "ok" THEN Tail(jobs[c]) ELSE <<>>
<1>0. /\ DOMAIN pc = Caller /\ DOMAIN jobs = Caller
      /\ DOMAIN todo = Caller /\ DOMAIN answer = Caller
      /\ CallerInv(c)
    BY DEF FInv, IInv, PcMatchesJob
<1>1. left \in Seq(SingleCall)
    BY <1>0 DEF CallerInv
<1>2. jobs' = [jobs EXCEPT ![c] = left]
    BY DEF Return
<1> HIDE DEF left
<1>3. /\ jobs'[c] = left
      /\ \A d \in Caller : d # c => jobs'[d] = jobs[d]
    BY <1>0, <1>2
<1>4. /\ \A d \in Caller : d # c => pc'[d] = pc[d]
      /\ pc'[c] \in {"idle", "next"}
      /\ pc'[c] # "idle" => jobs'[c] # <<>>
    BY <1>0 DEF Return, Go
<1>5. /\ DOMAIN answer' = Caller
      /\ \A d \in Caller : d # c => answer'[d] = answer[d]
      /\ answer'[c] \in {"none", "ok", "failed"}
    BY <1>0 DEF Return, CallerInv
<1>6. /\ DOMAIN todo' = Caller /\ todo'[c] = <<>>
      /\ \A d \in Caller : d # c => todo'[d] = todo[d]
    BY <1>0 DEF Return
<1>7. /\ lock' = lock \/ (lock \in {NoCaller, c} /\ lock' \in {NoCaller, c})
      /\ lock' # c
    BY CallerAssumption DEF Return
<1>8. Alters(c)
    BY <1>3, <1>4, <1>5, <1>6, <1>7 DEF Alters, TaskStep, Return, FInv
<1>9. CallerInv(c)'
  <2>1. jobs'[c] \in Seq(SingleCall) /\ todo'[c] \in Seq(BlossomItem)
    BY <1>1, <1>3, <1>6
  <2> QED
    BY <2>1, <1>4, <1>5, <1>7 DEF CallerInv, TaskStep
<1> QED
    BY <1>8, <1>9, Assembled

\* What a step does to the items left to work on.
TodoStep(c, items) ==
    /\ DOMAIN todo' = Caller
    /\ todo'[c] = items
    /\ \A d \in Caller : d # c => todo'[d] = todo[d]

LEMMA TodoGoes ==
    ASSUME FInv, NEW c \in Caller, NEW items,
           \/ todo' = [todo EXCEPT ![c] = items]
           \/ todo' = todo /\ items = todo[c]
    PROVE  TodoStep(c, items)
BY DEF FInv, TodoStep

\* A call that goes on, with what it needs where it goes.
LEMMA WorkDone ==
    ASSUME FInv, UNCHANGED registries, IInv',
           NEW c \in Caller, pc[c] # "idle", TaskStep(c),
           UNCHANGED <<calls, jobs, answer>>,
           NEW where \in {"next", "locked", "validate", "run", "insert"},
           pc'[c] = where, \A d \in Caller : d # c => pc'[d] = pc[d],
           NEW items \in Seq(BlossomItem), TodoStep(c, items),
           lock' = lock \/ (lock = NoCaller /\ lock' = c),
           where \in {"locked", "validate", "run"} <=> lock' = c,
           where = "validate" => IsChecked(c)',
           where = "run" => Valid(items)'
    PROVE  FInv'
<1>0. DOMAIN todo = Caller /\ CallerInv(c)
    BY DEF FInv
<1>1. /\ DOMAIN todo' = Caller /\ todo'[c] = items
      /\ \A d \in Caller : d # c => todo'[d] = todo[d]
    BY DEF TodoStep
<1>2. Alters(c)
    BY <1>1 DEF Alters, TaskStep, FInv
<1>3. CallerInv(c)'
    BY <1>0, <1>1 DEF CallerInv, TaskStep
<1>4. RegistriesStay /\ RegistriesAreValid'
    BY UnchangedStay, SameRegistries
<1> QED
    BY <1>2, <1>3, <1>4, Assembled

\* Where pc goes.
LEMMA Goes ==
    ASSUME FInv, NEW c \in Caller, NEW where, Go(c, where)
    PROVE  pc'[c] = where /\ \A d \in Caller : d # c => pc'[d] = pc[d]
BY DEF Go, FInv, IInv, PcMatchesJob

\* Who works on something has it in hand.
LEMMA InHand ==
    ASSUME FInv, NEW c \in Caller, pc[c] # "idle"
    PROVE  /\ Job(c) \in SingleCall
           /\ todo[c] \in Seq(BlossomItem)
           /\ todo[c] # <<>> => /\ Head(todo[c]) \in BlossomItem
                                /\ Tail(todo[c]) \in Seq(BlossomItem)
<1>1. CallerInv(c)
    BY DEF FInv
<1> QED
    BY <1>1 DEF CallerInv, Job

\* What has been registered or is being registered is a text with known items.
LEMMA TextItems ==
    ASSUME NEW tree \in Range(Parsed)
    PROVE  tree.blossoms \in Seq(BlossomItem)
BY TextAssumption DEF Range

\* Every entry of a registry with an insertion is an old or the new one.
LEMMA InsertedFrom ==
    ASSUME NEW map, NEW k, NEW v, NEW n \in DOMAIN Inserted(map, k, v)
    PROVE  \/ Inserted(map, k, v)[n] = v
           \/ n \in DOMAIN map /\ Inserted(map, k, v)[n] = map[n]
<1> DEFINE new == [m \in {k} |-> v]
<1>1. DOMAIN new = {k} /\ new[k] = v
    OBVIOUS
<1>2. Inserted(map, k, v) = OverrideItems(map, new, "ONLY_NON_EXISTING")
    BY DEF Inserted, new
<1> HIDE DEF new
<1>3. "ONLY_NON_EXISTING" # "ONLY_EXISTING"
    OBVIOUS
<1> QED
    BY <1>1, <1>2, <1>3 DEF OverrideItems

-----------------------------------------------------------------------------
\* The calls that fail at once, and the getters.
LEMMA FailedKeeps ==
    ASSUME FInv, IInv', NEW c \in Caller, pc[c] # "idle",
           UNCHANGED registries, UNCHANGED task,
           NEW ret \in {"ok", "failed"}, Return(c, ret)
    PROVE  FInv'
BY UnchangedStay, SameRegistries, SameTask, ReturnDone

LEMMA LockKeeps ==
    ASSUME FInv, IInv', NEW c \in Caller, Lock(c)
    PROVE  FInv'
<1>1. /\ UNCHANGED registries /\ UNCHANGED <<calls, jobs, todo, answer>>
      /\ UNCHANGED task
      /\ pc[c] = "next" /\ lock = NoCaller /\ lock' = c /\ Go(c, "locked")
    BY DEF Lock
<1>2. PICK items \in Seq(BlossomItem) : items = todo[c]
    BY <1>1, InHand
<1>3. /\ pc'[c] = "locked" /\ \A d \in Caller : d # c => pc'[d] = pc[d]
      /\ TaskStep(c) /\ TodoStep(c, items)
    BY <1>1, <1>2, Goes, SameTask, TodoGoes
<1> QED
    BY <1>1, <1>2, <1>3, WorkDone

LEMMA ParseKeeps ==
    ASSUME FInv, IInv', NEW c \in Caller, ParseTreeString(c)
    PROVE  FInv'
<1>1. pc[c] = "locked" /\ UNCHANGED registries /\ UNCHANGED task
    BY DEF ParseTreeString
<1>2. CASE Return(c, "failed")
    BY <1>1, <1>2, FailedKeeps
<1>3. CASE ~Return(c, "failed")
  <2> DEFINE items == Parsed[Job(c).content].blossoms
  <2>1. /\ Job(c).content \in DOMAIN Parsed
        /\ todo' = [todo EXCEPT ![c] = items]
        /\ Go(c, "validate") /\ UNCHANGED <<lock, calls, jobs, answer>>
    BY <1>3 DEF ParseTreeString
  <2>2. items \in Seq(BlossomItem)
    BY <2>1, TextAssumption
  <2>3. /\ pc'[c] = "validate" /\ \A d \in Caller : d # c => pc'[d] = pc[d]
        /\ TaskStep(c) /\ TodoStep(c, items)
    BY <1>1, <2>1, Goes, SameTask, TodoGoes
  <2>4. lock = c
    BY <1>1 DEF FInv, CallerInv
  <2>5. IsChecked(c)'
    <3>1. Job(c)' = Job(c) /\ todo'[c] = items
      BY <2>1 DEF Job, FInv
    <3>2. \A i \in DOMAIN items : todo'[c][i] = items[i] /\ i \in DOMAIN todo'[c]
      BY <3>1
    <3>3. IsChecked(c)' <=>
            /\ Job(c).content \in DOMAIN Parsed
            /\ \A i \in DOMAIN items :
                ValidBlossomItem(items[i])'
                    \/ \E j \in DOMAIN todo'[c] : todo'[c][j] = items[i]
      BY <3>1 DEF IsChecked
    <3> QED
      BY <2>1, <3>2, <3>3
  <2> HIDE DEF items
  <2> QED
    BY <1>1, <2>1, <2>2, <2>3, <2>4, <2>5, WorkDone
<1> QED
    BY <1>2, <1>3

\* The first of the items left to check has turned out valid.
LEMMA CheckKeeps ==
    ASSUME FInv, IInv', NEW c \in Caller, CheckBlossomItem(c)
    PROVE  FInv'
<1>1. /\ pc[c] = "validate" /\ todo[c] # <<>>
      /\ UNCHANGED registries /\ UNCHANGED task
    BY DEF CheckBlossomItem
<1>2. CASE Return(c, "failed")
    BY <1>1, <1>2, FailedKeeps
<1>3. CASE ~Return(c, "failed")
  <2>1. /\ ValidBlossomItem(Head(todo[c]))
        /\ todo' = [todo EXCEPT ![c] = Tail(todo[c])]
        /\ UNCHANGED <<lock, calls, pc, jobs, answer>>
    BY <1>3 DEF CheckBlossomItem
  <2>2. PICK left \in Seq(BlossomItem) : left = Tail(todo[c])
    BY <1>1, InHand
  <2>3. lock = c /\ IsChecked(c)
    BY <1>1 DEF FInv, CallerInv
  <2>4. IsChecked(c)'
    <3>i. PICK items : items = Parsed[Job(c).content].blossoms
      OBVIOUS
    <3>0. DOMAIN todo = Caller /\ todo[c] \in Seq(BlossomItem)
      BY DEF FInv, CallerInv
    <3>1. Job(c)' = Job(c) /\ todo'[c] = left
      BY <2>1, <2>2, <3>0 DEF Job
    <3>2. IsChecked(c)' <=>
            /\ Job(c).content \in DOMAIN Parsed
            /\ \A i \in DOMAIN items :
                ValidBlossomItem(items[i])'
                    \/ \E j \in DOMAIN left : left[j] = items[i]
      BY <3>i, <3>1 DEF IsChecked
    <3>3. \A j \in DOMAIN todo[c] :
            todo[c][j] = Head(todo[c])
                \/ (j - 1 \in DOMAIN left /\ left[j - 1] = todo[c][j])
      BY <1>1, <2>2, <3>0
    <3>4. ASSUME NEW i \in DOMAIN items, ValidBlossomItem(items[i])
          PROVE  ValidBlossomItem(items[i])'
      BY <1>1, <3>4, UnchangedStay, ValidStays
    <3>5. Job(c).content \in DOMAIN Parsed
            /\ \A i \in DOMAIN items :
                ValidBlossomItem(items[i])
                    \/ \E j \in DOMAIN todo[c] : todo[c][j] = items[i]
      BY <2>3, <3>i DEF IsChecked
    <3>6. ASSUME NEW i \in DOMAIN items
          PROVE  ValidBlossomItem(items[i])
                    \/ \E j \in DOMAIN left : left[j] = items[i]
      BY <2>1, <3>3, <3>5, <3>6
    <3> QED
      BY <3>2, <3>4, <3>5, <3>6
  <2>5. TaskStep(c) /\ TodoStep(c, left)
    BY <1>1, <2>1, <2>2, SameTask, TodoGoes
  <2> QED
    BY <1>1, <2>1, <2>2, <2>3, <2>4, <2>5, WorkDone
<1> QED
    BY <1>2, <1>3

\* A text is registered when no item of it is left to check.
LEMMA AllChecked ==
    ASSUME FInv, NEW c \in Caller, pc[c] = "validate", todo[c] = <<>>
    PROVE  Parsed[Job(c).content] \in Range(Parsed)
           /\ Valid(Parsed[Job(c).content].blossoms)
<1>1. IsChecked(c)
    BY DEF FInv, CallerInv
<1>2. DOMAIN todo[c] = {}
    OBVIOUS
<1> QED
    BY <1>1, <1>2 DEF IsChecked, Valid, Range

LEMMA AddTreeKeeps ==
    ASSUME FInv, IInv', RegistriesStay, NEW c \in Caller, AddTree(c)
    PROVE  FInv'
<1>0. PICK k, tree : k = TreeId(Job(c)) /\ tree = Parsed[Job(c).content]
    OBVIOUS
<1>1. /\ pc[c] = "validate" /\ todo[c] = <<>>
      /\ trees' = Inserted(trees, k, tree)
      /\ UNCHANGED <<blossoms, resources>> /\ UNCHANGED task
    BY <1>0 DEF AddTree
<1>2. PICK ret \in {"ok", "failed"} : Return(c, ret)
    BY Zenon DEF AddTree
<1>3. tree \in Range(Parsed) /\ Valid(tree.blossoms)
    BY <1>0, <1>1, AllChecked
<1>4. \A n \in DOMAIN trees' :
        \/ trees'[n] = tree
        \/ n \in DOMAIN trees /\ trees'[n] = trees[n]
    BY <1>1, InsertedFrom
<1>5. RegistriesAreValid'
    BY <1>1, <1>3, <1>4, AllValidStay DEF RegistriesAreValid, FInv
<1> QED
    BY <1>1, <1>2, <1>5, SameTask, ReturnDone

LEMMA AddResourceKeeps ==
    ASSUME FInv, IInv', RegistriesStay, NEW c \in Caller, AddResource(c)
    PROVE  FInv'
<1>0. PICK k, tree : k = TreeId(Job(c)) /\ tree = Parsed[Job(c).content]
    OBVIOUS
<1>1. /\ pc[c] = "validate" /\ todo[c] = <<>>
      /\ resources' = Inserted(resources, k, tree)
      /\ UNCHANGED <<blossoms, trees>> /\ UNCHANGED task
    BY <1>0 DEF AddResource
<1>2. PICK ret \in {"ok", "failed"} : Return(c, ret)
    BY Zenon DEF AddResource
<1>3. tree \in Range(Parsed) /\ Valid(tree.blossoms)
    BY <1>0, <1>1, AllChecked
<1>4. \A n \in DOMAIN resources' :
        \/ resources'[n] = tree
        \/ n \in DOMAIN resources /\ resources'[n] = resources[n]
    BY <1>1, InsertedFrom
<1>5. RegistriesAreValid'
    BY <1>1, <1>3, <1>4, AllValidStay DEF RegistriesAreValid, FInv
<1> QED
    BY <1>1, <1>2, <1>5, SameTask, ReturnDone

\* Templates and files have no part in what is valid.
LEMMA AddTemplateOrFileKeeps ==
    ASSUME FInv, IInv', RegistriesStay, NEW c \in Caller,
           AddTemplate(c) \/ AddFile(c)
    PROVE  FInv'
<1>1. /\ pc[c] = "locked" /\ UNCHANGED task
      /\ UNCHANGED <<blossoms, trees, resources>>
    BY DEF AddTemplate, AddFile
<1>2. PICK ret \in {"ok", "failed"} : Return(c, ret)
    BY Zenon DEF AddTemplate, AddFile
<1>3. RegistriesAreValid'
    BY <1>1, AllValidStay DEF RegistriesAreValid, FInv
<1> QED
    BY <1>1, <1>2, <1>3, SameTask, ReturnDone

LEMMA DoesBlossomExistKeeps ==
    ASSUME FInv, IInv', NEW c \in Caller, DoesBlossomExist(c)
    PROVE  FInv'
<1>1. pc[c] = "next" /\ UNCHANGED registries /\ UNCHANGED task
    BY DEF DoesBlossomExist
<1>2. CASE Return(c, "failed")
    BY <1>1, <1>2, FailedKeeps
<1>3. CASE ~Return(c, "failed")
  <2>1. Go(c, "insert") /\ UNCHANGED <<lock, calls, jobs, todo, answer>>
    BY <1>3 DEF DoesBlossomExist
  <2>2. PICK items \in Seq(BlossomItem) : items = todo[c]
    BY <1>1, InHand
  <2>3. /\ pc'[c] = "insert" /\ \A d \in Caller : d # c => pc'[d] = pc[d]
        /\ TaskStep(c) /\ TodoStep(c, items)
    BY <1>1, <2>1, <2>2, Goes, SameTask, TodoGoes
  <2>4. lock # c
    BY <1>1 DEF FInv, CallerInv
  <2> QED
    BY <1>1, <2>1, <2>2, <2>3, <2>4, WorkDone
<1> QED
    BY <1>2, <1>3

LEMMA AddBlossomKeeps ==
    ASSUME FInv, IInv', RegistriesStay, NEW c \in Caller, AddBlossom(c)
    PROVE  FInv'
<1>0. PICK k, b : k = Job(c).key /\ b = Job(c).blossom
    OBVIOUS
<1>1. /\ pc[c] = "insert" /\ blossoms' = Inserted(blossoms, k, b)
      /\ UNCHANGED <<trees, resources>> /\ UNCHANGED task
      /\ Return(c, "ok")
    BY <1>0 DEF AddBlossom
<1>2. b \in DOMAIN Fields
  <2>1. Job(c).op = "addBlossom"
    BY <1>1 DEF FInv, IInv, PcMatchesJob
  <2>2. Job(c) \in SingleCall
    BY <1>1, InHand
  <2> QED
    BY <1>0, <2>1, <2>2, RegisteredBlossoms
<1>3. \A n \in DOMAIN blossoms' :
        \/ blossoms'[n] = b
        \/ n \in DOMAIN blossoms /\ blossoms'[n] = blossoms[n]
    BY <1>1, InsertedFrom
<1>4. RegistriesAreValid'
    BY <1>1, <1>2, <1>3, AllValidStay DEF RegistriesAreValid, FInv
<1> QED
    BY <1>1, <1>4, SameTask, ReturnDone

-----------------------------------------------------------------------------
\* A tree is executed with the items that have been checked when it was added.
LEMMA TriggerTreeKeeps ==
    ASSUME FInv, IInv', NEW c \in Caller, TriggerTree(c)
    PROVE  FInv'
<1>1. pc[c] = "locked" /\ UNCHANGED registries /\ UNCHANGED task
    BY DEF TriggerTree
<1>2. CASE Return(c, "failed")
    BY <1>1, <1>2, FailedKeeps
<1>3. CASE ~Return(c, "failed")
  <2>1. PICK id \in DOMAIN trees :
            /\ todo' = [todo EXCEPT ![c] = trees[id].blossoms]
            /\ Go(c, "run") /\ UNCHANGED <<lock, calls, jobs, answer>>
    BY <1>3 DEF TriggerTree
  <2>2. PICK items : items = trees[id].blossoms
    OBVIOUS
  <2>3. items \in Seq(BlossomItem) /\ Valid(items)
    BY <2>2, TextItems DEF FInv, RegistriesAreValid
  <2>4. Valid(items)'
    BY <1>1, <2>3, UnchangedStay, AllValidStay
  <2>5. /\ pc'[c] = "run" /\ \A d \in Caller : d # c => pc'[d] = pc[d]
        /\ TaskStep(c) /\ TodoStep(c, items)
    BY <1>1, <2>1, <2>2, Goes, SameTask, TodoGoes
  <2>6. lock = c
    BY <1>1 DEF FInv, CallerInv
  <2> QED
    BY <1>1, <2>1, <2>3, <2>4, <2>5, <2>6, WorkDone
<1> QED
    BY <1>2, <1>3

\* Valid lists make a valid list.
LEMMA ValidTogether ==
    ASSUME NEW own \in Seq(BlossomItem), Valid(own),
           NEW rest \in Seq(BlossomItem), Valid(rest),
           NEW items, items = own \o rest
    PROVE  items \in Seq(BlossomItem) /\ Valid(items)
<1>1. items \in Seq(BlossomItem)
    OBVIOUS
<1>2. ASSUME NEW i \in DOMAIN items
      PROVE  ValidBlossomItem(items[i])
  <2>1. i \in 1..(Len(own) + Len(rest))
    OBVIOUS
  <2>2. CASE i <= Len(own)
    BY <2>1, <2>2 DEF Valid
  <2>3. CASE i > Len(own)
    BY <2>1, <2>3 DEF Valid
  <2> QED
    BY <2>1, <2>2, <2>3
<1> QED
    BY <1>1, <1>2 DEF Valid

\* The items of a resource have been checked when that was added.
LEMMA ProcessResourceKeeps ==
    ASSUME FInv, IInv', NEW c \in Caller, ProcessResource(c)
    PROVE  FInv'
<1>1. /\ pc[c] = "run" /\ todo[c] # <<>> /\ UNCHANGED registries
      /\ UNCHANGED <<lock, calls, pc, jobs, answer>> /\ UNCHANGED task
    BY DEF ProcessResource
<1>2. PICK r \in DOMAIN resources :
        todo' = [todo EXCEPT ![c] = resources[r].blossoms \o Tail(todo[c])]
    BY DEF ProcessResource
<1>3. PICK own, rest, items :
        /\ own = resources[r].blossoms /\ rest = Tail(todo[c])
        /\ items = own \o rest
    OBVIOUS
<1>4. own \in Seq(BlossomItem) /\ Valid(own)
    BY <1>3, TextItems DEF FInv, RegistriesAreValid
<1>5. rest \in Seq(BlossomItem) /\ Valid(rest)
  <2>1. todo[c] \in Seq(BlossomItem) /\ Valid(todo[c])
    BY <1>1 DEF FInv, CallerInv
  <2> QED
    BY <1>1, <1>3, <2>1 DEF Valid
<1>6. items \in Seq(BlossomItem) /\ Valid(items)
    BY <1>3, <1>4, <1>5, ValidTogether
<1>7. Valid(items)'
    BY <1>1, <1>6, UnchangedStay, AllValidStay
<1>8. TaskStep(c) /\ TodoStep(c, items)
    BY <1>1, <1>2, <1>3, SameTask, TodoGoes
<1>9. lock = c
    BY <1>1 DEF FInv, CallerInv
<1> QED
    BY <1>1, <1>6, <1>7, <1>8, <1>9, WorkDone

\* A task that has every required field is fed: growBlossom fills in defaults
\* and refuses values of the wrong type.
LEMMA GrowFeeds ==
    ASSUME FInv, NEW c \in Caller, NEW blossom \in DOMAIN Fields, NEW input,
           Required(Fields[blossom].input, "INPUT") \subseteq DOMAIN input,
           NEW ret, GrowBlossom(c, blossom, input, ret)
    PROVE  TaskStep(c)
<1>1. CASE UNCHANGED task
    BY <1>1, SameTask
<1>2. CASE ~UNCHANGED task
  <2> DEFINE defs == Fields[blossom].input
  <2>1. PICK filled : filled = FillDefaultValues(defs, input)
    OBVIOUS
  <2>2. PICK t : /\ t = [blossom |-> blossom, input |-> filled]
                 /\ task' = [task EXCEPT ![c] = t]
                 /\ CheckBlossomValues(defs, filled, "INPUT")
    BY <1>2, <2>1 DEF GrowBlossom
  <2>3. Required(defs, "INPUT") \subseteq DOMAIN filled
    BY <2>1, FilledValues
  <2>4. IsFed(t)
    BY <2>2, <2>3 DEF IsFed
  <2>5. /\ DOMAIN task' = Caller /\ task'[c] = t
        /\ \A d \in Caller : d # c => task'[d] = task[d]
    BY <2>2 DEF FInv
  <2> QED
    BY <2>4, <2>5 DEF TaskStep
<1> QED
    BY <1>1, <1>2

\* A valid item that names no resource names a blossom, and has what that
\* requires; a valid item is never refused as unknown.
LEMMA ValidItemIsFed ==
    ASSUME FInv, NEW item \in BlossomItem, ValidBlossomItem(item),
           item.type \notin DOMAIN resources,
           NEW k, k = <<item.group, item.type>>
    PROVE  /\ k \in DOMAIN blossoms
           /\ blossoms[k] \in DOMAIN Fields
           /\ Required(Fields[blossoms[k]].input, "INPUT")
                    \subseteq DOMAIN Items(item.values)
<1>1. PICK f : f = Fields[blossoms[k]]
    OBVIOUS
<1>2. /\ k \in DOMAIN blossoms
      /\ ValidateInput(item.values, ValidationMap(f.input, f.output),
                       f.allowUnmatched)
    BY <1>1, Zenon DEF ValidBlossomItem
<1>3. blossoms[k] \in DOMAIN Fields
    BY <1>2 DEF FInv, RegistriesAreValid
<1>4. AreFields(f.input, f.output) /\ DOMAIN item.values \subseteq DOMAIN Rank
    BY <1>1, <1>3, BlossomAssumption, TextAssumption
<1>5. Required(f.input, "INPUT") \subseteq DOMAIN item.values
    BY <1>2, <1>4, ValidItemsAreComplete
<1>6. DOMAIN Items(item.values) = DOMAIN item.values
    BY DEF Items
<1> QED
    BY <1>1, <1>2, <1>3, <1>5, <1>6

LEMMA ProcessBlossomKeeps ==
    ASSUME FInv, IInv', NEW c \in Caller, ProcessBlossom(c)
    PROVE  FInv'
<1>1. /\ pc[c] = "run" /\ todo[c] # <<>> /\ UNCHANGED registries
    BY DEF ProcessBlossom
<1>2. PICK item, k : item = Head(todo[c]) /\ k = <<item.group, item.type>>
    OBVIOUS
<1>3. /\ todo[c] \in Seq(BlossomItem) /\ Valid(todo[c]) /\ lock = c
      /\ item \in BlossomItem
    BY <1>1, <1>2, InHand DEF FInv, CallerInv
<1>4. ValidBlossomItem(item) /\ item.type \notin DOMAIN resources
  <2>1. 1 \in DOMAIN todo[c] /\ item = todo[c][1]
    BY <1>1, <1>2, <1>3
  <2>2. item.type \notin DOMAIN resources
    BY <1>2 DEF ProcessBlossom
  <2> QED
    BY <1>3, <2>1, <2>2 DEF Valid
<1>5. /\ k \in DOMAIN blossoms /\ blossoms[k] \in DOMAIN Fields
      /\ Required(Fields[blossoms[k]].input, "INPUT")
                    \subseteq DOMAIN Items(item.values)
    BY <1>2, <1>3, <1>4, ValidItemIsFed
<1>6. PICK ret \in {"ok", "failed"} :
        /\ GrowBlossom(c, blossoms[k], Items(item.values), ret)
        /\ IF ret = "ok"
           THEN /\ todo' = [todo EXCEPT ![c] = Tail(todo[c])]
                /\ UNCHANGED <<lock, calls, pc, jobs, answer>>
           ELSE Return(c, ret)
    BY <1>2, <1>5, Zenon DEF ProcessBlossom
<1>7. TaskStep(c)
    BY <1>5, <1>6, GrowFeeds
<1>8. CASE ret = "ok"
  <2>1. PICK rest \in Seq(BlossomItem) : rest = Tail(todo[c])
    BY <1>1, InHand
  <2>2. Valid(rest)
    BY <1>1, <1>3, <2>1 DEF Valid
  <2>3. Valid(rest)'
    BY <1>1, <2>2, UnchangedStay, AllValidStay
  <2>4. TodoStep(c, rest) /\ UNCHANGED <<lock, calls, pc, jobs, answer>>
    BY <1>6, <1>8, <2>1, TodoGoes
  <2> QED
    BY <1>1, <1>3, <1>7, <2>3, <2>4, WorkDone
<1>9. CASE ret # "ok"
  <2>1. RegistriesStay /\ RegistriesAreValid'
    BY <1>1, UnchangedStay, SameRegistries
  <2> QED
    BY <1>1, <1>6, <1>7, <1>9, <2>1, ReturnDone
<1> QED
    BY <1>8, <1>9

\* A direct call is refused unless its input is complete.
LEMMA TriggerBlossomKeeps ==
    ASSUME FInv, IInv', NEW c \in Caller, TriggerBlossom(c)
    PROVE  FInv'
<1>1. pc[c] = "next" /\ UNCHANGED registries
    BY DEF TriggerBlossom
<1>2. CASE Return(c, "failed") /\ UNCHANGED task
    BY <1>1, <1>2, FailedKeeps
<1>3. CASE ~(Return(c, "failed") /\ UNCHANGED task)
  <2>1. PICK b, input : b = blossoms[Job(c).key] /\ input = Job(c).input
    OBVIOUS
  <2>2. /\ Job(c).key \in DOMAIN blossoms
        /\ ValidateFieldsCompleteness(input, Fields[b].input, "INPUT",
                                      Fields[b].allowUnmatched)
        /\ \E ret \in {"ok", "failed"} :
            GrowBlossom(c, b, input, ret) /\ Return(c, ret)
    BY <1>3, <2>1, Zenon DEF TriggerBlossom
  <2>3. PICK ret \in {"ok", "failed"} :
            GrowBlossom(c, b, input, ret) /\ Return(c, ret)
    BY <2>2
  <2>4. b \in DOMAIN Fields
    BY <2>1, <2>2 DEF FInv, RegistriesAreValid
  <2>5. Required(Fields[b].input, "INPUT") \subseteq DOMAIN input
    BY <2>2, Zenon DEF ValidateFieldsCompleteness
  <2>6. TaskStep(c)
    BY <2>3, <2>4, <2>5, GrowFeeds
  <2>7. RegistriesStay /\ RegistriesAreValid'
    BY <1>1, UnchangedStay, SameRegistries
  <2> QED
    BY <1>1, <2>3, <2>6, <2>7, ReturnDone
<1> QED
    BY <1>2, <1>3

\* The other calls return with what they have.
LEMMA OthersReturn ==
    ASSUME FInv, IInv', NEW c \in Caller,
           CannotRead(c) \/ ReturnTrigger(c) \/ Get(c)
    PROVE  FInv'
<1>1. pc[c] # "idle" /\ UNCHANGED registries /\ UNCHANGED task
    BY DEF CannotRead, ReturnTrigger, Get
<1>2. PICK ret \in {"ok", "failed"} : Return(c, ret)
    BY Zenon DEF CannotRead, ReturnTrigger, Get
<1> QED
    BY <1>1, <1>2, FailedKeeps

\* A call begins with single calls, or returns at once.
LEMMA BeginCallKeeps ==
    ASSUME FInv, IInv', NEW c \in Caller, Begin(c)
    PROVE  FInv'
<1>0. /\ DOMAIN pc = Caller /\ DOMAIN jobs = Caller
      /\ DOMAIN task = Caller /\ DOMAIN answer = Caller
      /\ CallerInv(c)
    BY DEF FInv, IInv, PcMatchesJob
<1>1. /\ pc[c] = "idle" /\ calls' \in 0..MaxCalls
      /\ task' = [task EXCEPT ![c] = NoTask]
      /\ UNCHANGED registries /\ UNCHANGED <<lock, todo>>
  <2>1. calls < MaxCalls /\ calls' = calls + 1 /\ calls \in 0..MaxCalls
    BY DEF Begin, FInv
  <2> QED
    BY <2>1, CallerAssumption DEF Begin
<1>2. PICK list \in Seq(SingleCall), where \in {"idle", "next"},
           res \in {"none", "ok", "failed"} :
        /\ \/ pc' = pc /\ where = "idle"
           \/ pc' = [pc EXCEPT ![c] = where]
        /\ \/ jobs' = jobs /\ list = jobs[c]
           \/ jobs' = [jobs EXCEPT ![c] = list]
        /\ answer' = [answer EXCEPT ![c] = res]
        /\ where = "next" => list # <<>>
  <2>1. PICK call \in Call :
            IF call.op # "readFilesInDir"
            THEN /\ jobs' = [jobs EXCEPT ![c] = <<call>>]
                 /\ Go(c, "next")
                 /\ answer' = [answer EXCEPT ![c] = "none"]
            ELSE IF call.path \notin DOMAIN Directory
            THEN /\ answer' = [answer EXCEPT ![c] = "failed"]
                 /\ UNCHANGED <<jobs, pc>>
            ELSE LET found == ReadFilesInDir(Directory[call.path])
                 IN  /\ jobs' = [jobs EXCEPT ![c] = found]
                     /\ Go(c, IF found = <<>> THEN "idle" ELSE "next")
                     /\ answer' = [answer EXCEPT ![c] =
                                    IF found = <<>> THEN "ok" ELSE "none"]
    BY Zenon DEF Begin
  <2>2. CASE call.op # "readFilesInDir"
    <3>1. <<call>> \in Seq(SingleCall) /\ <<call>> # <<>>
      BY DEF SingleCall
    <3> QED
      BY <2>1, <2>2, <3>1 DEF Go
  <2>3. CASE call.op = "readFilesInDir" /\ call.path \notin DOMAIN Directory
    <3>1. jobs[c] \in Seq(SingleCall)
      BY <1>0 DEF CallerInv
    <3> QED
      BY <2>1, <2>3, <3>1
  <2>4. CASE call.op = "readFilesInDir" /\ call.path \in DOMAIN Directory
    <3>1. PICK found \in Seq(SingleCall) :
            found = ReadFilesInDir(Directory[call.path])
      BY <2>4, FoundCalls
    <3> QED
      BY <2>1, <2>4, <3>1 DEF Go
  <2> QED
    BY <2>2, <2>3, <2>4
<1>3. /\ \A d \in Caller : d # c => pc'[d] = pc[d]
      /\ pc'[c] = where
    BY <1>0, <1>1, <1>2
<1>4. /\ \A d \in Caller : d # c => jobs'[d] = jobs[d]
      /\ jobs'[c] = list
    BY <1>0, <1>2
<1>5. /\ DOMAIN answer' = Caller /\ DOMAIN task' = Caller
      /\ \A d \in Caller : d # c => answer'[d] = answer[d] /\ task'[d] = task[d]
      /\ answer'[c] = res /\ task'[c] = NoTask
    BY <1>0, <1>1, <1>2
<1>6. Alters(c)
    BY <1>1, <1>3, <1>4, <1>5 DEF Alters, FInv
<1>7. CallerInv(c)'
    BY <1>0, <1>1, <1>2, <1>3, <1>4, <1>5 DEF CallerInv, IsFed
<1> QED
    BY <1>1, <1>6, <1>7, UnchangedStay, SameRegistries, Assembled

LEMMA InitHolds == Init => FInv
<1> SUFFICES ASSUME Init
             PROVE  FInv
    OBVIOUS
<1>1. IInv
    BY DEF Init, IInv, PcMatchesJob, SuccessMeansMine
<1>2. RegistriesAreValid
    BY DEF Init, RegistriesAreValid
<1>3. ASSUME NEW c \in Caller
      PROVE  CallerInv(c)
    BY <1>3, CallerAssumption DEF Init, CallerInv, IsFed
<1> QED
    BY <1>1, <1>2, <1>3, CallerAssumption DEF Init, FInv

LEMMA NextKeeps == FInv /\ [Next]_vars => FInv'
<1> SUFFICES ASSUME FInv, [Next]_vars
             PROVE  FInv'
    OBVIOUS
<1>1. CASE UNCHANGED vars
  <2>1. /\ UNCHANGED registries /\ UNCHANGED <<pc, jobs, done>>
        /\ UNCHANGED <<lock, calls, todo, task, answer>>
    BY <1>1 DEF vars, callerVars
  <2>2. RegistriesStay /\ IInv' /\ RegistriesAreValid'
    BY <2>1, UnchangedStay, SameRegistries, StayKeeps DEF FInv
  <2>3. ASSUME NEW c \in Caller
        PROVE  CallerInv(c)'
    <3>1. CallerInv(c)
      BY DEF FInv
    <3>2. IsChecked(c) => IsChecked(c)'
      BY <2>1, <2>2, ValidStays DEF IsChecked, Job
    <3>3. Valid(todo[c]) => Valid(todo[c])'
      BY <2>1, <2>2, ValidStays DEF Valid
    <3> QED
      BY <2>1, <3>1, <3>2, <3>3 DEF CallerInv
  <2> QED
    BY <2>1, <2>2, <2>3 DEF FInv
<1>2. ASSUME NEW c \in Caller, Begin(c)
      PROVE  FInv'
    BY <1>2, BeginKeeps, BeginCallKeeps DEF FInv
<1>3. ASSUME NEW c \in Caller, Step(c)
      PROVE  FInv'
  <2>1. IInv' /\ RegistriesStay
    BY <1>3, StepKeeps, StepStays DEF FInv
  <2>2. CASE CannotRead(c) \/ ReturnTrigger(c) \/ Get(c)
    BY <2>1, <2>2, OthersReturn
  <2>3. CASE Lock(c) \/ ParseTreeString(c) \/ CheckBlossomItem(c)
    BY <2>1, <2>3, LockKeeps, ParseKeeps, CheckKeeps
  <2>4. CASE \/ AddTree(c) \/ AddResource(c) \/ AddTemplate(c) \/ AddFile(c)
             \/ AddBlossom(c)
    BY <2>1, <2>4, AddTreeKeeps, AddResourceKeeps, AddTemplateOrFileKeeps,
       AddBlossomKeeps
  <2>5. CASE DoesBlossomExist(c) \/ TriggerTree(c) \/ ProcessResource(c)
    BY <2>1, <2>5, DoesBlossomExistKeeps, TriggerTreeKeeps,
       ProcessResourceKeeps
  <2>6. CASE ProcessBlossom(c) \/ TriggerBlossom(c)
    BY <2>1, <2>6, ProcessBlossomKeeps, TriggerBlossomKeeps
  <2> QED
    BY <1>3, <2>2, <2>3, <2>4, <2>5, <2>6 DEF Step
<1> QED
    BY <1>1, <1>2, <1>3 DEF Next

\* The registries hold what they are declared for, and m_lock is held exactly
\* by the caller that works on a text, for all callers, calls and texts.
THEOREM InterfaceTypes == Spec => []TypeOK
<1>1. FInv => TypeOK
    BY DEF FInv, RegistriesAreValid, CallerInv, TypeOK
<1> QED
    BY <1>1, InitHolds, NextKeeps, PTL DEF Spec

\* For all texts and whatever is registered between the validation of a tree
\* and its execution: no tree meets a blossom type nobody has registered.
THEOREM TypesAreKnown == Spec => []NoUnknownBlossom
<1>1. FInv => NoUnknownBlossom
    BY DEF FInv, CallerInv, NoUnknownBlossom
<1> QED
    BY <1>1, InitHolds, NextKeeps, PTL DEF Spec

\* For all fields and texts: every runTask, of a tree or of a direct call, gets
\* the fields it requires with their types.
THEOREM TasksGetRequiredFields == Spec => []TasksAreFed
<1>1. FInv => TasksAreFed
  <2> SUFFICES ASSUME FInv
               PROVE  TasksAreFed
    OBVIOUS
  <2>1. \A c \in Caller : IsFed(task[c])
    BY DEF FInv, CallerInv
  <2> QED
    BY <2>1, Zenon DEF IsFed, TasksAreFed
<1> QED
    BY <1>1, InitHolds, NextKeeps, PTL DEF Spec
=============================================================================
