------------------------------ MODULE ForkJoin ------------------------------
(***************************************************************************)
(* What the processing engine promises the scripts it runs: structured     *)
(* concurrency.  A triggered script is a task.  A task may hand parts of   *)
(* itself to subtasks; it goes on, and it ends, only after every one of    *)
(* them has ended, and it ends well only if every one of them ended well.  *)
(* Triggered scripts never overlap.                                        *)
(*                                                                         *)
(* There is no queue, no worker, no counter and no flag here: module       *)
(* SubtreeQueue shows that those implement this specification.             *)
(***************************************************************************)
CONSTANTS
    Task,       \* everything that is ever executed as a unit
    Top,        \* the tasks an external caller triggers
    NoTask      \* the parent of a task that has none

VARIABLES
    status,     \* status[t]: "none", "pending", "active" or "ended"
    outcome,    \* outcome[t]: "none" until t has ended, then "ok" or "failed"
    parent      \* parent[t]: the task that forked t

vars == <<status, outcome, parent>>

Subtasks(t) == {c \in Task : parent[c] = t}

Joined(t) == \A c \in Subtasks(t) : status[c] = "ended"

Init ==
    /\ status = [t \in Task |-> "none"]
    /\ outcome = [t \in Task |-> "none"]
    /\ parent = [t \in Task |-> NoTask]

\* A caller's script starts while no other caller's script is running.
Begin(t) ==
    /\ t \in Top
    /\ status[t] = "none"
    /\ \A u \in Top : status[u] # "active"
    /\ status' = [status EXCEPT ![t] = "active"]
    /\ UNCHANGED <<outcome, parent>>

\* A task whose earlier subtasks have all ended splits off new ones.
Fork(t, C) ==
    /\ status[t] = "active"
    /\ Joined(t)
    /\ \A c \in C : c \notin Top /\ status[c] = "none"
    /\ status' = [c \in Task |-> IF c \in C THEN "pending" ELSE status[c]]
    /\ parent' = [c \in Task |-> IF c \in C THEN t ELSE parent[c]]
    /\ UNCHANGED outcome

Start(t) ==
    /\ status[t] = "pending"
    /\ status' = [status EXCEPT ![t] = "active"]
    /\ UNCHANGED <<outcome, parent>>

\* A task ends after its subtasks, and not better than any of them.
End(t, o) ==
    /\ status[t] = "active"
    /\ Joined(t)
    /\ o = "ok" => \A c \in Subtasks(t) : outcome[c] = "ok"
    /\ status' = [status EXCEPT ![t] = "ended"]
    /\ outcome' = [outcome EXCEPT ![t] = o]
    /\ UNCHANGED parent

Next ==
    \E t \in Task :
        \/ Begin(t)
        \/ \E C \in SUBSET Task : Fork(t, C)
        \/ Start(t)
        \/ \E o \in {"ok", "failed"} : End(t, o)

Spec == Init /\ [][Next]_vars
=============================================================================
