-------------------------- MODULE MCExecutionTree --------------------------
(* Three texts: "main" calls a resource in a loop, and then, in a branch,  *)
(* "sub", which has a parallel loop in a parallel part; "res" is the       *)
(* resource.                                                               *)
EXTENDS ExecutionTree

Leaf(kind, target) == [kind |-> kind, parts |-> <<>>, target |-> target]
Inner(kind, parts) == [kind |-> kind, parts |-> parts, target |-> ""]

Tree == <<
    Inner("tree", <<2>>),                                   \* main
        Inner("sequence", <<3, 7>>),
            Inner("loop", <<4>>),
                Inner("sequence", <<5>>),
                    Inner("group", <<6>>),
                        Leaf("blossom", "res"),
            Inner("if", <<8, 10>>),
                Inner("sequence", <<9>>),
                    Leaf("subtree", "sub"),
                Inner("sequence", <<>>),
    Inner("tree", <<12>>),                                  \* sub
        Inner("sequence", <<13>>),
            Inner("parallel", <<14>>),
                Inner("sequence", <<15, 17>>),
                    Inner("group", <<16>>),
                        Leaf("blossom", "task"),
                    Inner("parallel loop", <<18>>),
                        Inner("sequence", <<19>>),
                            Inner("group", <<20>>),
                                Leaf("blossom", "task"),
    Inner("tree", <<22>>),                                  \* res
        Inner("sequence", <<23>>),
            Inner("group", <<24, 25>>),
                Leaf("blossom", "task"),
                Leaf("blossom", "task") >>

MCItem == DOMAIN Tree
MCKind == [i \in MCItem |-> Tree[i].kind]
MCParts == [i \in MCItem |-> Tree[i].parts]
MCEnd[i \in MCItem] ==
    IF Tree[i].parts = <<>> THEN i ELSE MCEnd[Last(Tree[i].parts)]
MCTarget == [i \in MCItem |-> Tree[i].target]

MCText == [main |-> [kind |-> "tree", id |-> "main", root |-> 1],
           sub |-> [kind |-> "tree", id |-> "sub", root |-> 11],
           res |-> [kind |-> "resource", id |-> "res", root |-> 21]]
=============================================================================
