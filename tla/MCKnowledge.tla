----------------------------- MODULE MCKnowledge -----------------------------
(***************************************************************************)
(* The structures above the memories in one run: the knowledge graph and   *)
(* the tree of contexts.  They share no state; a behaviour has its focus   *)
(* on one of them and leaves the other as it starts.                       *)
(***************************************************************************)
EXTENDS ContextTree, KnowledgeGraph, TLC

CONSTANTS p1, p2, m1, m2, n1, n2, n3, s1, s2,
    Focus     \* which of the structures are looked at

VARIABLE focus

ASSUME GraphAssumption == Parameters

SameCase == [n \in Name |-> n]
Shared   == [m \in Memory |-> {n1, n2}]
Together == [m \in Memory |-> s1]
Texts    == m1 :> {n1, n2} @@ m2 :> {n3}
Apart    == m1 :> s1 @@ m2 :> s2
Exact    == [n \in Label |-> n]
AnyCase  == [n \in Label |-> n1]

Both(S, T) == p1 :> S @@ p2 :> T
Various == {
    Both({"backfill"}, {"create"}),
    Both({"extract"}, {"create", "relations"}),
    Both({"extract"}, {"promote"}),
    Both({"resolve"}, {"promote"}),
    Both({"resolve", "create"}, {"resolve"}),
    Both({"resolve", "create"}, {"clean", "age"}),
    Both({"sweep", "create"}, {"memories", "links", "delete"}),
    Both({"edit"}, {"create", "delete"})}
Overlapping == {
    Both({"sweep", "create", "links"}, {"memories"}),
    Both({"extract"}, {"promote"}),
    Both({"extract", "promote"}, {"promote", "delete"}),
    Both({"resolve", "create"}, {"clean", "age"})}
Alone == {Both({"sweep", "create", "links", "memories"}, {})}

MCInit ==
    /\ focus \in Focus
    /\ Init /\ TreeInit
    /\ focus # "graph" => duty = CHOOSE d \in Duties : TRUE

MCNext ==
    /\ UNCHANGED focus
    /\ \/ focus = "graph" /\ Next /\ UNCHANGED treeVars
       \/ focus = "tree"  /\ TreeNext /\ UNCHANGED vars

MCSpec == MCInit /\ [][MCNext]_<<focus, vars, treeVars>>

Symmetric == Permutations(Entity) \cup Permutations(Context)

\* The run looks no further once a history variable of the tree has been set.
Undisturbed == ~refused /\ ~stale
==============================================================================
