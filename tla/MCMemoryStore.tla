---------------------------- MODULE MCMemoryStore ----------------------------
(***************************************************************************)
(* The store in one run: the memories under concurrent requests, with      *)
(* faults; the counts of contexts, which hold without faults, moves and    *)
(* restores; and the schema, which processes upgrade when they start.  A   *)
(* behaviour has its focus on one of the three.                            *)
(***************************************************************************)
EXTENDS MemoryStore, Migrations, TLC

CONSTANTS
    s1, s2, q1, q2,
    Focus,
    Placed       \* the contexts of the focus "memories"

VARIABLE focus

NoMoves    == AllOps \ {"move"}
Counting   == AllOps \ {"move", "restore", "update"}
Tokenizers == q1 :> "simple" @@ q2 :> "jieba"

Written == INSTANCE MemoryStore WITH Context <- Placed
Counted == INSTANCE MemoryStore WITH Ops <- Counting, VectorDedup <- FALSE, Faults <- FALSE

store  == <<row, fts, vec, count, pc, job, misled, refused>>
schema == <<db, first, stage, at, mishaps>>

MCInit ==
    /\ focus \in Focus
    /\ Init
    /\ SchemaInit
    /\ focus # "schema" => db = CHOOSE d \in Databases : TRUE

MCNext ==
    /\ UNCHANGED focus
    /\ \/ focus = "memories" /\ Written!Next /\ UNCHANGED schema
       \/ focus = "counts" /\ Counted!Next /\ UNCHANGED schema
       \/ focus = "schema" /\ SchemaNext /\ UNCHANGED store

MCSpec == MCInit /\ [][MCNext]_<<focus, store, schema>>

Symmetric == Permutations(Memory) \cup Permutations(Content) \cup Permutations(Proc)

------------------------------------------------------------------------------
(* Files that a process may find: memories 1 and 2 and, where the version   *)
(* has tables for them, a link, before V15 one that its CHECKs forbid, two  *)
(* sessions with their markers, a derivation.                               *)

With(v, text) ==
    [Released[v] EXCEPT !.rows = {1, 2}, !.text = text,
        !.hashed = IF v >= 4 THEN {1, 2} ELSE {},
        !.index = [m \in Ident |-> IF m \in {1, 2} THEN "simple" ELSE Unset],
        !.links = IF v \in 2..14 THEN {1, 2} ELSE {1}, !.odd = IF v \in 2..14 THEN {2} ELSE {},
        !.sessions = IF v >= 18 THEN {s1, s2} ELSE {}, !.marks = IF v >= 19 THEN {s1, s2} ELSE {},
        !.json = IF v \in 12..15 THEN {<<1, 2>>} ELSE {}, !.derived = IF v >= 16 THEN {<<1, 2>>} ELSE {}]

\* Before the hashes of version 4, two memories may have one text.
Old(v) == With(v, 1 :> 1 @@ 2 :> (IF v >= 4 THEN 2 ELSE 1) @@ 3 :> 3)

\* A marker whose session is gone, beside one whose session is there.
Orphaned == [Old(21) EXCEPT !.sessions = {s1}]

Versions == {Empty, Orphaned} \cup {Old(v) : v \in {4, 9, 13, 15, 18, 21, 22, 27}}

\* What the theorems ask of files is so of these.
ASSUME VersionsAssumption == Databases = Versions => FilesFit /\ FilesOpen

\* A new one; older ones; one with a link to a memory that is gone; one with a marker of a
\* session that is gone beside another; one with two documents of one hash; one of before
\* schema_version.
Disputed == {Empty} \cup {Old(v) : v \in {1, 2, 3, 4, 13}} \cup
    {[Old(14) EXCEPT !.rows = {1}, !.hashed = {1}, !.odd = {}],
     Orphaned,
     [Released[9] EXCEPT !.twins = TRUE],
     [Released[1] EXCEPT !.versions = {}, !.tables = {"memories"}]}
==============================================================================
