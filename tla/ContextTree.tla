----------------------------- MODULE ContextTree -----------------------------
(***************************************************************************)
(* The tree of contexts: store/sqlite_context.go under                     *)
(* memory/context_manager.go and api/context_handler.go.                   *)
(*                                                                         *)
(* A context stores its parent, and also its path and depth, which a move  *)
(* rewrites below it.  The manager reads, checks and writes in separate    *)
(* statements; the move itself is one transaction.  Descendants are found  *)
(* with LIKE, which ignores case; its wildcards, in a name, have the same  *)
(* effect.  How many memories a context has is MemoryStore's.              *)
(***************************************************************************)
EXTENDS Integers, Sequences, SequencesExt, FiniteSets

CONSTANTS
    Context, Request,
    Editor, Mover, \* the requests that may do the rest, and that may move contexts
    Label,        \* the names of contexts
    LabelFold,    \* a name without its case
    Conversation, \* the name given to the contexts of a provider's conversations
    SelfMoves,    \* may a client ask to move a context under itself?
    MaxDepth,     \* bound on the length of paths
    Nil

ASSUME NameAssumption  == LabelFold \in [Label -> Label] /\ Conversation \in Label
ASSUME BoundAssumption == MaxDepth \in Nat \ {0} /\ SelfMoves \in BOOLEAN
ASSUME NilAssumption  == Nil \notin Context /\ Editor \cup Mover \subseteq Request

VARIABLES
    row,        \* table contexts
    step, held, \* each request: where it is, and what it has read
    refused,    \* history: was a conversation refused its context?
    stale       \* history: did a request write what it read before another wrote?

treeVars == <<row, step, held, refused, stale>>

Path == Seq(Label)
Row  == [status : {"free", "live", "gone"}, name : Label \cup {Nil},
         parent : Context \cup {Nil}, path : Path, depth : Int]
Held == [id : Context \cup {Nil}, name : Label \cup {Nil}, parent : Context \cup {Nil},
         from : Path, to : [path : Path, depth : Int]]

NoContext == [status |-> "free", name |-> Nil, parent |-> Nil, path |-> <<>>, depth |-> -1]
Root      == [path |-> <<>>, depth |-> -1]
Blank     == [id |-> Nil, name |-> Nil, parent |-> Nil, from |-> <<>>, to |-> Root]

TreeInit ==
    /\ row = [c \in Context |-> NoContext]
    /\ step = [p \in Request |-> "idle"]
    /\ held = [p \in Request |-> Blank]
    /\ refused = FALSE
    /\ stale = FALSE

Alive == {c \in Context : row[c].status = "live"}
Spare == {c \in Context : row[c].status = "free"}

\* What is read of a parent; none is the root, above depth 0.
Parent(c) == IF c = Nil THEN Root ELSE [path |-> row[c].path, depth |-> row[c].depth]

Unique(f)   == \A c, d \in {x \in Context : f[x].status = "live"} : f[c].path = f[d].path => c = d
PathsFit(f) == \A c \in Context : Len(f[c].path) <= MaxDepth

Proceed(p, l, j) ==
    /\ step' = [step EXCEPT ![p] = l]
    /\ held' = [held EXCEPT ![p] = j]

------------------------------------------------------------------------------
(* Creation: the parent is read, then the row is inserted.                  *)

Create(p) ==
    \E n \in Label, par \in Alive \cup {Nil} :
       /\ step[p] = "idle"
       /\ Proceed(p, "insert", [Blank EXCEPT !.name = n, !.parent = par, !.to = Parent(par)])
       /\ UNCHANGED <<row, refused, stale>>

Inserted(c, n, par, to) ==
    [row EXCEPT ![c] = [status |-> "live", name |-> n, parent |-> par,
                        path |-> Append(to.path, n), depth |-> to.depth + 1]]

\* A path that is taken refuses the row.
Insert(p) ==
    LET j == held[p] IN
    /\ step[p] = "insert"
    /\ Proceed(p, "idle", Blank)
    /\ IF \E c \in Alive : row[c].path = Append(j.to.path, j.name)
       THEN UNCHANGED <<row, stale>>
       ELSE \E c \in Spare :
               /\ row' = Inserted(c, j.name, j.parent, j.to)
               /\ PathsFit(row')
               /\ stale' = (stale \/ Parent(j.parent) # j.to)
    /\ UNCHANGED refused

\* resolveConversationContext: a root named after the provider, for each
\* conversation that names no context.
Converse(p) ==
    /\ step[p] = "idle"
    /\ IF \E c \in Alive : row[c].path = <<Conversation>>
       THEN refused' = TRUE /\ UNCHANGED row
       ELSE /\ \E c \in Spare : row' = Inserted(c, Conversation, Nil, Root)
            /\ UNCHANGED refused
    /\ UNCHANGED <<step, held, stale>>

------------------------------------------------------------------------------
(* Moves.                                                                   *)

IsBelow(path, top) == Len(path) > Len(top) /\ IsPrefix(top, path)

IsCircular_Never(c, par) == FALSE

\* The check: is the new parent's path below the path of the context?
IsCircular(c, par) == IsBelow(row[par].path, row[c].path)

\* ContextManager.Move reads both and checks; then comes the transaction.
Move(p) ==
    \E c \in Alive, par \in Alive \cup {Nil} :
       /\ step[p] = "idle"
       /\ SelfMoves \/ par # c
       /\ IF par # Nil /\ IsCircular(c, par) THEN UNCHANGED <<step, held>>
          ELSE Proceed(p, "move", [Blank EXCEPT !.id = c, !.parent = par,
                                             !.from = row[c].path, !.to = Parent(par)])
       /\ UNCHANGED <<row, refused, stale>>

\* path LIKE top || '/%'
Like(path, top) ==
    /\ Len(path) > Len(top)
    /\ \A i \in 1..Len(top) : LabelFold[path[i]] = LabelFold[top[i]]

\* strings.TrimPrefix: what does not start with top is left as it is.
Trimmed(path, top) == IF IsPrefix(top, path) THEN SubSeq(path, Len(top) + 1, Len(path)) ELSE path

Rewritten_SameDepth(rows, top, new, delta) ==
    [d \in Context |->
        IF rows[d].status = "live" /\ Like(rows[d].path, top)
        THEN [rows[d] EXCEPT !.path = new \o Trimmed(@, top)]
        ELSE rows[d]]

\* Every row found below the old path.
Rewritten(rows, top, new, delta) ==
    [d \in Context |->
        IF rows[d].status = "live" /\ Like(rows[d].path, top)
        THEN [rows[d] EXCEPT !.path = new \o Trimmed(@, top), !.depth = @ + delta]
        ELSE rows[d]]

\* The rows after a move: first the context, then what is below its old path,
\* which after a move under itself it is too.
Moved(c, par) ==
    LET new   == Append(Parent(par).path, row[c].name)
        depth == Parent(par).depth + 1
        first == [row EXCEPT ![c].parent = par, ![c].path = new, ![c].depth = depth]
    IN Rewritten(first, row[c].path, new, depth - row[c].depth)

\* SQLiteContextStore.Move: a path that is taken, at the end or on the way,
\* undoes it all.
MoveRows(p) ==
    LET j == held[p] IN
    /\ step[p] = "move"
    /\ Proceed(p, "idle", Blank)
    /\ \/ /\ j.id \in Alive /\ j.parent \in Alive \cup {Nil}
          /\ Unique(Moved(j.id, j.parent))
          /\ row' = Moved(j.id, j.parent)
          /\ PathsFit(row')
          /\ stale' = (stale \/ j.parent = j.id
                             \/ (j.parent # Nil /\ (row[j.id].path # j.from \/ Parent(j.parent) # j.to)))
       \/ UNCHANGED <<row, stale>>
    /\ UNCHANGED refused

------------------------------------------------------------------------------
\* Update: a name changes, the paths do not, until the next move.
Rename(p) ==
    /\ step[p] = "idle"
    /\ \E c \in Alive, n \in Label : row' = [row EXCEPT ![c].name = n]
    /\ UNCHANGED <<step, held, refused, stale>>

\* Delete: only the row goes; what was below stays, with its path.
Delete(p) ==
    /\ step[p] = "idle"
    /\ \E c \in Alive : row' = [row EXCEPT ![c] = [NoContext EXCEPT !.status = "gone"]]
    /\ UNCHANGED <<step, held, refused, stale>>

TreeNext ==
    \/ \E p \in Mover  : Move(p) \/ MoveRows(p)
    \/ \E p \in Editor : Create(p) \/ Insert(p) \/ Converse(p) \/ Rename(p) \/ Delete(p)

TreeSpec == TreeInit /\ [][TreeNext]_treeVars

------------------------------------------------------------------------------

\* What is inserted, and what is live, has a name.
TreeTypeOK ==
    /\ row \in [Context -> Row]
    /\ step \in [Request -> {"idle", "insert", "move"}]
    /\ held \in [Request -> Held]
    /\ \A c \in Alive : row[c].name \in Label
    /\ \A p \in Request : step[p] = "insert" => held[p].name \in Label
    /\ {refused, stale} \subseteq BOOLEAN

\* A path leads through the parent: it is the parent's and one name more.
Follows(c) ==
    LET q == row[c].parent IN
    q \in Alive => /\ Len(row[c].path) = Len(row[q].path) + 1
                  /\ IsPrefix(row[q].path, row[c].path)

\* As long as no request wrote over what it had read, and no context was moved
\* under itself, paths agree with parents, through moves of whole subtrees,
\* deletions that leave orphans, and new contexts in their place; hence no
\* context is its own ancestor.
PathsFollowParents == ~stale => \A c \in Alive : Follows(c)

\* The two records of how deep a context is agree, whatever the order of
\* requests: depth and path are always read and written together, and a move
\* changes both by as much, unless names differ in their case only.
DepthIsPathLength == \A c \in Alive : row[c].depth = Len(row[c].path) - 1

\* Why: what a request has read of a parent agrees as well.
TreeInv ==
    /\ TreeTypeOK
    /\ DepthIsPathLength
    /\ \A p \in Request : held[p].to.depth = Len(held[p].to.path) - 1

\* Why paths follow parents, under the same conditions.  No two live contexts have
\* one path, and none has the empty one; no row and no request has a parent that
\* was never there; and a move under way was not circular when it was read.
PathAccounting ==
    /\ Unique(row)
    /\ \A c \in Alive : row[c].path # <<>>
    /\ \A c \in Context : row[c].parent \notin Spare
    /\ \A p \in Request : held[p].parent \notin Spare
    /\ \A p \in Request : step[p] = "move" /\ held[p].parent # Nil => ~IsBelow(held[p].to.path, held[p].from)

PathInv == TreeInv /\ PathAccounting /\ PathsFollowParents

\* Without the exception: what the check for circular references is for.
NoContextBelowItself ==
    \A c, d \in Alive : ~(row[c].parent = d /\ row[d].parent = c)

\* A move changes the context and what its path leads to, and nothing else.
MoveIsLocal ==
    [][\A p \in Request : MoveRows(p) =>
          \A c \in Alive : row'[c] # row[c] => IsPrefix(row[held[p].id].path, row[c].path)]_treeVars

\* Each conversation is given a context.
EveryConversationAccepted == ~refused
==============================================================================
