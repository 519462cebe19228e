---------------------------- MODULE KnowledgeProofs ----------------------------
(***************************************************************************)
(* The tree of contexts and the knowledge graph, which the run of          *)
(* MCKnowledge has side by side.                                           *)
(*                                                                         *)
(* The tree, for any contexts, names and requests, if no two names differ  *)
(* in case only: the stored depth of a context is the length of its stored *)
(* path, and, until a request writes over what it had read, its path is    *)
(* that of its parent and one name more.  With names that differ in case   *)
(* only, a move finds rows that it does not shorten: they get a path longer*)
(* than their depth, and away from their parent.                           *)
(*                                                                         *)
(* The graph, for any memories, entities, names and scopes, any jobs at    *)
(* once, with and without faults: the links and relations that no client   *)
(* made are those that the texts bear out, and they stay in their scope.   *)
(* Between two statements a job holds names, identifiers and copies while  *)
(* others rename, promote, purge and delete.  The argument is that none of *)
(* this takes anything from what a job may rely on: an entity that has     *)
(* once been there is never free again, it has been called whatever it was *)
(* called, and its scope, if it still has a row, is the same               *)
(* (EntitiesKeep).  So what a job holds has only to fit when it gets it.   *)
(***************************************************************************)
EXTENDS ContextTree, KnowledgeGraph, FiniteSetTheorems, TLAPS

------------------------------------------------------------------------------
(* The tree of contexts.                                                    *)

CaseMatters == \A m, n \in Label : LabelFold[m] = LabelFold[n] => m = n

(* A path with one more name.                                               *)
LEMMA AppendIsLonger ==
  ASSUME NEW s \in Path, NEW n \in Label
  PROVE  /\ Append(s, n) \in Path
         /\ Len(Append(s, n)) = Len(s) + 1
BY SMT DEF Path

LEMMA ConcatLength ==
  ASSUME NEW s \in Path, NEW t \in Path
  PROVE  s \o t \in Path /\ Len(s \o t) = Len(s) + Len(t)
BY SMT DEF Path

(* What LIKE finds below a path starts with that path.                      *)
LEMMA LikeIsBelow ==
  ASSUME CaseMatters, NEW path \in Path, NEW top \in Path, Like(path, top)
  PROVE  IsPrefix(top, path) /\ Len(path) > Len(top)
<1>1. Len(path) > Len(top) BY DEF Like
<1>2. \A i \in 1..Len(top) : path[i] = top[i]
  <2> SUFFICES ASSUME NEW i \in 1..Len(top) PROVE path[i] = top[i]
    OBVIOUS
  <2>1. path[i] \in Label /\ top[i] \in Label BY <1>1 DEF Path
  <2> QED BY <2>1 DEF Like, CaseMatters
<1> QED BY <1>1, <1>2 DEF IsPrefix, Path

(* Putting what is below top under another path changes its length by the   *)
(* difference of the two.                                                   *)
LEMMA TrimmedLength ==
  ASSUME CaseMatters, NEW path \in Path, NEW top \in Path, NEW new \in Path, Like(path, top)
  PROVE  /\ new \o Trimmed(path, top) \in Path
         /\ Len(new \o Trimmed(path, top)) = Len(new) + Len(path) - Len(top)
<1>1. IsPrefix(top, path) /\ Len(path) > Len(top) BY LikeIsBelow
<1>2. Trimmed(path, top) = SubSeq(path, Len(top) + 1, Len(path)) BY <1>1 DEF Trimmed
<1>3. /\ SubSeq(path, Len(top) + 1, Len(path)) \in Path
      /\ Len(SubSeq(path, Len(top) + 1, Len(path))) = Len(path) - Len(top)
  BY <1>1 DEF Path
<1>4. Len(new) \in Nat /\ Len(path) \in Nat /\ Len(top) \in Nat BY DEF Path
<1>5. /\ new \o Trimmed(path, top) \in Path
      /\ Len(new \o Trimmed(path, top)) = Len(new) + Len(Trimmed(path, top))
  BY <1>2, <1>3, ConcatLength
<1> QED BY <1>2, <1>3, <1>4, <1>5

------------------------------------------------------------------------------
(* Rows and jobs, each on their own: named rows are as deep as their path.  *)

RowOK(r) ==
    /\ r \in Row
    /\ r.status = "live" => r.name \in Label /\ r.depth = Len(r.path) - 1

RowsOK == row \in [Context -> Row] /\ \A c \in Context : RowOK(row[c])

Levelled(top) == top \in [path : Path, depth : Int] /\ top.depth = Len(top.path) - 1

JobsOK ==
    /\ step \in [Request -> {"idle", "insert", "move"}]
    /\ held \in [Request -> Held]
    /\ \A p \in Request : Levelled(held[p].to) /\ (step[p] = "insert" => held[p].name \in Label)

Flags == {refused, stale} \subseteq BOOLEAN

LEMMA Parts == TreeInv <=> RowsOK /\ JobsOK /\ Flags
<1>1. ASSUME TreeInv PROVE RowsOK /\ JobsOK /\ Flags
  BY <1>1 DEF TreeInv, TreeTypeOK, DepthIsPathLength, Alive, RowsOK, RowOK, JobsOK, Levelled, Held, Flags
<1>2. ASSUME RowsOK, JobsOK, Flags PROVE TreeInv
  BY <1>2 DEF TreeInv, TreeTypeOK, DepthIsPathLength, Alive, RowsOK, RowOK, JobsOK, Levelled, Held, Flags
<1> QED BY <1>1, <1>2

LEMMA RootKnown == Levelled(Root)
BY DEF Levelled, Root, Path

LEMMA NoJobIsJob == Blank \in Held /\ Levelled(Blank.to)
BY RootKnown DEF Blank, Held, Levelled, Path

(* What is read of a live parent is as deep as its path.                    *)
LEMMA ParentKnown == ASSUME RowsOK, NEW c \in Alive \cup {Nil} PROVE Levelled(Parent(c))
<1>1. CASE c = Nil BY <1>1, RootKnown DEF Parent
<1>2. CASE c # Nil
  <2>1. c \in Context /\ row[c].status = "live" BY <1>2 DEF Alive
  <2>2. row[c] \in Row /\ row[c].depth = Len(row[c].path) - 1 BY <2>1 DEF RowsOK, RowOK
  <2>3. row[c].path \in Path /\ row[c].depth \in Int BY <2>2 DEF Row
  <2> QED BY <1>2, <2>2, <2>3 DEF Parent, Levelled
<1> QED BY <1>1, <1>2

LEMMA InitInv == TreeInit => TreeInv
<1> SUFFICES ASSUME TreeInit PROVE RowsOK /\ JobsOK /\ Flags
  BY Parts
<1>1. NoContext \in Row BY DEF NoContext, Row, Path
<1>2. RowsOK BY <1>1 DEF TreeInit, RowsOK, RowOK, NoContext
<1>3. JobsOK BY NoJobIsJob DEF TreeInit, JobsOK
<1> QED BY <1>2, <1>3 DEF TreeInit, Flags

------------------------------------------------------------------------------
(* What the steps write.                                                    *)

LEMMA JobsKept == ASSUME JobsOK, UNCHANGED <<step, held>> PROVE JobsOK'
BY DEF JobsOK, Levelled

LEMMA ProceedKeeps ==
  ASSUME JobsOK, NEW p \in Request, NEW l \in {"idle", "insert", "move"}, NEW j \in Held,
         Levelled(j.to), l = "insert" => j.name \in Label, Proceed(p, l, j)
  PROVE  JobsOK'
<1>1. step' \in [Request -> {"idle", "insert", "move"}] /\ held' \in [Request -> Held]
  BY DEF JobsOK, Proceed
<1>2. ASSUME NEW q \in Request
      PROVE  Levelled(held[q].to)' /\ (step'[q] = "insert" => held'[q].name \in Label)
  <2>1. CASE q = p BY <2>1 DEF Proceed, JobsOK, Levelled
  <2>2. CASE q # p BY <2>2 DEF Proceed, JobsOK, Levelled
  <2> QED BY <2>1, <2>2
<1> QED BY <1>1, <1>2 DEF JobsOK

LEMMA DoneKeeps == ASSUME JobsOK, NEW p \in Request, Proceed(p, "idle", Blank) PROVE JobsOK'
BY NoJobIsJob, ProceedKeeps, "idle" # "insert"

LEMMA RowsKept == ASSUME RowsOK, UNCHANGED row PROVE RowsOK'
BY DEF RowsOK

LEMMA InsertedKeeps ==
  ASSUME RowsOK, NEW c \in Context, NEW n \in Label, NEW par \in Context \cup {Nil},
         NEW to, Levelled(to), row' = Inserted(c, n, par, to)
  PROVE  RowsOK'
<1> DEFINE r == [status |-> "live", name |-> n, parent |-> par,
                 path |-> Append(to.path, n), depth |-> to.depth + 1]
<1>1. Append(to.path, n) \in Path /\ Len(Append(to.path, n)) = Len(to.path) + 1
  BY AppendIsLonger DEF Levelled
<1>2. Len(to.path) \in Nat BY DEF Levelled, Path
<1>3. r.depth = Len(r.path) - 1 /\ r.depth \in Int BY <1>1, <1>2 DEF Levelled
<1>4. RowOK(r) BY <1>1, <1>3 DEF RowOK, Row
<1>5. row' = [row EXCEPT ![c] = r] BY DEF Inserted
<1>6. r \in Row BY <1>4 DEF RowOK
<1> HIDE DEF r
<1> QED BY <1>4, <1>5, <1>6 DEF RowsOK

LEMMA RewrittenOK ==
  ASSUME CaseMatters, NEW rows \in [Context -> Row], \A d \in Context : RowOK(rows[d]),
         NEW top \in Path, NEW new \in Path, NEW delta, delta = Len(new) - Len(top)
  PROVE  /\ Rewritten(rows, top, new, delta) \in [Context -> Row]
         /\ \A d \in Context : RowOK(Rewritten(rows, top, new, delta)[d])
<1> DEFINE after == Rewritten(rows, top, new, delta)
<1>1. ASSUME NEW d \in Context PROVE RowOK(after[d])
  <2> DEFINE path == new \o Trimmed(rows[d].path, top)
  <2>1. rows[d] \in Row /\ RowOK(rows[d]) OBVIOUS
  <2>2. rows[d].path \in Path /\ rows[d].depth \in Int BY <2>1 DEF Row
  <2>3. CASE rows[d].status = "live" /\ Like(rows[d].path, top)
    <3>1. after[d] = [rows[d] EXCEPT !.path = path, !.depth = @ + delta]
      BY <2>3 DEF Rewritten
    <3>2. path \in Path /\ Len(path) = Len(new) + Len(rows[d].path) - Len(top)
      BY <2>2, <2>3, TrimmedLength
    <3>3. Len(new) \in Nat /\ Len(rows[d].path) \in Nat /\ Len(top) \in Nat BY <2>2 DEF Path
    <3>4. rows[d].depth = Len(rows[d].path) - 1 /\ rows[d].name \in Label
      BY <2>1, <2>3 DEF RowOK
    <3>5. rows[d].depth + delta = Len(path) - 1 /\ rows[d].depth + delta \in Int
      BY <3>2, <3>3, <3>4
    <3> HIDE DEF path, after
    <3>6. after[d] \in Row BY <2>1, <3>1, <3>2, <3>5 DEF Row
    <3>7. after[d].name \in Label /\ after[d].depth = Len(after[d].path) - 1
      BY <2>1, <3>1, <3>4, <3>5 DEF Row
    <3> QED BY <3>6, <3>7 DEF RowOK
  <2>4. CASE ~(rows[d].status = "live" /\ Like(rows[d].path, top))
    BY <2>1, <2>4 DEF Rewritten
  <2> QED BY <2>3, <2>4
<1>2. \A d \in Context : after[d] \in Row BY <1>1 DEF RowOK
<1>3. after = [d \in Context |-> after[d]] BY DEF Rewritten
<1> HIDE DEF after
<1>4. after \in [Context -> Row] BY <1>2, <1>3
<1> QED BY <1>1, <1>4 DEF after

(* A move: the context first, then what is found below its old path.        *)
LEMMA MovedKeeps ==
  ASSUME CaseMatters, RowsOK, NEW c \in Alive, NEW par \in Alive \cup {Nil}, row' = Moved(c, par)
  PROVE  RowsOK'
<1> DEFINE to    == Parent(par)
           new   == Append(to.path, row[c].name)
           depth == to.depth + 1
           first == [row EXCEPT ![c].parent = par, ![c].path = new, ![c].depth = depth]
<1>1. c \in Context /\ row[c].status = "live" /\ par \in Context \cup {Nil} BY DEF Alive
<1>2. row \in [Context -> Row] /\ \A d \in Context : RowOK(row[d]) BY DEF RowsOK
<1>3. row[c] \in Row /\ row[c].name \in Label /\ row[c].depth = Len(row[c].path) - 1
  BY <1>1, <1>2 DEF RowOK
<1>4. row[c].path \in Path BY <1>3 DEF Row
<1>5. Levelled(to) BY ParentKnown
<1>6. to.path \in Path /\ to.depth = Len(to.path) - 1 BY <1>5 DEF Levelled
<1>7. new \in Path /\ Len(new) = Len(to.path) + 1 BY <1>3, <1>6, AppendIsLonger
<1>8. Len(to.path) \in Nat /\ Len(row[c].path) \in Nat BY <1>4, <1>6 DEF Path
<1>9. depth = Len(new) - 1 /\ depth \in Int BY <1>6, <1>7, <1>8
<1>10. row' = Rewritten(first, row[c].path, new, depth - row[c].depth) BY DEF Moved
<1> HIDE DEF to, new, depth
<1>11. depth - row[c].depth = Len(new) - Len(row[c].path)
  <2>1. Len(new) \in Nat BY <1>7, <1>8
  <2> QED BY <2>1, <1>3, <1>8, <1>9
<1>12. first = [row EXCEPT ![c] = [row[c] EXCEPT !.parent = par, !.path = new, !.depth = depth]]
  BY <1>1, <1>2
<1>13. RowOK([row[c] EXCEPT !.parent = par, !.path = new, !.depth = depth])
  BY <1>1, <1>3, <1>7, <1>9 DEF RowOK, Row
<1> DEFINE r == [row[c] EXCEPT !.parent = par, !.path = new, !.depth = depth]
<1>14. r \in Row BY <1>13 DEF RowOK
<1> HIDE DEF r, first
<1>15. first \in [Context -> Row] /\ \A d \in Context : RowOK(first[d])
  BY <1>1, <1>2, <1>12, <1>13, <1>14 DEF r
<1> DEFINE top   == row[c].path
           delta == depth - row[c].depth
           after == Rewritten(first, top, new, delta)
<1>16. top \in Path /\ delta = Len(new) - Len(top) /\ row' = after BY <1>4, <1>10, <1>11
<1> HIDE DEF top, delta
<1>17. after \in [Context -> Row] /\ \A d \in Context : RowOK(after[d])
  BY <1>7, <1>15, <1>16, RewrittenOK
<1> HIDE DEF after
<1> QED BY <1>16, <1>17 DEF RowsOK, RowOK

LEMMA NextInv == ASSUME CaseMatters, TreeInv, [TreeNext]_treeVars PROVE TreeInv'
<1>0. RowsOK /\ JobsOK /\ Flags BY Parts
<1>1. SUFFICES RowsOK' /\ JobsOK' /\ Flags'
  BY <1>1 DEF TreeInv, TreeTypeOK, DepthIsPathLength, Alive, RowsOK, RowOK, JobsOK, Levelled, Held, Flags
<1>2. ASSUME NEW p \in Request, Create(p) PROVE RowsOK' /\ JobsOK' /\ Flags'
  <2>1. PICK n \in Label, par \in Alive \cup {Nil} :
          /\ Proceed(p, "insert", [Blank EXCEPT !.name = n, !.parent = par, !.to = Parent(par)])
          /\ UNCHANGED <<row, refused, stale>>
    BY <1>2 DEF Create
  <2>2. Levelled(Parent(par)) BY <1>0, ParentKnown
  <2> DEFINE j == [Blank EXCEPT !.name = n, !.parent = par, !.to = Parent(par)]
  <2>3. j \in Held /\ j.to = Parent(par) /\ j.name = n
    BY <2>2, NoJobIsJob DEF Held, Levelled, Alive, Blank
  <2> HIDE DEF j
  <2>4. JobsOK' BY <1>0, <2>1, <2>2, <2>3, ProceedKeeps DEF j
  <2> QED BY <1>0, <2>1, <2>4, RowsKept DEF Flags
<1>3. ASSUME NEW p \in Request, Insert(p) PROVE RowsOK' /\ JobsOK' /\ Flags'
  <2>1. Proceed(p, "idle", Blank) /\ step[p] = "insert" /\ UNCHANGED refused BY <1>3 DEF Insert
  <2>2. JobsOK' BY <1>0, <2>1, DoneKeeps
  <2>3. CASE UNCHANGED <<row, stale>> BY <1>0, <2>1, <2>2, <2>3, RowsKept DEF Flags
  <2>4. CASE ~UNCHANGED <<row, stale>>
    <3>1. PICK c \in Spare :
            /\ row' = Inserted(c, held[p].name, held[p].parent, held[p].to)
            /\ stale' = (stale \/ Parent(held[p].parent) # held[p].to)
      BY <1>3, <2>4 DEF Insert
    <3>2. held[p].name \in Label /\ held[p].parent \in Context \cup {Nil} /\ Levelled(held[p].to)
      BY <1>0, <2>1 DEF JobsOK, Held
    <3>3. c \in Context BY DEF Spare
    <3>4. RowsOK' BY <1>0, <3>1, <3>2, <3>3, InsertedKeeps
    <3> QED BY <1>0, <2>1, <2>2, <3>1, <3>4 DEF Flags
  <2> QED BY <2>3, <2>4
<1>4. ASSUME NEW p \in Request, Converse(p) PROVE RowsOK' /\ JobsOK' /\ Flags'
  <2>1. UNCHANGED <<step, held, stale>> BY <1>4 DEF Converse
  <2>2. JobsOK' BY <1>0, <2>1, JobsKept
  <2>3. CASE refused' = TRUE /\ UNCHANGED row
    BY <1>0, <2>1, <2>2, <2>3, RowsKept DEF Flags
  <2>4. CASE UNCHANGED refused /\ ~UNCHANGED row
    <3>1. PICK c \in Spare : row' = Inserted(c, Conversation, Nil, Root) BY <1>4, <2>4 DEF Converse
    <3>2. c \in Context BY DEF Spare
    <3>3. RowsOK' BY <1>0, <3>1, <3>2, RootKnown, NameAssumption, InsertedKeeps
    <3> QED BY <1>0, <2>1, <2>2, <2>4, <3>3 DEF Flags
  <2>5. CASE UNCHANGED <<row, refused>> BY <1>0, <2>1, <2>2, <2>5, RowsKept DEF Flags
  <2> QED BY <1>4, <2>3, <2>4, <2>5 DEF Converse
<1>5. ASSUME NEW p \in Request, Move(p) PROVE RowsOK' /\ JobsOK' /\ Flags'
  <2>1. PICK c \in Alive, par \in Alive \cup {Nil} :
          \/ UNCHANGED <<step, held>>
          \/ Proceed(p, "move", [Blank EXCEPT !.id = c, !.parent = par,
                                           !.from = row[c].path, !.to = Parent(par)])
    BY <1>5 DEF Move
  <2>2. UNCHANGED <<row, refused, stale>> BY <1>5 DEF Move
  <2> DEFINE j == [Blank EXCEPT !.id = c, !.parent = par, !.from = row[c].path, !.to = Parent(par)]
  <2>3. Levelled(Parent(par)) BY <1>0, ParentKnown
  <2>4. row[c].path \in Path BY <1>0 DEF RowsOK, Row, Alive
  <2>5. j \in Held /\ j.to = Parent(par)
    BY <2>3, <2>4, NoJobIsJob DEF Held, Levelled, Alive, Blank
  <2> HIDE DEF j
  <2>6. CASE Proceed(p, "move", j) BY <1>0, <2>2, <2>3, <2>5, <2>6, ProceedKeeps, RowsKept, "move" # "insert" DEF Flags
  <2>7. CASE UNCHANGED <<step, held>> BY <1>0, <2>2, <2>7, JobsKept, RowsKept DEF Flags
  <2> QED BY <2>1, <2>6, <2>7 DEF j
<1>6. ASSUME NEW p \in Request, MoveRows(p) PROVE RowsOK' /\ JobsOK' /\ Flags'
  <2>1. Proceed(p, "idle", Blank) /\ UNCHANGED refused BY <1>6 DEF MoveRows
  <2>2. JobsOK' BY <1>0, <2>1, DoneKeeps
  <2>3. CASE UNCHANGED <<row, stale>> BY <1>0, <2>1, <2>2, <2>3, RowsKept DEF Flags
  <2>4. CASE ~UNCHANGED <<row, stale>>
    <3> DEFINE id == held[p].id
               par == held[p].parent
    <3>1. /\ id \in Alive /\ par \in Alive \cup {Nil} /\ row' = Moved(id, par)
          /\ stale' \in BOOLEAN
      BY <1>0, <1>6, <2>4 DEF MoveRows, Flags
    <3>2. RowsOK' BY <1>0, <3>1, MovedKeeps
    <3> QED BY <1>0, <2>1, <2>2, <3>1, <3>2 DEF Flags
  <2> QED BY <2>3, <2>4
<1>7. ASSUME NEW p \in Request, Rename(p) PROVE RowsOK' /\ JobsOK' /\ Flags'
  <2>1. PICK c \in Alive, n \in Label : row' = [row EXCEPT ![c].name = n] BY <1>7 DEF Rename
  <2>2. UNCHANGED <<step, held, refused, stale>> BY <1>7 DEF Rename
  <2> DEFINE r == [row[c] EXCEPT !.name = n]
  <2>3. c \in Context /\ row \in [Context -> Row] /\ RowOK(row[c]) BY <1>0 DEF RowsOK, Alive
  <2>4. r \in Row /\ RowOK(r) BY <2>3 DEF RowOK, Row
  <2>5. row' = [row EXCEPT ![c] = r] BY <2>1, <2>3
  <2> HIDE DEF r
  <2>6. RowsOK' BY <1>0, <2>3, <2>4, <2>5 DEF RowsOK
  <2> QED BY <1>0, <2>2, <2>6, JobsKept DEF Flags
<1>8. ASSUME NEW p \in Request, Delete(p) PROVE RowsOK' /\ JobsOK' /\ Flags'
  <2>1. PICK c \in Alive : row' = [row EXCEPT ![c] = [NoContext EXCEPT !.status = "gone"]]
    BY <1>8 DEF Delete
  <2>2. UNCHANGED <<step, held, refused, stale>> BY <1>8 DEF Delete
  <2> DEFINE r == [NoContext EXCEPT !.status = "gone"]
  <2>3. NoContext \in Row BY DEF NoContext, Row, Path
  <2>4. r \in Row /\ RowOK(r) BY <2>3 DEF NoContext, RowOK, Row
  <2>5. row' = [row EXCEPT ![c] = r] /\ c \in Context BY <2>1 DEF Alive
  <2> HIDE DEF r
  <2>6. RowsOK' BY <1>0, <2>4, <2>5 DEF RowsOK
  <2> QED BY <1>0, <2>2, <2>6, JobsKept DEF Flags
<1>9. CASE UNCHANGED treeVars BY <1>0, <1>9, RowsKept, JobsKept DEF treeVars, Flags
<1> QED
  BY <1>2, <1>3, <1>4, <1>5, <1>6, <1>7, <1>8, <1>9, NilAssumption DEF TreeNext

------------------------------------------------------------------------------
(* Paths that extend one another.                                           *)

OneMore(s, t) == Len(t) = Len(s) + 1 /\ IsPrefix(s, t)

LEMMA PrefixIs ==
  ASSUME NEW s \in Path, NEW t \in Path
  PROVE  IsPrefix(s, t) <=> Len(s) <= Len(t) /\ \A i \in 1..Len(s) : s[i] = t[i]
BY DEF IsPrefix, Path

(* LIKE finds what is below a path, and only that.                          *)
LEMMA LikeMeansBelow ==
  ASSUME CaseMatters, NEW path \in Path, NEW top \in Path
  PROVE  Like(path, top) <=> IsBelow(path, top)
<1>1. Like(path, top) => IsBelow(path, top) BY LikeIsBelow DEF IsBelow
<1>2. IsBelow(path, top) => Like(path, top) BY PrefixIs DEF IsBelow, Like
<1> QED BY <1>1, <1>2

LEMMA AppendIsOneMore ==
  ASSUME NEW s \in Path, NEW n \in Label
  PROVE  OneMore(s, Append(s, n)) /\ Append(s, n) # <<>>
<1>1. Append(s, n) \in Path /\ Len(Append(s, n)) = Len(s) + 1 BY AppendIsLonger
<1>2. Len(s) \in Nat BY DEF Path
<1>3. \A i \in 1..Len(s) : s[i] = Append(s, n)[i] BY DEF Path
<1>4. Append(s, n) # <<>> BY <1>1, <1>2
<1> DEFINE t == Append(s, n)
<1> HIDE DEF t
<1>5. t \in Path /\ Len(s) <= Len(t) /\ \A i \in 1..Len(s) : s[i] = t[i] BY <1>1, <1>2, <1>3 DEF t
<1>6. IsPrefix(s, t) BY <1>5, PrefixIs
<1> QED BY <1>1, <1>4, <1>6 DEF OneMore, t

(* The child of something below a path is below it, and what is below it     *)
(* has its parent there, or right at the path.                              *)
LEMMA ChildBelow ==
  ASSUME NEW s \in Path, NEW t \in Path, NEW top \in Path, OneMore(s, t)
  PROVE  IsBelow(t, top) <=> s = top \/ IsBelow(s, top)
<1>1. Len(s) \in Nat /\ Len(t) = Len(s) + 1 /\ Len(top) \in Nat BY DEF OneMore, Path
<1>2. \A i \in 1..Len(s) : s[i] = t[i] BY PrefixIs DEF OneMore
<1>3. ASSUME IsBelow(t, top) PROVE s = top \/ IsBelow(s, top)
  <2>1. Len(top) <= Len(s) /\ \A i \in 1..Len(top) : top[i] = s[i]
    BY <1>1, <1>2, <1>3, PrefixIs DEF IsBelow
  <2>2. CASE Len(top) = Len(s) BY <2>1, <2>2 DEF Path
  <2>3. CASE Len(top) < Len(s) BY <2>1, <2>3, PrefixIs DEF IsBelow
  <2> QED BY <1>1, <2>1, <2>2, <2>3
<1>4. ASSUME s = top \/ IsBelow(s, top) PROVE IsBelow(t, top)
  <2>1. Len(top) <= Len(s) /\ \A i \in 1..Len(top) : top[i] = s[i]
    BY <1>1, <1>4, PrefixIs DEF IsBelow
  <2>2. \A i \in 1..Len(top) : top[i] = t[i] BY <1>1, <1>2, <2>1
  <2> QED BY <1>1, <2>1, <2>2, PrefixIs DEF IsBelow
<1> QED BY <1>3, <1>4

(* What is below top, or is top, keeps its children when it is put elsewhere. *)
LEMMA TrimmedBelow ==
  ASSUME NEW path \in Path, NEW top \in Path, NEW new \in Path, IsBelow(path, top)
  PROVE  /\ new \o Trimmed(path, top) \in Path
         /\ Len(new \o Trimmed(path, top)) = Len(new) + Len(path) - Len(top)
         /\ \A i \in 1..Len(new) : (new \o Trimmed(path, top))[i] = new[i]
         /\ \A i \in (Len(new) + 1)..(Len(new) + Len(path) - Len(top)) :
               (new \o Trimmed(path, top))[i] = path[i - Len(new) + Len(top)]
<1>1. Trimmed(path, top) = SubSeq(path, Len(top) + 1, Len(path)) BY DEF Trimmed, IsBelow
<1>2. Len(path) \in Nat /\ Len(top) \in Nat /\ Len(new) \in Nat /\ Len(path) > Len(top)
  BY DEF IsBelow, Path
<1> DEFINE u == SubSeq(path, Len(top) + 1, Len(path))
<1>3. /\ u \in Path /\ Len(u) = Len(path) - Len(top)
      /\ \A i \in 1..Len(u) : u[i] = path[i + Len(top)]
  BY <1>2 DEF Path
<1> HIDE DEF u
<1>4. new \o u \in Path /\ Len(new \o u) = Len(new) + Len(u) BY <1>3, ConcatLength
<1>5. \A i \in 1..(Len(new) + Len(u)) :
         (new \o u)[i] = IF i <= Len(new) THEN new[i] ELSE u[i - Len(new)]
  BY <1>3 DEF Path
<1>6. \A i \in 1..Len(new) : (new \o u)[i] = new[i] BY <1>2, <1>3, <1>5
<1>7. ASSUME NEW i \in (Len(new) + 1)..(Len(new) + Len(path) - Len(top))
      PROVE  (new \o u)[i] = path[i - Len(new) + Len(top)]
  <2>1. i - Len(new) \in 1..Len(u) /\ i \in 1..(Len(new) + Len(u)) /\ ~(i <= Len(new))
    BY <1>2, <1>3
  <2>2. (new \o u)[i] = u[i - Len(new)] BY <1>5, <2>1
  <2> QED BY <1>3, <2>1, <2>2
<1> QED BY <1>1, <1>2, <1>3, <1>4, <1>6, <1>7 DEF u

LEMMA PutElsewhere ==
  ASSUME NEW s \in Path, NEW t \in Path, NEW top \in Path, NEW new \in Path, OneMore(s, t)
  PROVE  /\ s = top => OneMore(new, new \o Trimmed(t, top))
         /\ IsBelow(s, top) => OneMore(new \o Trimmed(s, top), new \o Trimmed(t, top))
<1>1. Len(s) \in Nat /\ Len(t) = Len(s) + 1 /\ Len(top) \in Nat /\ Len(new) \in Nat BY DEF OneMore, Path
<1>2. \A i \in 1..Len(s) : s[i] = t[i] BY PrefixIs DEF OneMore
<1> DEFINE u == new \o Trimmed(s, top)
           v == new \o Trimmed(t, top)
<1>3. s = top \/ IsBelow(s, top) =>
        /\ v \in Path /\ Len(v) = Len(new) + Len(t) - Len(top)
        /\ \A i \in 1..Len(new) : v[i] = new[i]
        /\ \A i \in (Len(new) + 1)..(Len(new) + Len(t) - Len(top)) : v[i] = t[i - Len(new) + Len(top)]
  BY ChildBelow, TrimmedBelow
<1>4. IsBelow(s, top) =>
        /\ u \in Path /\ Len(u) = Len(new) + Len(s) - Len(top) /\ Len(s) > Len(top)
        /\ \A i \in 1..Len(new) : u[i] = new[i]
        /\ \A i \in (Len(new) + 1)..(Len(new) + Len(s) - Len(top)) : u[i] = s[i - Len(new) + Len(top)]
  BY TrimmedBelow DEF IsBelow
<1> HIDE DEF u, v
<1>5. ASSUME s = top PROVE OneMore(new, v)
  BY <1>1, <1>3, <1>5, PrefixIs DEF OneMore
<1>6. ASSUME IsBelow(s, top) PROVE OneMore(u, v)
  <2>1. Len(v) = Len(u) + 1 /\ Len(u) \in Nat /\ Len(v) \in Nat BY <1>1, <1>3, <1>4, <1>6
  <2>2. ASSUME NEW i \in 1..Len(u) PROVE u[i] = v[i]
    <3>1. CASE i <= Len(new) BY <1>1, <1>3, <1>4, <1>6, <3>1
    <3>2. CASE i > Len(new)
      <4>1. i \in (Len(new) + 1)..(Len(new) + Len(s) - Len(top)) /\ i - Len(new) + Len(top) \in 1..Len(s)
        BY <1>1, <1>4, <1>6, <3>2
      <4>2. i \in (Len(new) + 1)..(Len(new) + Len(t) - Len(top)) BY <1>1, <4>1
      <4> QED BY <1>2, <1>3, <1>4, <1>6, <4>1, <4>2
    <3> QED BY <1>1, <3>1, <3>2
  <2> QED BY <1>3, <1>4, <1>6, <2>1, <2>2, PrefixIs DEF OneMore
<1> QED BY <1>5, <1>6 DEF u, v

(* What a move that was not circular makes of the rows: the context has its  *)
(* new path, what was below it follows, and the new parent stays.           *)
LEMMA MovedPaths ==
  ASSUME CaseMatters, RowsOK, Unique(row), \A d \in Alive : row[d].path # <<>>,
         NEW c \in Alive, NEW par \in Alive \cup {Nil}, row' = Moved(c, par),
         par # c, par # Nil => ~IsBelow(row[par].path, row[c].path)
  PROVE  LET old == row[c].path
             new == Append(Parent(par).path, row[c].name)
         IN /\ new \in Path /\ old \in Path
            /\ par # Nil => OneMore(row[par].path, new)
            /\ row'[c].path = new
            /\ \A d \in Context \ {c} :
                  row'[d].path = IF d \in Alive /\ IsBelow(row[d].path, old)
                                 THEN new \o Trimmed(row[d].path, old) ELSE row[d].path
<1> DEFINE old   == row[c].path
           new   == Append(Parent(par).path, row[c].name)
           depth == Parent(par).depth + 1
           first == [row EXCEPT ![c].parent = par, ![c].path = new, ![c].depth = depth]
<1>1. c \in Context /\ par \in Context \cup {Nil} /\ row \in [Context -> Row] BY DEF Alive, RowsOK
<1>2. \A d \in Context : row[d].path \in Path BY <1>1 DEF Row
<1>3. row[c].name \in Label BY <1>1 DEF RowsOK, RowOK, Alive
<1>4. Parent(par).path \in Path /\ depth \in Int BY ParentKnown DEF Levelled
<1>5. new \in Path /\ OneMore(Parent(par).path, new) BY <1>3, <1>4, AppendIsOneMore, AppendIsLonger
<1>6. par # Nil => Parent(par).path = row[par].path BY DEF Parent
<1>7. row' = Rewritten(first, old, new, depth - row[c].depth) BY DEF Moved
<1>8. first[c].path = new /\ \A d \in Context \ {c} : first[d] = row[d] BY <1>1
<1>13. first \in [Context -> Row] BY <1>1, <1>4, <1>5 DEF Row
<1>9. ~IsBelow(new, old)
  <2>1. CASE par = Nil
    <3>1. Parent(par).path = <<>> BY <2>1 DEF Parent, Root
    <3>2. ~IsBelow(<<>>, old) BY <1>1, <1>2 DEF IsBelow, Path
    <3> QED BY <1>1, <1>2, <1>4, <1>5, <3>1, <3>2, ChildBelow
  <2>2. CASE par # Nil
    <3>1. row[par].path # old BY <1>1, <2>2 DEF Unique, Alive
    <3> QED BY <1>1, <1>2, <1>4, <1>5, <1>6, <2>2, <3>1, ChildBelow
  <2> QED BY <2>1, <2>2
<1> HIDE DEF new, depth, first
<1>10. ASSUME NEW d \in Context, first[d].path \in Path
       PROVE  row'[d].path = IF first[d].status = "live" /\ IsBelow(first[d].path, old)
                             THEN new \o Trimmed(first[d].path, old) ELSE first[d].path
  <2> DEFINE r == [first[d] EXCEPT !.path = new \o Trimmed(first[d].path, old),
                                   !.depth = first[d].depth + (depth - row[c].depth)]
  <2>1. row'[d] = IF first[d].status = "live" /\ Like(first[d].path, old) THEN r ELSE first[d]
    BY <1>7 DEF Rewritten
  <2>2. r.path = new \o Trimmed(first[d].path, old) BY <1>13 DEF Row
  <2>3. Like(first[d].path, old) <=> IsBelow(first[d].path, old)
    BY <1>1, <1>2, <1>10, LikeMeansBelow
  <2> HIDE DEF r
  <2> QED BY <2>1, <2>2, <2>3
<1>11. row'[c].path = new BY <1>1, <1>5, <1>8, <1>9, <1>10
<1>12. ASSUME NEW d \in Context \ {c}
       PROVE  row'[d].path = IF d \in Alive /\ IsBelow(row[d].path, old)
                             THEN new \o Trimmed(row[d].path, old) ELSE row[d].path
  BY <1>2, <1>8, <1>10 DEF Alive
<1> QED BY <1>1, <1>2, <1>5, <1>6, <1>11, <1>12 DEF new

------------------------------------------------------------------------------
(* Paths that follow parents: what the rows contribute, and the requests.   *)

TreeOK ==
    /\ Unique(row)
    /\ \A c \in Alive : row[c].path # <<>>
    /\ \A c \in Context : row[c].parent \notin Spare

HeldOK ==
    /\ \A p \in Request : held[p].parent \notin Spare
    /\ \A p \in Request : step[p] = "move" /\ held[p].parent # Nil => ~IsBelow(held[p].to.path, held[p].from)

AllFollow == \A c \in Alive : Follows(c)

LEMMA FollowsIs ==
  ASSUME NEW c \in Context
  PROVE  Follows(c) <=> (row[c].parent \in Alive => OneMore(row[row[c].parent].path, row[c].path))
BY DEF Follows, OneMore

LEMMA TreeKept == ASSUME TreeOK, UNCHANGED row PROVE TreeOK' /\ Spare' = Spare /\ (AllFollow => AllFollow')
BY DEF TreeOK, AllFollow, Follows, Alive, Spare

LEMMA HeldKept == ASSUME HeldOK, UNCHANGED <<step, held>>, Spare' \subseteq Spare PROVE HeldOK'
BY DEF HeldOK

LEMMA HeldGoto ==
  ASSUME JobsOK, HeldOK, NEW p \in Request, NEW l, NEW j, Proceed(p, l, j), Spare' \subseteq Spare,
         j.parent \notin Spare,
         l = "move" /\ j.parent # Nil => ~IsBelow(j.to.path, j.from)
  PROVE  HeldOK'
<1>1. /\ step'[p] = l /\ held'[p] = j
      /\ \A q \in Request \ {p} : step'[q] = step[q] /\ held'[q] = held[q]
  BY DEF JobsOK, Proceed
<1> QED BY <1>1 DEF HeldOK

LEMMA HeldDone ==
  ASSUME JobsOK, HeldOK, NEW p \in Request, Proceed(p, "idle", Blank), Spare' \subseteq Spare
  PROVE  HeldOK'
<1>1. Blank.parent \notin Spare BY NilAssumption DEF Blank, Spare
<1> QED BY <1>1, HeldGoto

(* A new row: nothing has it for a parent yet, and its own path is that of   *)
(* its parent and one name more, if that is still what was read.            *)
LEMMA InsertedTree ==
  ASSUME RowsOK, TreeOK, NEW c \in Spare, NEW n \in Label, NEW par \in Context \cup {Nil}, NEW to,
         Levelled(to), par \notin Spare, \A d \in Alive : row[d].path # Append(to.path, n),
         row' = Inserted(c, n, par, to)
  PROVE  /\ TreeOK' /\ Spare' \subseteq Spare
         /\ AllFollow /\ Parent(par) = to => AllFollow'
<1>1. /\ c \in Context /\ row \in [Context -> Row] /\ row[c].status = "free"
      /\ \A d \in Context \ {c} : row'[d] = row[d]
      /\ row'[c].status = "live" /\ row'[c].parent = par /\ row'[c].path = Append(to.path, n)
  BY DEF RowsOK, Spare, Inserted
<1>2. Alive' = Alive \cup {c} /\ c \notin Alive /\ Spare' = Spare \ {c} BY <1>1 DEF Alive, Spare
<1>3. OneMore(to.path, Append(to.path, n)) /\ Append(to.path, n) # <<>>
  BY AppendIsOneMore DEF Levelled
<1>4. Unique(row') BY <1>1, <1>2 DEF TreeOK, Unique, Alive
<1>5. TreeOK'
  <2>1. \A d \in Alive' : row'[d].path # <<>> BY <1>1, <1>2, <1>3 DEF TreeOK, Alive
  <2>2. \A d \in Context : row'[d].parent \notin Spare' BY <1>1, <1>2 DEF TreeOK
  <2> QED BY <1>4, <2>1, <2>2 DEF TreeOK
<1>6. ASSUME AllFollow, Parent(par) = to, NEW d \in Alive' PROVE Follows(d)'
  <2>1. CASE d = c
    <3>1. par \in Alive' => row'[par].path = to.path /\ par # c
      BY <1>1, <1>2, <1>6, NilAssumption DEF Parent, Alive
    <3> QED BY <1>1, <1>3, <2>1, <3>1 DEF Follows, OneMore
  <2>2. CASE d # c
    <3>1. d \in Alive /\ d \in Context /\ row'[d] = row[d] BY <1>1, <1>2, <2>2 DEF Alive
    <3>2. row[d].parent # c BY <3>1 DEF TreeOK
    <3>3. row[d].parent \in Alive' => row[d].parent \in Alive /\ row'[row[d].parent] = row[row[d].parent]
      BY <1>1, <1>2, <3>2 DEF Alive
    <3> QED BY <1>6, <3>1, <3>3 DEF AllFollow, Follows
  <2> QED BY <2>1, <2>2
<1> QED BY <1>2, <1>5, <1>6 DEF AllFollow

(* A move changes no status and no other parent, and leaves no path empty.  *)
LEMMA MovedRows ==
  ASSUME CaseMatters, RowsOK, NEW c \in Alive, NEW par \in Alive \cup {Nil}, row' = Moved(c, par)
  PROVE  \A d \in Context : /\ row'[d].status = row[d].status
                            /\ row'[d].parent = IF d = c THEN par ELSE row[d].parent
                            /\ row[d].path # <<>> => row'[d].path # <<>>
<1> DEFINE old   == row[c].path
           new   == Append(Parent(par).path, row[c].name)
           depth == Parent(par).depth + 1
           delta == depth - row[c].depth
           first == [row EXCEPT ![c].parent = par, ![c].path = new, ![c].depth = depth]
<1>1. c \in Context /\ par \in Context \cup {Nil} /\ row \in [Context -> Row] BY DEF Alive, RowsOK
<1>2. row[c].name \in Label /\ old \in Path /\ row[c] \in Row BY <1>1 DEF RowsOK, RowOK, Alive, Row
<1>3. Parent(par).path \in Path /\ depth \in Int BY ParentKnown DEF Levelled
<1>4. new \in Path /\ Len(new) = Len(Parent(par).path) + 1 BY <1>2, <1>3, AppendIsLonger
<1>5. Len(new) \in Nat /\ Len(new) > 0 /\ new # <<>> BY <1>3, <1>4 DEF Path
<1>6. row' = Rewritten(first, old, new, delta) BY DEF Moved
<1> HIDE DEF new, depth, delta
<1>7. /\ first \in [Context -> Row]
      /\ \A d \in Context : /\ first[d].status = row[d].status
                            /\ first[d].parent = IF d = c THEN par ELSE row[d].parent
                            /\ row[d].path # <<>> => first[d].path # <<>>
  BY <1>1, <1>2, <1>3, <1>4, <1>5 DEF Row
<1> HIDE DEF first, old
<1>8. ASSUME NEW d \in Context
      PROVE  /\ row'[d].status = first[d].status
             /\ row'[d].parent = first[d].parent
             /\ first[d].path # <<>> => row'[d].path # <<>>
  <2> DEFINE path == new \o Trimmed(first[d].path, old)
             r    == [first[d] EXCEPT !.path = path, !.depth = first[d].depth + delta]
  <2>1. row'[d] = IF first[d].status = "live" /\ Like(first[d].path, old) THEN r ELSE first[d]
    BY <1>6 DEF Rewritten
  <2>2. first[d] \in Row /\ first[d].path \in Path BY <1>7 DEF Row
  <2>3. r.path = path /\ r.status = first[d].status /\ r.parent = first[d].parent BY <2>2 DEF Row
  <2>4. ASSUME Like(first[d].path, old) PROVE path # <<>>
    <3>1. path \in Path /\ Len(path) = Len(new) + Len(first[d].path) - Len(old)
      BY <1>2, <1>4, <2>2, <2>4, TrimmedLength
    <3>2. Len(first[d].path) > Len(old) /\ Len(first[d].path) \in Nat /\ Len(old) \in Nat
      BY <1>2, <2>2, <2>4 DEF Like, Path
    <3> HIDE DEF path
    <3>3. Len(path) # 0 BY <1>5, <3>1, <3>2
    <3> QED BY <3>3
  <2> HIDE DEF r, path
  <2> QED BY <2>1, <2>3, <2>4
<1> QED BY <1>7, <1>8

(* The context comes right below its new parent, what was below it moves     *)
(* along with it, and nothing else moves.                                   *)
LEMMA MovedTree ==
  ASSUME CaseMatters, RowsOK, TreeOK, NEW c \in Alive, NEW par \in Alive \cup {Nil},
         row' = Moved(c, par), Unique(row)'
  PROVE  /\ TreeOK' /\ Spare' = Spare
         /\ AllFollow /\ par # c /\ (par # Nil => ~IsBelow(row[par].path, row[c].path))
               => AllFollow'
<1>1. c \in Context /\ par \notin Spare /\ row \in [Context -> Row]
  BY NilAssumption DEF Alive, Spare, RowsOK
<1>2. \A d \in Context : /\ row'[d].status = row[d].status
                         /\ row'[d].parent = IF d = c THEN par ELSE row[d].parent
                         /\ row[d].path # <<>> => row'[d].path # <<>>
  BY MovedRows
<1>3. Alive' = Alive /\ Spare' = Spare BY <1>2 DEF Alive, Spare
<1>4. \A d \in Alive' : row'[d].path # <<>> BY <1>2, <1>3 DEF TreeOK, Alive
<1>5. \A d \in Context : row'[d].parent \notin Spare' BY <1>1, <1>2, <1>3 DEF TreeOK
<1>6. TreeOK' BY <1>4, <1>5 DEF TreeOK
<1>7. ASSUME AllFollow, par # c, par # Nil => ~IsBelow(row[par].path, row[c].path)
      PROVE  AllFollow'
  <2> DEFINE old == row[c].path
             new == Append(Parent(par).path, row[c].name)
  <2>1. /\ new \in Path /\ old \in Path
        /\ par # Nil => OneMore(row[par].path, new)
        /\ row'[c].path = new
        /\ \A d \in Context \ {c} :
              row'[d].path = IF d \in Alive /\ IsBelow(row[d].path, old)
                             THEN new \o Trimmed(row[d].path, old) ELSE row[d].path
    BY <1>7, MovedPaths DEF TreeOK
  <2> HIDE DEF new
  <2>2. \A d \in Context : row[d].path \in Path BY <1>1 DEF Row
  <2>3. \A d \in Alive : d # c => row[d].path # old BY DEF TreeOK, Unique, Alive
  <2> SUFFICES ASSUME NEW d \in Alive, NEW q \in Alive, row'[d].parent = q
               PROVE  OneMore(row'[q].path, row'[d].path)
    BY <1>3 DEF AllFollow, Follows, OneMore
  <2>4. d \in Context /\ q \in Context /\ q # Nil BY NilAssumption DEF Alive
  <2>5. CASE d = c
    <3>1. q = par /\ q # c BY <1>2, <1>7, <2>4, <2>5
    <3>2. row'[q].path = row[q].path BY <1>7, <2>1, <2>4, <3>1
    <3> QED BY <2>1, <2>4, <2>5, <3>1, <3>2
  <2>6. CASE d # c
    <3>1. row[d].parent = q BY <1>2, <2>4, <2>6
    <3>2. OneMore(row[q].path, row[d].path) BY <1>7, <2>4, <3>1 DEF AllFollow, Follows, OneMore
    <3>3. IsBelow(row[d].path, old) <=> row[q].path = old \/ IsBelow(row[q].path, old)
      BY <2>1, <2>2, <2>4, <3>2, ChildBelow
    <3>4. /\ row[q].path = old => OneMore(new, new \o Trimmed(row[d].path, old))
          /\ IsBelow(row[q].path, old) =>
                OneMore(new \o Trimmed(row[q].path, old), new \o Trimmed(row[d].path, old))
      BY <2>1, <2>2, <2>4, <3>2, PutElsewhere
    <3>5. row'[d].path = IF IsBelow(row[d].path, old)
                         THEN new \o Trimmed(row[d].path, old) ELSE row[d].path
      BY <2>1, <2>4, <2>6
    <3>6. CASE q = c BY <2>1, <3>3, <3>4, <3>5, <3>6
    <3>7. CASE q # c
      <4>1. row'[q].path = IF IsBelow(row[q].path, old)
                           THEN new \o Trimmed(row[q].path, old) ELSE row[q].path
        BY <2>1, <2>4, <3>7
      <4>2. row[q].path # old BY <2>3, <3>7
      <4> QED BY <3>2, <3>3, <3>4, <3>5, <4>1, <4>2
    <3> QED BY <3>6, <3>7
  <2> QED BY <2>5, <2>6
<1> QED BY <1>3, <1>6, <1>7

(* What a rename leaves alone, and what a deletion does.                    *)
LEMMA RenamedTree ==
  ASSUME RowsOK, TreeOK, NEW c \in Alive, NEW n \in Label, row' = [row EXCEPT ![c].name = n]
  PROVE  TreeOK' /\ Spare' = Spare /\ (AllFollow => AllFollow')
<1>1. c \in Context /\ row \in [Context -> Row] /\ row[c] \in Row BY DEF RowsOK, Alive
<1>2. \A d \in Context : /\ row'[d].status = row[d].status /\ row'[d].parent = row[d].parent
                         /\ row'[d].path = row[d].path
  BY <1>1 DEF Row
<1>3. Alive' = Alive /\ Spare' = Spare BY <1>2 DEF Alive, Spare
<1>4. Unique(row') BY <1>2, <1>3 DEF TreeOK, Unique, Alive
<1>5. \A d \in Alive' : row'[d].path # <<>> BY <1>2, <1>3 DEF TreeOK, Alive
<1>6. \A d \in Context : row'[d].parent \notin Spare' BY <1>2, <1>3 DEF TreeOK
<1>7. AllFollow => AllFollow' BY <1>2, <1>3 DEF AllFollow, Follows, Alive
<1> QED BY <1>3, <1>4, <1>5, <1>6, <1>7 DEF TreeOK

LEMMA DeletedTree ==
  ASSUME RowsOK, TreeOK, NEW c \in Alive, row' = [row EXCEPT ![c] = [NoContext EXCEPT !.status = "gone"]]
  PROVE  TreeOK' /\ Spare' = Spare /\ (AllFollow => AllFollow')
<1>1. c \in Context /\ row \in [Context -> Row] /\ row[c].status = "live" BY DEF RowsOK, Alive
<1>2. /\ row'[c].status = "gone" /\ row'[c].parent = Nil
      /\ \A d \in Context \ {c} : row'[d] = row[d]
  BY <1>1 DEF NoContext
<1>3. Alive' = Alive \ {c} /\ Spare' = Spare BY <1>1, <1>2 DEF Alive, Spare
<1>4. Unique(row') BY <1>1, <1>2, <1>3 DEF TreeOK, Unique, Alive
<1>5. \A d \in Alive' : row'[d].path # <<>> BY <1>1, <1>2, <1>3 DEF TreeOK, Alive
<1>6. \A d \in Context : row'[d].parent \notin Spare'
  BY <1>2, <1>3, NilAssumption DEF TreeOK, Spare
<1>7. ASSUME AllFollow PROVE AllFollow' BY <1>1, <1>2, <1>3, <1>7 DEF AllFollow, Follows, Alive
<1> QED BY <1>3, <1>4, <1>5, <1>6, <1>7 DEF TreeOK

LEMMA PathParts == PathAccounting <=> TreeOK /\ HeldOK
BY DEF PathAccounting, TreeOK, HeldOK

LEMMA InitPaths == TreeInit => PathAccounting /\ PathsFollowParents
<1> SUFFICES ASSUME TreeInit PROVE TreeOK /\ HeldOK /\ AllFollow
  BY PathParts DEF PathsFollowParents, AllFollow
<1>1. Alive = {} BY DEF TreeInit, NoContext, Alive
<1>2. \A c \in Context : row[c].parent = Nil BY DEF TreeInit, NoContext
<1>3. \A p \in Request : step[p] = "idle" /\ held[p].parent = Nil BY DEF TreeInit, Blank
<1>4. Nil \notin Spare BY NilAssumption DEF Spare
<1>5. Unique(row) BY <1>1 DEF Unique, Alive
<1> QED BY <1>1, <1>2, <1>3, <1>4, <1>5 DEF TreeOK, HeldOK, AllFollow

(* Each step keeps the tree in order, and keeps paths behind their parents  *)
(* unless it is the one that writes over what it had read.                  *)
LEMMA NextPaths ==
  ASSUME CaseMatters, PathInv, [TreeNext]_treeVars PROVE PathAccounting' /\ PathsFollowParents'
<1> DEFINE Paths  == ~stale => AllFollow
           Kept   == TreeOK' /\ Spare' \subseteq Spare /\ Paths'
           Goal   == TreeOK' /\ HeldOK' /\ Paths'
<1>0. RowsOK /\ JobsOK /\ TreeOK /\ HeldOK /\ Paths
  BY Parts, PathParts DEF PathInv, PathsFollowParents, AllFollow
<1>1. SUFFICES Goal
  BY <1>1 DEF PathAccounting, TreeOK, HeldOK, PathsFollowParents, AllFollow
<1> HIDE DEF Goal
<1>2. ASSUME UNCHANGED <<row, stale>> PROVE Kept BY <1>0, <1>2, TreeKept
<1>3. ASSUME NEW p \in Request, Create(p) PROVE Goal
  <2>1. PICK n \in Label, par \in Alive \cup {Nil} :
          /\ Proceed(p, "insert", [Blank EXCEPT !.name = n, !.parent = par, !.to = Parent(par)])
          /\ UNCHANGED <<row, refused, stale>>
    BY <1>3 DEF Create
  <2> DEFINE j == [Blank EXCEPT !.name = n, !.parent = par, !.to = Parent(par)]
  <2>2. j.parent = par /\ par \notin Spare BY NilAssumption DEF Blank, Alive, Spare
  <2> HIDE DEF j
  <2>3. HeldOK' BY <1>0, <1>2, <2>1, <2>2, HeldGoto DEF j
  <2> QED BY <1>2, <2>1, <2>3 DEF Goal
<1>4. ASSUME NEW p \in Request, Insert(p) PROVE Goal
  <2> DEFINE j == held[p]
  <2>1. Proceed(p, "idle", Blank) /\ step[p] = "insert" BY <1>4 DEF Insert
  <2>2. SUFFICES Kept BY <1>0, <2>1, <2>2, HeldDone DEF Goal
  <2>3. CASE UNCHANGED <<row, stale>> BY <1>2, <2>3
  <2>4. CASE ~UNCHANGED <<row, stale>>
    <3>1. PICK c \in Spare :
            /\ \A d \in Alive : row[d].path # Append(j.to.path, j.name)
            /\ row' = Inserted(c, j.name, j.parent, j.to)
            /\ stale' = (stale \/ Parent(j.parent) # j.to)
      BY <1>4, <2>4 DEF Insert
    <3>2. j.name \in Label /\ j.parent \in Context \cup {Nil} /\ Levelled(j.to) /\ j.parent \notin Spare
      BY <1>0, <2>1 DEF JobsOK, Held, HeldOK
    <3> HIDE DEF j
    <3>3. /\ TreeOK' /\ Spare' \subseteq Spare
          /\ AllFollow /\ Parent(j.parent) = j.to => AllFollow'
      BY <1>0, <3>1, <3>2, InsertedTree
    <3> QED BY <1>0, <3>1, <3>3
  <2> QED BY <2>3, <2>4
<1>5. ASSUME NEW p \in Request, Converse(p) PROVE Goal
  <2>1. UNCHANGED <<step, held, stale>> BY <1>5 DEF Converse
  <2>2. SUFFICES Kept BY <1>0, <2>1, <2>2, HeldKept DEF Goal
  <2>3. CASE UNCHANGED row BY <1>2, <2>1, <2>3
  <2>4. CASE ~UNCHANGED row
    <3>1. PICK c \in Spare : row' = Inserted(c, Conversation, Nil, Root) BY <1>5, <2>4 DEF Converse
    <3>2. \A d \in Alive : row[d].path # <<Conversation>> BY <1>5, <2>4 DEF Converse
    <3>3. Append(Root.path, Conversation) = <<Conversation>> BY DEF Root
    <3>4. Parent(Nil) = Root /\ Nil \notin Spare BY NilAssumption DEF Parent, Spare
    <3>5. TreeOK' /\ Spare' \subseteq Spare /\ (AllFollow => AllFollow')
      BY <1>0, <3>1, <3>2, <3>3, <3>4, RootKnown, NameAssumption, InsertedTree
    <3> QED BY <1>0, <2>1, <3>5
  <2> QED BY <2>3, <2>4
<1>6. ASSUME NEW p \in Request, Move(p) PROVE Goal
  <2>1. UNCHANGED <<row, refused, stale>> BY <1>6 DEF Move
  <2>2. PICK c \in Alive, par \in Alive \cup {Nil} :
          IF par # Nil /\ IsCircular(c, par) THEN UNCHANGED <<step, held>>
          ELSE Proceed(p, "move", [Blank EXCEPT !.id = c, !.parent = par,
                                             !.from = row[c].path, !.to = Parent(par)])
    BY <1>6 DEF Move
  <2> DEFINE j == [Blank EXCEPT !.id = c, !.parent = par, !.from = row[c].path, !.to = Parent(par)]
  <2>3. CASE UNCHANGED <<step, held>> BY <1>0, <1>2, <2>1, <2>3, HeldKept DEF Goal
  <2>4. CASE Proceed(p, "move", j) /\ ~(par # Nil /\ IsCircular(c, par))
    <3>1. j.parent = par /\ j.to = Parent(par) /\ j.from = row[c].path /\ par \notin Spare
      BY NilAssumption DEF Blank, Alive, Spare
    <3>2. par # Nil => ~IsBelow(Parent(par).path, row[c].path) BY <2>4 DEF IsCircular, Parent
    <3> HIDE DEF j
    <3>3. HeldOK' BY <1>0, <1>2, <2>1, <2>4, <3>1, <3>2, HeldGoto
    <3> QED BY <1>2, <2>1, <3>3 DEF Goal
  <2> QED BY <2>2, <2>3, <2>4
<1>7. ASSUME NEW p \in Request, MoveRows(p) PROVE Goal
  <2> DEFINE j == held[p]
  <2>1. Proceed(p, "idle", Blank) /\ step[p] = "move" BY <1>7 DEF MoveRows
  <2>2. SUFFICES Kept BY <1>0, <2>1, <2>2, HeldDone DEF Goal
  <2>3. CASE UNCHANGED <<row, stale>> BY <1>2, <2>3
  <2>4. CASE ~UNCHANGED <<row, stale>>
    <3>1. /\ j.id \in Alive /\ j.parent \in Alive \cup {Nil}
          /\ Unique(Moved(j.id, j.parent)) /\ row' = Moved(j.id, j.parent)
          /\ stale' = (stale \/ j.parent = j.id
                             \/ (j.parent # Nil /\ (row[j.id].path # j.from \/ Parent(j.parent) # j.to)))
      BY <1>7, <2>4 DEF MoveRows
    <3>2. Unique(row') BY <3>1
    <3>3. j.parent # Nil => ~IsBelow(j.to.path, j.from) BY <1>0, <2>1 DEF HeldOK
    <3>4. ~stale' /\ j.parent # Nil => ~IsBelow(row[j.parent].path, row[j.id].path)
      <4>1. ~stale' /\ j.parent # Nil => row[j.id].path = j.from /\ Parent(j.parent) = j.to BY <3>1
      <4>2. j.parent # Nil => Parent(j.parent).path = row[j.parent].path BY DEF Parent
      <4> QED BY <3>3, <4>1, <4>2
    <3> HIDE DEF j
    <3>5. /\ TreeOK' /\ Spare' = Spare
          /\ AllFollow /\ j.parent # j.id
               /\ (j.parent # Nil => ~IsBelow(row[j.parent].path, row[j.id].path)) => AllFollow'
      BY <1>0, <3>1, <3>2, MovedTree
    <3> QED BY <1>0, <3>1, <3>4, <3>5
  <2> QED BY <2>3, <2>4
<1>8. ASSUME NEW p \in Request, Rename(p) PROVE Goal
  BY <1>0, <1>8, RenamedTree, HeldKept DEF Rename, Goal
<1>9. ASSUME NEW p \in Request, Delete(p) PROVE Goal
  BY <1>0, <1>9, DeletedTree, HeldKept DEF Delete, Goal
<1>10. CASE UNCHANGED treeVars BY <1>0, <1>2, <1>10, HeldKept DEF treeVars, Goal
<1> QED
  BY <1>3, <1>4, <1>5, <1>6, <1>7, <1>8, <1>9, <1>10, NilAssumption DEF TreeNext

------------------------------------------------------------------------------
(* Typing, and the agreement of depth and path in what requests hold, are   *)
(* an invariant of every interleaving of creations, moves, renames and      *)
(* deletions.                                                               *)
THEOREM TreeInvariance == ASSUME CaseMatters PROVE TreeSpec => []TreeInv
<1>1. TreeInit => TreeInv BY InitInv
<1>2. TreeInv /\ [TreeNext]_treeVars => TreeInv' BY NextInv
<1> QED BY <1>1, <1>2, PTL DEF TreeSpec

(* Depth and path of a live context agree, whatever requests raced.         *)
THEOREM DepthsAgree == ASSUME CaseMatters PROVE TreeSpec => []DepthIsPathLength
<1>1. TreeInv => DepthIsPathLength BY DEF TreeInv
<1> QED BY <1>1, TreeInvariance, PTL

(* As long as no request writes over what it had read, the path of every    *)
(* context leads through its parent, whatever subtrees are moved.           *)
THEOREM PathsFollow == ASSUME CaseMatters PROVE TreeSpec => []PathsFollowParents
<1>1. TreeInit => PathInv BY InitInv, InitPaths DEF PathInv
<1>2. PathInv /\ [TreeNext]_treeVars => PathInv' BY NextInv, NextPaths DEF PathInv
<1>3. PathInv => PathsFollowParents BY DEF PathInv
<1> QED BY <1>1, <1>2, <1>3, PTL DEF TreeSpec

(* Under the same condition no two contexts are below each other.           *)
THEOREM NoTwoBelowEachOther ==
  ASSUME CaseMatters PROVE TreeSpec => [](~stale => NoContextBelowItself)
<1>1. ASSUME TreeInv, PathsFollowParents, ~stale PROVE NoContextBelowItself
  <2> SUFFICES ASSUME NEW c \in Alive, NEW d \in Alive, row[c].parent = d, row[d].parent = c
               PROVE  FALSE
    BY DEF NoContextBelowItself
  <2>1. Len(row[c].path) = Len(row[d].path) + 1 /\ Len(row[d].path) = Len(row[c].path) + 1
    BY <1>1 DEF PathsFollowParents, Follows
  <2>2. row[c].path \in Path /\ row[d].path \in Path BY <1>1 DEF TreeInv, TreeTypeOK, Row, Alive
  <2>3. Len(row[c].path) \in Nat /\ Len(row[d].path) \in Nat BY <2>2 DEF Path
  <2> QED BY <2>1, <2>3
<1>2. TreeInv /\ PathsFollowParents => (~stale => NoContextBelowItself) BY <1>1
<1> QED BY <1>2, TreeInvariance, PathsFollow, PTL

(* If no two names differ in their case only, the transaction of a move writes *)
(* the context and what its path leads to, and no other row, whatever was read *)
(* before it.  With such names it is not so: SQLite's LIKE ignores case, and    *)
(* MoveIsLocal fails in the configuration Knowledge_contexts.                   *)
THEOREM MovesAreLocal == ASSUME CaseMatters PROVE TreeSpec => MoveIsLocal
<1>1. ASSUME TreeInv, NEW p \in Request, MoveRows(p), NEW c \in Alive, row'[c] # row[c]
      PROVE  IsPrefix(row[held[p].id].path, row[c].path)
  <2> DEFINE id    == held[p].id
             par   == held[p].parent
             old   == row[id].path
             new   == Append(Parent(par).path, row[id].name)
             depth == Parent(par).depth + 1
             first == [row EXCEPT ![id].parent = par, ![id].path = new, ![id].depth = depth]
  <2>1. id \in Alive /\ row' = Moved(id, par) BY <1>1 DEF MoveRows
  <2>2. row' = Rewritten(first, old, new, depth - row[id].depth) BY <2>1 DEF Moved
  <2>3. /\ c \in Context /\ id \in Context /\ row \in [Context -> Row]
        /\ row[c].path \in Path /\ old \in Path
    BY <1>1, <2>1 DEF TreeInv, TreeTypeOK, Row, Alive
  <2>4. CASE c = id BY <2>3, <2>4, PrefixIs
  <2>5. CASE c # id
    <3>1. first[c] = row[c] BY <2>3, <2>5
    <3> HIDE DEF first, new, depth, old, id, par
    <3>2. Like(first[c].path, old) BY <1>1, <2>2, <2>3, <3>1 DEF Rewritten
    <3>3. Like(row[c].path, old) BY <3>1, <3>2
    <3> QED BY <2>3, <3>3, LikeIsBelow DEF old, id
  <2> QED BY <2>4, <2>5
<1>2. TreeInv => [\A p \in Request : MoveRows(p) =>
          \A c \in Alive : row'[c] # row[c] => IsPrefix(row[held[p].id].path, row[c].path)]_treeVars
  BY <1>1
<1> QED BY <1>2, TreeInvariance, PTL DEF MoveIsLocal, TreeSpec

------------------------------------------------------------------------------
(* The knowledge graph.                                                     *)

Place == {"idle", "names", "batch", "link", "candidate", "insert", "relate", "terms",
          "associate", "stats", "relation", "promote", "mentions", "orphans", "purge",
          "sweep", "check", "unlink", "edit"}

IsJob(j) == j = [mem |-> j.mem, scope |-> j.scope, todo |-> j.todo, rest |-> j.rest,
                 at |-> j.at, ids |-> j.ids]

JobsTyped ==
    /\ pc \in [Proc -> Place]
    /\ job = [p \in Proc |-> job[p]] /\ \A p \in Proc : IsJob(job[p])

IInv == GraphInv /\ JobsTyped /\ called \in [Entity -> SUBSET Name]

(* What a step does not take from the entities.                             *)
EntitiesKeep ==
    \A e \in Entity : Known(e) =>
       /\ ent'[e].status # "free" /\ called[e] \subseteq called'[e]
       /\ ent'[e].scope \in {ent[e].scope, None}

------------------------------------------------------------------------------
(* What a job holds stays as good as it was.                                *)

LEMMA FitsStays ==
  ASSUME EntitiesKeep, NEW m, NEW s, NEW a, Fits(m, s, a)
  PROVE  Fits(m, s, a)'
<1>1. a[2] \in Entity /\ Known(a[2]) BY DEF Fits
<1>2. /\ ent'[a[2]].status # "free" /\ called[a[2]] \subseteq called'[a[2]]
      /\ ent'[a[2]].scope \in {ent[a[2]].scope, None}
  BY <1>1 DEF EntitiesKeep
<1> QED BY <1>1, <1>2 DEF Fits, Known, Names

LEMMA GroundedStays ==
  ASSUME EntitiesKeep, NEW r, Grounded(r)
  PROVE  Grounded(r)'
<1>1. r[1] \in Entity /\ r[2] \in Entity /\ Known(r[1]) /\ Known(r[2]) BY DEF Grounded
<1>2. \A e \in {r[1], r[2]} : ent'[e].status # "free" /\ called[e] \subseteq called'[e]
  BY <1>1 DEF EntitiesKeep
<1> QED BY <1>1, <1>2 DEF Grounded, Known, Mentions, Names

LEMMA HoldsStays ==
  ASSUME EntitiesKeep, NEW l, NEW j, HoldsAt(l, j)
  PROVE  HoldsAt(l, j)'
<1>1. \A m, s, a : Fits(m, s, a) => Fits(m, s, a)' BY FitsStays
<1>2. \A r : Grounded(r) => Grounded(r)' BY GroundedStays
<1>3. CASE l \in {"names", "terms", "link", "candidate", "insert"}
  BY <1>1, <1>3 DEF HoldsAt, Reading
<1>4. CASE l \in {"relate", "stats", "relation"}
  BY <1>2, <1>4 DEF HoldsAt
<1>5. CASE l = "associate"
  BY <1>1, <1>5 DEF HoldsAt
<1>6. CASE l = "mentions"
  BY <1>6 DEF HoldsAt, EntitiesKeep, Known, Names
<1>7. CASE l \notin {"names", "terms", "link", "candidate", "insert", "relate", "stats",
                     "relation", "associate", "mentions"}
  BY <1>7 DEF HoldsAt
<1> QED BY <1>3, <1>4, <1>5, <1>6, <1>7

LEMMA JobsStay ==
  ASSUME JobsHold, EntitiesKeep, NEW p \in Proc,
         \A q \in Proc \ {p} : pc'[q] = pc[q] /\ job'[q] = job[q],
         HoldsAt(pc[p], job[p])'
  PROVE  JobsHold'
<1> SUFFICES ASSUME NEW q \in Proc, q # p PROVE HoldsAt(pc[q], job[q])'
  BY DEF JobsHold
<1>1. PICK l, j : l = pc[q] /\ j = job[q] OBVIOUS
<1>2. HoldsAt(l, j) BY <1>1 DEF JobsHold
<1>3. HoldsAt(l, j)' BY <1>2, HoldsStays
<1>4. pc'[q] = l /\ job'[q] = j BY <1>1
<1> QED BY <1>3, <1>4

(* One process moves.                                                       *)
LEMMA OneMoves ==
  ASSUME IInv, EntitiesKeep, NEW p \in Proc, NEW l \in Place, NEW j,
         Goto(p, l, j), IsJob(j), HoldsAt(l, j)'
  PROVE  JobsHold' /\ JobsTyped'
<1>1. /\ pc'[p] = l /\ job'[p] = j
      /\ \A q \in Proc \ {p} : pc'[q] = pc[q] /\ job'[q] = job[q]
  BY DEF IInv, JobsTyped, Goto
<1>2. HoldsAt(pc[p], job[p])' BY <1>1
<1>3. JobsHold' BY <1>1, <1>2, JobsStay DEF IInv, GraphInv
<1>4. pc' \in [Proc -> Place] BY DEF IInv, JobsTyped, Goto
<1>5. job' = [q \in Proc |-> job'[q]] BY DEF IInv, JobsTyped, Goto
<1>6. \A q \in Proc : IsJob(job'[q]) BY <1>1 DEF IInv, JobsTyped
<1> QED BY <1>3, <1>4, <1>5, <1>6 DEF JobsTyped

LEMMA NoneMoves ==
  ASSUME IInv, EntitiesKeep, UNCHANGED <<pc, job>>
  PROVE  JobsHold' /\ JobsTyped'
<1>1. ASSUME NEW q \in Proc PROVE HoldsAt(pc[q], job[q])'
  <2>1. PICK l, j : l = pc[q] /\ j = job[q] OBVIOUS
  <2>2. HoldsAt(l, j) BY <2>1 DEF IInv, GraphInv, JobsHold
  <2>3. HoldsAt(l, j)' BY <2>2, HoldsStays
  <2>4. pc'[q] = l /\ job'[q] = j BY <2>1
  <2> QED BY <2>3, <2>4
<1> QED BY <1>1 DEF JobsHold, IInv, JobsTyped

LEMMA IdleMoves ==
  ASSUME IInv, EntitiesKeep, NEW p \in Proc, Goto(p, "idle", NoJob)
  PROVE  JobsHold' /\ JobsTyped'
<1>1. PICK j : j = NoJob OBVIOUS
<1>2. Goto(p, "idle", j) /\ IsJob(j) BY <1>1 DEF NoJob, IsJob
<1>3. HoldsAt("idle", j)' BY DEF HoldsAt
<1> QED BY <1>2, <1>3, OneMoves DEF Place

------------------------------------------------------------------------------
(* The invariant by rows: IInv says of each link, relation, task and        *)
(* candidate that it is in order.                                           *)

LinkOK(l) ==
    /\ l \in Memory \X Stored
    /\ \/ l \in asserted
       \/ Mentions(l[1], l[2]) /\ (l \in foreign \/ ent[l[2]].scope \in {Home[l[1]], None})

RelationOK(r) ==
    /\ r \in Stored \X Stored /\ rel[r] \in Relation
    /\ r \in asserted \/ Grounded(r)

TaskOK(t) == t.mem \in Memory /\ \A a \in t.ids : Fits(t.mem, None, a)

RowsTyped ==
    /\ mem \in [Memory -> {"live", "deleted", "gone"}]
    /\ ent \in [Entity -> EntityRow]
    /\ called \in [Entity -> SUBSET Name]
    /\ NamesAreCalled

CandidatesOK ==
    /\ cand \in [Name \X (Scope \cup {None}) -> Candidate]
    /\ CandidatesMention

InOrder ==
    /\ RowsTyped /\ CandidatesOK /\ JobsHold /\ JobsTyped
    /\ \A l \in link : LinkOK(l)
    /\ \A r \in DOMAIN rel : RelationOK(r)
    /\ \A t \in tasks : TaskOK(t)

LEMMA ByRows == IInv <=> InOrder
<1>1. ASSUME IInv PROVE /\ \A l \in link : LinkOK(l)
                        /\ \A r \in DOMAIN rel : RelationOK(r)
                        /\ \A t \in tasks : TaskOK(t)
  <2>1. \A l \in link : LinkOK(l)
    BY <1>1 DEF IInv, GraphInv, TypeOK, LinksAreMentions, LinksStayInScope, LinkOK
  <2>2. \A r \in DOMAIN rel : RelationOK(r)
    BY <1>1 DEF IInv, GraphInv, TypeOK, RelationsAreGrounded, RelationOK, Grounded, Known, Stored
  <2>3. \A t \in tasks : TaskOK(t)
    BY <1>1 DEF IInv, GraphInv, TasksFit, TaskOK
  <2> QED BY <2>1, <2>2, <2>3
<1>2. ASSUME InOrder PROVE IInv
  <2>1. LinksAreMentions /\ LinksStayInScope /\ link \subseteq Memory \X Stored
    BY <1>2 DEF InOrder, LinksAreMentions, LinksStayInScope, LinkOK
  <2>2. /\ RelationsAreGrounded
        /\ \A r \in DOMAIN rel : r \in Stored \X Stored /\ rel[r] \in Relation
    BY <1>2 DEF InOrder, RelationsAreGrounded, RelationOK, Grounded
  <2>3. TasksFit /\ \A t \in tasks : t.mem \in Memory /\ t.ids \subseteq Name \X Entity
    BY <1>2 DEF InOrder, TasksFit, TaskOK, Fits
  <2> QED BY <1>2, <2>1, <2>2, <2>3 DEF InOrder, IInv, GraphInv, TypeOK, RowsTyped, CandidatesOK
<1>3. IInv => RowsTyped /\ CandidatesOK /\ JobsHold /\ JobsTyped
  BY DEF IInv, GraphInv, TypeOK, RowsTyped, CandidatesOK
<1> QED BY <1>1, <1>2, <1>3 DEF InOrder

LEMMA NextByRows == IInv' <=> InOrder'
BY ByRows, PTL

(* A link or relation that is left stays in order while its ends have rows. *)
LEMMA LinkStays ==
  ASSUME EntitiesKeep, asserted \subseteq asserted', foreign \subseteq foreign',
         NEW l, LinkOK(l), l[2] \in Stored'
  PROVE  LinkOK(l)'
<1>1. l[2] \in Entity /\ Known(l[2]) BY DEF LinkOK, Stored, Known
<1>2. called[l[2]] \subseteq called'[l[2]] /\ ent'[l[2]].scope \in {ent[l[2]].scope, None}
  BY <1>1 DEF EntitiesKeep
<1> QED BY <1>1, <1>2 DEF LinkOK, Mentions, Names

LEMMA RelationStays ==
  ASSUME EntitiesKeep, asserted \subseteq asserted',
         NEW r, RelationOK(r), {r[1], r[2]} \subseteq Stored', rel'[r] \in Relation
  PROVE  RelationOK(r)'
<1>1. Grounded(r) => Grounded(r)' BY GroundedStays
<1>2. r \in Stored' \X Stored' BY DEF RelationOK
<1> QED BY <1>1, <1>2 DEF RelationOK

LEMMA TaskStays ==
  ASSUME EntitiesKeep, NEW t, TaskOK(t)
  PROVE  TaskOK(t)'
BY FitsStays DEF TaskOK

LEMMA SameEntities ==
  ASSUME RowsTyped, UNCHANGED <<mem, ent, called>>
  PROVE  EntitiesKeep /\ RowsTyped' /\ Stored' = Stored
BY DEF EntitiesKeep, Known, RowsTyped, NamesAreCalled, Stored, EntityRow

LEMMA SameLinks ==
  ASSUME IInv, EntitiesKeep, Stored \subseteq Stored', link' = link,
         asserted \subseteq asserted', foreign \subseteq foreign'
  PROVE  \A l \in link' : LinkOK(l)'
<1> SUFFICES ASSUME NEW l \in link PROVE LinkOK(l)' OBVIOUS
<1>1. LinkOK(l) BY ByRows DEF InOrder
<1> QED BY <1>1, LinkStays DEF LinkOK

LEMMA SameRelations ==
  ASSUME IInv, EntitiesKeep, Stored \subseteq Stored', rel' = rel, asserted \subseteq asserted'
  PROVE  \A r \in DOMAIN rel' : RelationOK(r)'
<1> SUFFICES ASSUME NEW r \in DOMAIN rel PROVE RelationOK(r)' OBVIOUS
<1>1. RelationOK(r) BY ByRows DEF InOrder
<1> QED BY <1>1, RelationStays DEF RelationOK

LEMMA SameTasks ==
  ASSUME IInv, EntitiesKeep, tasks' \subseteq tasks
  PROVE  \A t \in tasks' : TaskOK(t)'
BY ByRows, TaskStays DEF InOrder

LEMMA SameCandidates ==
  ASSUME CandidatesOK, UNCHANGED cand
  PROVE  CandidatesOK'
BY DEF CandidatesOK, CandidatesMention

(* A step that writes no table but that of entities, and takes no row.      *)
LEMMA EntitiesOnly ==
  ASSUME IInv, EntitiesKeep, RowsTyped', Stored \subseteq Stored',
         UNCHANGED <<cand, link, rel, tasks, asserted, foreign>>,
         NEW p \in Proc, NEW l \in Place, NEW j, Goto(p, l, j), IsJob(j), HoldsAt(l, j)'
  PROVE  IInv'
<1>1. JobsHold' /\ JobsTyped' BY OneMoves
<1>2. CandidatesOK' BY ByRows, SameCandidates DEF InOrder
<1>3. \A m \in link' : LinkOK(m)' BY SameLinks
<1>4. \A r \in DOMAIN rel' : RelationOK(r)' BY SameRelations
<1>5. \A t \in tasks' : TaskOK(t)' BY SameTasks
<1> QED BY <1>1, <1>2, <1>3, <1>4, <1>5, NextByRows DEF InOrder

(* A step that writes nothing: only what the job holds is new.              *)
LEMMA HeldOnly ==
  ASSUME IInv, NEW p \in Proc, NEW l \in Place, NEW j, Goto(p, l, j), IsJob(j), HoldsAt(l, j),
         UNCHANGED <<tables, called, asserted, foreign>>
  PROVE  IInv'
<1>1. UNCHANGED <<mem, ent, cand, link, rel, tasks, called, asserted, foreign>> BY DEF tables
<1>2. EntitiesKeep /\ RowsTyped' /\ Stored' = Stored
  BY <1>1, ByRows, SameEntities DEF InOrder
<1>3. HoldsAt(l, j)' BY <1>2, HoldsStays
<1> QED BY <1>1, <1>2, <1>3, EntitiesOnly

LEMMA Now ==
  ASSUME IInv, NEW p \in Proc
  PROVE  IsJob(job[p]) /\ HoldsAt(pc[p], job[p])
BY DEF IInv, GraphInv, JobsHold, JobsTyped

------------------------------------------------------------------------------
(* The steps that only read.                                                *)

LEMMA ExtractKeeps ==
  ASSUME Parameters, IInv, NEW p \in Proc, Extract(p)
  PROVE  IInv'
<1>1. PICK m, names :
         /\ m \in Memory /\ names \in Understood(m)
         /\ Goto(p, "names", [NoJob EXCEPT !.mem = m, !.scope = Home[m], !.todo = names])
  BY DEF Extract, Begin
<1>2. PICK j : j = [NoJob EXCEPT !.mem = m, !.scope = Home[m], !.todo = names] OBVIOUS
<1>3. Goto(p, "names", j) BY <1>1, <1>2
<1>4. IsJob(j) BY <1>2 DEF IsJob, NoJob
<1>5. HoldsAt("names", j) BY <1>1, <1>2 DEF HoldsAt, Reading, NoJob, Understood
<1>6. UNCHANGED <<tables, called, asserted, foreign>> BY DEF Extract
<1> QED BY <1>3, <1>4, <1>5, <1>6, HeldOnly DEF Place

LEMMA ItemKeeps ==
  ASSUME Parameters, IInv, NEW p \in Proc, Item(p)
  PROVE  IInv'
<1>1. UNCHANGED <<tables, called, asserted, foreign>> BY DEF Item
<1>2. \A i \in job[p].rest : IsItem(i) BY Now DEF Item, At, HoldsAt
<1>3. CASE job[p].rest = {}
  <2>1. PICK j : j = NoJob OBVIOUS
  <2>2. Goto(p, "idle", j) /\ IsJob(j) /\ HoldsAt("idle", j)
    BY <1>3, <2>1 DEF Item, IsJob, NoJob, HoldsAt
  <2> QED BY <1>1, <2>2, HeldOnly DEF Place
<1>4. CASE job[p].rest # {}
  <2>1. PICK r \in job[p].rest : Goto(p, "names", NextItem(p, r)) BY <1>4 DEF Item
  <2>2. PICK j : j = NextItem(p, r) OBVIOUS
  <2>3. Goto(p, "names", j) BY <2>1, <2>2
  <2>4. IsJob(j) BY <2>2 DEF IsJob, NoJob, NextItem
  <2>5. HoldsAt("names", j)
    BY <1>2, <2>2 DEF HoldsAt, Reading, NoJob, NextItem, IsItem
  <2> QED BY <1>1, <2>3, <2>4, <2>5, HeldOnly DEF Place
<1> QED BY <1>3, <1>4

LEMMA ResolveKeeps ==
  ASSUME Parameters, IInv, NEW p \in Proc, Resolve(p)
  PROVE  IInv'
<1>1. PICK m \in Memory :
         Goto(p, "terms", [NoJob EXCEPT !.mem = m, !.scope = Home[m], !.todo = Text[m]])
  BY DEF Resolve, Begin
<1>2. PICK j : j = [NoJob EXCEPT !.mem = m, !.scope = Home[m], !.todo = Text[m]] OBVIOUS
<1>3. Goto(p, "terms", j) BY <1>1, <1>2
<1>4. IsJob(j) BY <1>2 DEF IsJob, NoJob
<1>5. HoldsAt("terms", j) BY <1>2 DEF HoldsAt, Reading, NoJob
<1>6. UNCHANGED <<tables, called, asserted, foreign>> BY DEF Resolve
<1> QED BY <1>3, <1>4, <1>5, <1>6, HeldOnly DEF Place

(* What a lookup finds fits: it has the name, and the scope.                *)
LEMMA FoundFits ==
  ASSUME Parameters, IInv, NEW m \in Memory, NEW s \in {Home[m], None}, NEW n \in Text[m],
         NEW e \in Find(n, s)
  PROVE  Fits(m, s, <<n, e>>)
<1>1. n \in Name BY DEF Parameters
<1>2. e \in Live /\ Fold[ent[e].name] = Fold[n] /\ (s = None \/ ent[e].scope = s)
  BY DEF Find, InScope
<1>3. e \in Entity /\ Known(e) BY <1>2 DEF Live, Known
<1>4. ent[e].name \in called[e]
  BY <1>2, ByRows DEF InOrder, RowsTyped, NamesAreCalled, Live, Stored
<1>5. Fold[n] \in Names(e) BY <1>2, <1>4 DEF Names
<1> QED BY <1>1, <1>2, <1>3, <1>5 DEF Fits

Fields == {"mem", "scope", "todo", "rest", "at", "ids"}

(* A job is its six fields, also when several of them are set at once.      *)
LEMMA SixFields ==
  ASSUME NEW j
  PROVE  IsJob(j) <=> j = [x \in Fields |-> j[x]]
BY DEF IsJob, Fields

LEMMA DropIs ==
  ASSUME NEW p \in Proc, IsJob(job[p]), NEW x
  PROVE  /\ IsJob(Drop(p, x))
         /\ Drop(p, x).mem = job[p].mem /\ Drop(p, x).scope = job[p].scope
         /\ Drop(p, x).todo = job[p].todo \ {x}
         /\ Drop(p, x).rest = job[p].rest /\ Drop(p, x).ids = job[p].ids
<1>1. PICK k : k = Drop(p, x) OBVIOUS
<1>2. job[p] = [z \in Fields |-> job[p][z]] BY SixFields
<1>3. /\ k.mem = job[p].mem /\ k.scope = job[p].scope /\ k.todo = job[p].todo \ {x}
      /\ k.rest = job[p].rest /\ k.ids = job[p].ids
      /\ k = [z \in Fields |-> k[z]]
  BY <1>1, <1>2 DEF Drop, Fields
<1> QED BY <1>1, <1>3, SixFields

Keep(p, x, a) == [Drop(p, x) EXCEPT !.ids = @ \cup {a}]

LEMMA KeepIs ==
  ASSUME NEW p \in Proc, IsJob(job[p]), NEW x, NEW a
  PROVE  /\ IsJob(Keep(p, x, a))
         /\ Keep(p, x, a).mem = job[p].mem /\ Keep(p, x, a).scope = job[p].scope
         /\ Keep(p, x, a).todo = job[p].todo \ {x}
         /\ Keep(p, x, a).rest = job[p].rest /\ Keep(p, x, a).ids = job[p].ids \cup {a}
<1>1. PICK k, j : k = Drop(p, x) /\ j = Keep(p, x, a) OBVIOUS
<1>2. k = [z \in Fields |-> k[z]] BY <1>1, DropIs, SixFields
<1>3. j = [k EXCEPT !.ids = k.ids \cup {a}] BY <1>1 DEF Keep
<1>4. /\ j.mem = k.mem /\ j.scope = k.scope /\ j.todo = k.todo /\ j.rest = k.rest
      /\ j.ids = k.ids \cup {a} /\ j = [z \in Fields |-> j[z]]
  BY <1>2, <1>3 DEF Fields
<1> QED BY <1>1, <1>4, DropIs, SixFields

LEMMA ResolveTermKeeps ==
  ASSUME Parameters, IInv, NEW p \in Proc, ResolveTerm(p)
  PROVE  IInv'
<1>1. UNCHANGED <<tables, called, asserted, foreign>> BY DEF ResolveTerm
<1>2. IsJob(job[p]) /\ Reading(job[p]) /\ job[p].scope = Home[job[p].mem]
  BY Now DEF ResolveTerm, At, HoldsAt
<1>3. CASE Goto(p, "associate", [job[p] EXCEPT !.todo = {a[2] : a \in job[p].ids}])
  <2>1. PICK j : j = [job[p] EXCEPT !.todo = {a[2] : a \in job[p].ids}] OBVIOUS
  <2>2. Goto(p, "associate", j) BY <1>3, <2>1
  <2>3. j = [mem |-> job[p].mem, scope |-> job[p].scope, todo |-> {a[2] : a \in job[p].ids},
             rest |-> job[p].rest, at |-> job[p].at, ids |-> job[p].ids]
    BY <1>2, <2>1 DEF IsJob
  <2>4. IsJob(j) BY <2>3 DEF IsJob
  <2>5. HoldsAt("associate", j) BY <1>2, <2>3 DEF HoldsAt, Reading
  <2> QED BY <1>1, <2>2, <2>4, <2>5, HeldOnly DEF Place
<1>4. ASSUME NEW n \in job[p].todo, NEW e \in Find(n, job[p].scope),
             Goto(p, "terms", [Drop(p, n) EXCEPT !.ids = @ \cup {<<n, e>>}])
      PROVE  IInv'
  <2>1. PICK a : a = <<n, e>> OBVIOUS
  <2>2. PICK j : j = Keep(p, n, a) OBVIOUS
  <2>3. Goto(p, "terms", j) BY <1>4, <2>1, <2>2 DEF Keep
  <2>4. /\ IsJob(j) /\ j.mem = job[p].mem /\ j.scope = job[p].scope
        /\ j.todo = job[p].todo \ {n} /\ j.rest = job[p].rest /\ j.ids = job[p].ids \cup {a}
    BY <1>2, <2>2, KeepIs
  <2>5. PICK m, s : m = job[p].mem /\ s = job[p].scope OBVIOUS
  <2>6. m \in Memory /\ s \in {Home[m], None} /\ n \in Text[m] /\ e \in Find(n, s)
    BY <1>2, <2>5 DEF Reading
  <2>7. Fits(job[p].mem, job[p].scope, a) BY <2>1, <2>5, <2>6, FoundFits
  <2>8. HoldsAt("terms", j) BY <1>2, <2>4, <2>7 DEF HoldsAt, Reading
  <2> QED BY <1>1, <2>3, <2>4, <2>8, HeldOnly DEF Place
<1>5. ASSUME NEW n \in job[p].todo, Goto(p, "candidate", [job[p] EXCEPT !.at = <<n, "terms">>])
      PROVE  IInv'
  <2>1. PICK j : j = [job[p] EXCEPT !.at = <<n, "terms">>] OBVIOUS
  <2>2. Goto(p, "candidate", j) BY <1>5, <2>1
  <2>3. j = [mem |-> job[p].mem, scope |-> job[p].scope, todo |-> job[p].todo,
             rest |-> job[p].rest, at |-> <<n, "terms">>, ids |-> job[p].ids]
    BY <1>2, <2>1 DEF IsJob
  <2>4. IsJob(j) BY <2>3 DEF IsJob
  <2>5. HoldsAt("candidate", j) BY <1>2, <2>3 DEF HoldsAt, Reading
  <2> QED BY <1>1, <2>2, <2>4, <2>5, HeldOnly DEF Place
<1> QED BY <1>3, <1>4, <1>5 DEF ResolveTerm

(* The steps of the heartbeat and of clients that only read.                *)
LEMMA PromoteKeeps ==
  ASSUME Parameters, IInv, NEW p \in Proc, Promote(p)
  PROVE  IInv'
<1>1. PICK ready : /\ ready \subseteq DOMAIN cand
                   /\ Goto(p, "promote", [NoJob EXCEPT !.rest = {[key |-> c, mems |-> cand[c].mems] : c \in ready}])
  BY DEF Promote, Begin
<1>2. PICK j : j = [NoJob EXCEPT !.rest = {[key |-> c, mems |-> cand[c].mems] : c \in ready}] OBVIOUS
<1>3. Goto(p, "promote", j) BY <1>1, <1>2
<1>4. IsJob(j) BY <1>2 DEF IsJob, NoJob
<1>5. \A c \in ready : MentionIt(c, cand[c].mems) BY <1>1, ByRows DEF InOrder, CandidatesOK, CandidatesMention
<1>6. j.rest = {[key |-> c, mems |-> cand[c].mems] : c \in ready} BY <1>2 DEF NoJob
<1>7. HoldsAt("promote", j) BY <1>5, <1>6 DEF HoldsAt
<1>8. UNCHANGED <<tables, called, asserted, foreign>> BY DEF Promote
<1> QED BY <1>3, <1>4, <1>7, <1>8, HeldOnly DEF Place

LEMMA SweepKeeps ==
  ASSUME IInv, NEW p \in Proc, Sweep(p) \/ SweepEntity(p) \/ CheckLink(p)
  PROVE  IInv'
<1>1. UNCHANGED <<tables, called, asserted, foreign>> BY DEF Sweep, SweepEntity, CheckLink
<1>2. \E l \in {"idle", "sweep", "check", "unlink"} : \E j : Goto(p, l, j) /\ IsJob(j)
  <2>1. CASE Sweep(p)
    BY <2>1 DEF Sweep, Begin, IsJob, NoJob
  <2>2. CASE SweepEntity(p) /\ job[p].todo = {}
    BY <2>2 DEF SweepEntity, IsJob, NoJob
  <2>3. CASE SweepEntity(p) /\ job[p].todo # {}
    <3>1. PICK e \in job[p].todo : Goto(p, "check", [Drop(p, e) EXCEPT !.rest = LinksListed(e)])
      BY <2>3 DEF SweepEntity
    <3>2. IsJob(Drop(p, e)) BY Now, DropIs
    <3>3. IsJob([Drop(p, e) EXCEPT !.rest = LinksListed(e)]) BY <3>2 DEF IsJob
    <3> QED BY <3>1, <3>3
  <2>4. CASE CheckLink(p) /\ job[p].rest = {}
    BY <2>4, Now DEF CheckLink
  <2>5. CASE CheckLink(p) /\ job[p].rest # {}
    <3>1. PICK l \in job[p].rest :
             Goto(p, IF mem[l[1]] = "live" THEN "check" ELSE "unlink",
                  [job[p] EXCEPT !.rest = job[p].rest \ {l}, !.at = l])
      BY <2>5 DEF CheckLink
    <3>2. PICK j : j = [job[p] EXCEPT !.rest = job[p].rest \ {l}, !.at = l] OBVIOUS
    <3>3. job[p] = [z \in Fields |-> job[p][z]] BY Now, SixFields
    <3>4. j = [z \in Fields |-> j[z]] BY <3>2, <3>3 DEF Fields
    <3> QED BY <3>1, <3>2, <3>4, SixFields
  <2> QED BY <2>1, <2>2, <2>3, <2>4, <2>5
<1>3. PICK l, j : l \in {"idle", "sweep", "check", "unlink"} /\ Goto(p, l, j) /\ IsJob(j) BY <1>2
<1>4. HoldsAt(l, j) BY <1>3 DEF HoldsAt
<1> QED BY <1>1, <1>3, <1>4, HeldOnly DEF Place

LEMMA EditKeeps ==
  ASSUME IInv, NEW p \in Proc, Edit(p)
  PROVE  IInv'
<1>1. PICK e \in Live, n \in Name : Goto(p, "edit", [NoJob EXCEPT !.at = <<n, e>>])
  BY DEF Edit, Begin
<1>2. PICK j : j = [NoJob EXCEPT !.at = <<n, e>>] OBVIOUS
<1>3. Goto(p, "edit", j) BY <1>1, <1>2
<1>4. IsJob(j) BY <1>2 DEF IsJob, NoJob
<1>5. HoldsAt("edit", j) BY <1>2 DEF HoldsAt, NoJob, Live
<1>6. UNCHANGED <<tables, called, asserted, foreign>> BY DEF Edit
<1> QED BY <1>3, <1>4, <1>5, <1>6, HeldOnly DEF Place

LEMMA CrashKeeps ==
  ASSUME IInv, NEW p \in Proc, Crash(p)
  PROVE  IInv'
<1>1. PICK j : j = NoJob OBVIOUS
<1>2. Goto(p, "idle", j) /\ IsJob(j) /\ HoldsAt("idle", j)
  BY <1>1 DEF Crash, IsJob, NoJob, HoldsAt
<1>3. UNCHANGED <<tables, called, asserted, foreign>> BY DEF Crash
<1> QED BY <1>2, <1>3, HeldOnly DEF Place

(* A name is looked up; if the model says that it is another name of an     *)
(* entity, that entity is called so from now on.                            *)
LEMMA ResolveNameKeeps ==
  ASSUME Parameters, IInv, NEW p \in Proc, ResolveName(p)
  PROVE  IInv'
<1>1. UNCHANGED <<tables, asserted, foreign>> BY DEF ResolveName
<1>2. IsJob(job[p]) /\ Reading(job[p])
  BY Now DEF ResolveName, At, HoldsAt
<1>3. ASSUME NEW n \in job[p].todo, NEW e \in Find(n, job[p].scope), UNCHANGED called,
             Goto(p, "link", [job[p] EXCEPT !.at = <<n, e>>])
      PROVE  IInv'
  <2>1. PICK a : a = <<n, e>> OBVIOUS
  <2>2. PICK j : j = [job[p] EXCEPT !.at = a] OBVIOUS
  <2>3. Goto(p, "link", j) BY <1>3, <2>1, <2>2
  <2>4. j = [mem |-> job[p].mem, scope |-> job[p].scope, todo |-> job[p].todo,
             rest |-> job[p].rest, at |-> a, ids |-> job[p].ids]
    BY <1>2, <2>2 DEF IsJob
  <2>5. IsJob(j) BY <2>4 DEF IsJob
  <2>6. PICK m, s : m = job[p].mem /\ s = job[p].scope OBVIOUS
  <2>7. m \in Memory /\ s \in {Home[m], None} /\ n \in Text[m] /\ e \in Find(n, s)
    BY <1>2, <2>6 DEF Reading
  <2>8. Fits(job[p].mem, job[p].scope, a) BY <2>1, <2>6, <2>7, FoundFits
  <2>9. HoldsAt("link", j) BY <1>2, <2>1, <2>4, <2>8 DEF HoldsAt, Reading
  <2> QED BY <1>1, <1>3, <2>3, <2>5, <2>9, HeldOnly DEF Place
<1>4. ASSUME NEW n \in job[p].todo, NEW e \in List(job[p].scope),
             called' = [called EXCEPT ![e] = @ \cup {n}],
             Goto(p, "link", [job[p] EXCEPT !.at = <<n, e>>])
      PROVE  IInv'
  <2>1. PICK a : a = <<n, e>> OBVIOUS
  <2>2. PICK j : j = [job[p] EXCEPT !.at = a] OBVIOUS
  <2>3. Goto(p, "link", j) BY <1>4, <2>1, <2>2
  <2>4. j = [mem |-> job[p].mem, scope |-> job[p].scope, todo |-> job[p].todo,
             rest |-> job[p].rest, at |-> a, ids |-> job[p].ids]
    BY <1>2, <2>2 DEF IsJob
  <2>5. IsJob(j) BY <2>4 DEF IsJob
  <2>6. n \in Name BY <1>2 DEF Reading, Parameters
  <2>7. e \in Entity /\ Known(e) /\ (job[p].scope = None \/ ent[e].scope = job[p].scope)
    BY <1>4 DEF List, Live, InScope, Known
  <2>8. UNCHANGED <<mem, ent, cand, link, rel, tasks>> BY <1>1 DEF tables
  <2>9. RowsTyped BY ByRows DEF InOrder
  <2>10. RowsTyped' /\ EntitiesKeep /\ Stored' = Stored
    BY <1>4, <2>6, <2>7, <2>8, <2>9 DEF RowsTyped, EntitiesKeep, Known, NamesAreCalled, Stored, EntityRow
  <2>11. \A b : Fits(job[p].mem, job[p].scope, b) => Fits(j.mem, j.scope, b)'
    <3>1. PICK m, s : m = job[p].mem /\ s = job[p].scope OBVIOUS
    <3>2. \A b : Fits(m, s, b) => Fits(m, s, b)' BY <2>10, FitsStays
    <3> QED BY <3>1, <3>2, <2>4
  <2>12. n \in called'[e] BY <1>4, <2>7, <2>9 DEF RowsTyped
  <2>13. Fits(j.mem, j.scope, a)'
    BY <1>2, <2>1, <2>4, <2>6, <2>7, <2>8, <2>12 DEF Fits, Known, Names, Reading
  <2>14. HoldsAt("link", j)' BY <1>2, <2>1, <2>4, <2>11, <2>13 DEF HoldsAt, Reading
  <2> QED BY <1>1, <2>3, <2>5, <2>8, <2>10, <2>14, EntitiesOnly DEF Place
<1>5. ASSUME NEW n \in job[p].todo, UNCHANGED called,
             Goto(p, "candidate", [job[p] EXCEPT !.at = <<n, "names">>])
      PROVE  IInv'
  <2>1. PICK j : j = [job[p] EXCEPT !.at = <<n, "names">>] OBVIOUS
  <2>2. Goto(p, "candidate", j) BY <1>5, <2>1
  <2>3. j = [mem |-> job[p].mem, scope |-> job[p].scope, todo |-> job[p].todo,
             rest |-> job[p].rest, at |-> <<n, "names">>, ids |-> job[p].ids]
    BY <1>2, <2>1 DEF IsJob
  <2>4. IsJob(j) BY <2>3 DEF IsJob
  <2>5. Reading(j) BY <1>2, <2>3 DEF Reading
  <2>6. j.at[1] \in j.todo /\ j.at[2] = "names" BY <2>3
  <2>7. HoldsAt("candidate", j) BY <2>5, <2>6 DEF HoldsAt
  <2> QED BY <1>1, <1>5, <2>2, <2>4, <2>7, HeldOnly DEF Place
<1> QED BY <1>3, <1>4, <1>5 DEF ResolveName

------------------------------------------------------------------------------
(* The answers of a batch, whole or in halves, are about the right items.   *)

Answered(items, a) == a.index \in 1..Len(items) /\ a.names \subseteq Text[items[a.index]]

LEMMA AnswersFit ==
  ASSUME NEW items, NEW out \in Answers(items), NEW a \in out
  PROVE  Answered(items, a)
<1>1. PICK f : /\ \E I \in SUBSET (1..Len(items)) : f \in [I -> SUBSET Name]
               /\ \A i \in DOMAIN f : f[i] \in Understood(items[i])
               /\ out = {[index |-> i, names |-> f[i]] : i \in DOMAIN f}
  BY DEF Answers
<1>2. PICK i \in DOMAIN f : a = [index |-> i, names |-> f[i]] BY <1>1
<1>3. i \in 1..Len(items) BY <1>1
<1> QED BY <1>1, <1>2, <1>3 DEF Answered, Understood

LEMMA HalvesOf ==
  ASSUME NEW S, NEW s \in Seq(S), NEW k \in Nat, k <= Len(s)
  PROVE  /\ Len(SubSeq(s, 1, k)) = k
         /\ \A i \in 1..k : SubSeq(s, 1, k)[i] = s[i]
         /\ Len(SubSeq(s, k + 1, Len(s))) = Len(s) - k
         /\ \A i \in 1..(Len(s) - k) : SubSeq(s, k + 1, Len(s))[i] = s[k + i]
BY SMT

LEMMA BatchFits ==
  ASSUME NEW items \in Seq(Memory), NEW out \in BatchAnswers(items), NEW a \in out
  PROVE  Answered(items, a)
<1> DEFINE mid == Len(items) \div 2
           first  == SubSeq(items, 1, mid)
           second == SubSeq(items, mid + 1, Len(items))
<1>1. mid \in Nat /\ mid <= Len(items) /\ Len(items) \in Nat OBVIOUS
<1>2. PICK k \in Nat : k = mid /\ k <= Len(items) BY <1>1
<1>3. first = SubSeq(items, 1, k) /\ second = SubSeq(items, k + 1, Len(items)) BY <1>2
<1>4. /\ Len(first) = k /\ \A i \in 1..k : first[i] = items[i]
      /\ Len(second) = Len(items) - k /\ \A i \in 1..(Len(items) - k) : second[i] = items[k + i]
  <2> HIDE DEF mid, first, second
  <2> QED BY <1>2, <1>3, HalvesOf
<1> HIDE DEF mid, first, second
<1>5. CASE out \in Answers(items)
  BY <1>5, AnswersFit
<1>6. ASSUME NEW o1 \in Answers(first), NEW o2 \in Answers(second), out = Merged(o1, o2, mid)
      PROVE  Answered(items, a)
  <2>1. CASE a \in o1
    <3>1. Answered(first, a) BY <2>1, AnswersFit
    <3> QED BY <1>1, <1>2, <1>4, <3>1 DEF Answered
  <2>2. ASSUME NEW b \in o2, a = [b EXCEPT !.index = @ + mid]
        PROVE  Answered(items, a)
    <3>1. Answered(second, b) BY AnswersFit
    <3>2. b.index \in 1..(Len(items) - k) /\ b.names \subseteq Text[items[k + b.index]]
      BY <1>1, <1>2, <1>4, <3>1 DEF Answered
    <3>3. PICK i, names : b = [index |-> i, names |-> names] BY DEF Answers
    <3>4. a.index = b.index + k /\ a.names = b.names BY <1>2, <2>2, <3>3
    <3> QED BY <1>1, <1>2, <3>2, <3>4 DEF Answered
  <2> QED BY <1>6, <2>1, <2>2 DEF Merged
<1> QED BY <1>5, <1>6 DEF BatchAnswers, mid, first, second

LEMMA ItemsAreMemories ==
  ASSUME Parameters, NEW S \in SUBSET Memory
  PROVE  SetToSeq(S) \in Seq(Memory)
<1>1. IsFiniteSet(S) BY FS_Subset DEF Parameters
<1>2. Cardinality(S) \in Nat /\ ExistsBijection(1..Cardinality(S), S) BY <1>1, FS_CardinalityType
<1>3. \E f \in [1..Cardinality(S) -> S] : IsInjective(f)
  BY <1>2 DEF ExistsBijection, Bijection, Injection
<1>4. SetToSeq(S) \in [1..Cardinality(S) -> S] BY <1>3 DEF SetToSeq
<1> QED BY <1>2, <1>4

LEMMA BackfillKeeps ==
  ASSUME Parameters, IInv, NEW p \in Proc, Backfill(p)
  PROVE  IInv'
<1> DEFINE missing == {m \in Memory : mem[m] = "live" /\ \A l \in link : l[1] # m}
           items == SetToSeq(missing)
<1>1. PICK out \in BatchAnswers(items) :
         Goto(p, "batch", [NoJob EXCEPT !.rest = {<<items[a.index], a.names>> : a \in out}])
  BY DEF Backfill, Begin
<1>2. PICK j : j = [NoJob EXCEPT !.rest = {<<items[a.index], a.names>> : a \in out}] OBVIOUS
<1>3. Goto(p, "batch", j) BY <1>1, <1>2
<1>4. IsJob(j) BY <1>2 DEF IsJob, NoJob
<1>5. items \in Seq(Memory) BY ItemsAreMemories
<1> HIDE DEF missing, items
<1>6. ASSUME NEW a \in out PROVE IsItem(<<items[a.index], a.names>>)
  <2>1. Answered(items, a) BY <1>1, <1>5, BatchFits
  <2>2. items[a.index] \in Memory BY <1>5, <2>1 DEF Answered
  <2>3. Text[items[a.index]] \subseteq Name BY <2>2 DEF Parameters
  <2> QED BY <2>1, <2>2, <2>3 DEF Answered, IsItem
<1>7. j.scope = None /\ j.rest = {<<items[a.index], a.names>> : a \in out} BY <1>2 DEF NoJob
<1>8. HoldsAt("batch", j) BY <1>6, <1>7 DEF HoldsAt
<1>9. UNCHANGED <<tables, called, asserted, foreign>> BY DEF Backfill
<1> QED BY <1>3, <1>4, <1>8, <1>9, HeldOnly DEF Place

------------------------------------------------------------------------------
(* The steps that write links, candidates, tasks and relations.             *)

(* A step that writes no entity: the rows that are new must be in order.    *)
LEMMA EntitiesStay ==
  ASSUME IInv, UNCHANGED <<mem, ent, called>>, asserted \subseteq asserted', foreign \subseteq foreign',
         CandidatesOK', \A m \in link' \ link : LinkOK(m)',
         \A r \in DOMAIN rel' : RelationOK(r)', \A t \in tasks' \ tasks : TaskOK(t)',
         JobsHold' /\ JobsTyped'
  PROVE  IInv'
<1>1. EntitiesKeep /\ RowsTyped' /\ Stored' = Stored BY ByRows, SameEntities DEF InOrder
<1>2. \A m \in link' : LinkOK(m)'
  <2> SUFFICES ASSUME NEW m \in link PROVE LinkOK(m)' OBVIOUS
  <2>1. LinkOK(m) BY ByRows DEF InOrder
  <2> QED BY <1>1, <2>1, LinkStays DEF LinkOK
<1>3. \A t \in tasks' : TaskOK(t)' BY <1>1, ByRows, TaskStays DEF InOrder
<1> QED BY <1>1, <1>2, <1>3, NextByRows DEF InOrder

LEMMA SameRows ==
  ASSUME IInv, UNCHANGED <<mem, ent, called>>, asserted \subseteq asserted'
  PROVE  /\ UNCHANGED cand => CandidatesOK'
         /\ UNCHANGED rel => \A r \in DOMAIN rel' : RelationOK(r)'
         /\ UNCHANGED <<pc, job>> => JobsHold' /\ JobsTyped'
         /\ \A p \in Proc, l \in Place : \A j :
               Goto(p, l, j) /\ IsJob(j) /\ HoldsAt(l, j) => JobsHold' /\ JobsTyped'
<1>1. EntitiesKeep /\ RowsTyped' /\ Stored' = Stored BY ByRows, SameEntities DEF InOrder
<1>2. UNCHANGED cand => CandidatesOK' BY ByRows, SameCandidates DEF InOrder
<1>3. UNCHANGED rel => \A r \in DOMAIN rel' : RelationOK(r)' BY <1>1, SameRelations
<1>4. ASSUME NEW p \in Proc, NEW l \in Place, NEW j, Goto(p, l, j), IsJob(j), HoldsAt(l, j)
      PROVE  JobsHold' /\ JobsTyped'
  <2>1. HoldsAt(l, j)' BY <1>1, <1>4, HoldsStays
  <2> QED BY <1>1, <1>4, <2>1, OneMoves
<1>5. UNCHANGED <<pc, job>> => JobsHold' /\ JobsTyped' BY <1>1, NoneMoves
<1> QED BY <1>2, <1>3, <1>4, <1>5

(* What fits may be linked: in a batch, the link is noted as such.          *)
LEMMA FittingLink ==
  ASSUME NEW m \in Memory, NEW s, NEW a, Fits(m, s, a), CanLink(m, a[2]),
         s # Home[m] \/ s = None => <<m, a[2]>> \in foreign'
  PROVE  /\ <<m, a[2]>> \in Memory \X Stored
         /\ Mentions(m, a[2])
         /\ <<m, a[2]>> \in foreign' \/ ent[a[2]].scope \in {Home[m], None}
BY DEF Fits, CanLink, Mentions

LEMMA LinkNameKeeps ==
  ASSUME Parameters, IInv, NEW p \in Proc, LinkName(p)
  PROVE  IInv'
<1>1. IsJob(job[p]) /\ Reading(job[p]) /\ Fits(job[p].mem, job[p].scope, job[p].at)
  BY Now DEF LinkName, At, HoldsAt
<1>2. UNCHANGED <<mem, ent, cand, rel, tasks, called, asserted>> BY DEF LinkName
<1>3. foreign \subseteq foreign' BY DEF LinkName
<1>4. PICK m, s, a : m = job[p].mem /\ s = job[p].scope /\ a = job[p].at OBVIOUS
<1>5. Goto(p, "names", Keep(p, a[1], a)) BY <1>4 DEF LinkName, Keep
<1>6. PICK j : j = Keep(p, a[1], a) OBVIOUS
<1>7. /\ IsJob(j) /\ j.mem = m /\ j.scope = s /\ j.todo = job[p].todo \ {a[1]}
      /\ j.rest = job[p].rest /\ j.ids = job[p].ids \cup {a}
  BY <1>1, <1>4, <1>6, KeepIs
<1>8. HoldsAt("names", j) BY <1>1, <1>4, <1>7 DEF HoldsAt, Reading
<1>9. ASSUME NEW k \in link' \ link PROVE LinkOK(k)'
  <2>1. k = <<m, a[2]>> /\ CanLink(m, a[2]) BY <1>4 DEF LinkName, Link
  <2>2. m \in Memory /\ s \in {Home[m], None} BY <1>1, <1>4 DEF Reading
  <2>3. Home[m] # None BY <2>2 DEF Parameters
  <2>4. s # Home[m] \/ s = None => <<m, a[2]>> \in foreign'
    BY <1>4, <2>2, <2>3 DEF LinkName, IsBatch
  <2>5. Fits(m, s, a) BY <1>1, <1>4
  <2>6. /\ k \in Memory \X Stored /\ Mentions(k[1], k[2])
        /\ k \in foreign' \/ ent[k[2]].scope \in {Home[k[1]], None}
    BY <2>1, <2>2, <2>4, <2>5, FittingLink
  <2> QED BY <1>2, <2>6 DEF LinkOK, Stored, Mentions, Names
<1>10. CandidatesOK' /\ \A r \in DOMAIN rel' : RelationOK(r)' BY <1>2, SameRows
<1>11. JobsHold' /\ JobsTyped' BY <1>2, <1>5, <1>6, <1>7, <1>8, SameRows DEF Place
<1> QED BY <1>2, <1>3, <1>9, <1>10, <1>11, EntitiesStay

LEMMA LesserOf ==
  ASSUME NEW a \in Nat, NEW b \in Nat
  PROVE  Min({a, b}) = IF a <= b THEN a ELSE b
BY DEF Min

(* A candidate is given one more memory, which mentions it.                 *)
LEMMA CandidateNamed ==
  ASSUME CandidatesOK, NEW c \in Name \X (Scope \cup {None}), NEW h \in 0..MinHits,
         NEW x \in Memory \cup {None}, x # None => c[1] \in Text[x] /\ c[2] = Home[x],
         NEW M, M \subseteq cand[c].mems \cup {x},
         cand' = [cand EXCEPT ![c] = [hits |-> h, mems |-> M]]
  PROVE  CandidatesOK'
<1>1. cand[c].mems \subseteq Memory \cup {None} BY DEF CandidatesOK, Candidate
<1>2. [hits |-> h, mems |-> M] \in Candidate BY <1>1 DEF Candidate
<1>3. cand' \in [Name \X (Scope \cup {None}) -> Candidate] BY <1>2 DEF CandidatesOK
<1>4. ASSUME NEW d \in DOMAIN cand' PROVE MentionIt(d, cand'[d].mems)
  <2>1. d \in DOMAIN cand /\ MentionIt(d, cand[d].mems) BY <1>4 DEF CandidatesOK, CandidatesMention
  <2>2. CASE d = c
    BY <2>1, <2>2 DEF CandidatesOK, MentionIt
  <2>3. CASE d # c
    BY <2>1, <2>3 DEF CandidatesOK
  <2> QED BY <2>2, <2>3
<1> QED BY <1>3, <1>4 DEF CandidatesOK, CandidatesMention

(* What the job in a candidate step holds, and what it goes on with.        *)
LEMMA AtCandidate ==
  ASSUME Parameters, IInv, NEW p \in Proc, pc[p] \in {"candidate", "insert"}
  PROVE  /\ CandidateKey(p) \in Name \X (Scope \cup {None})
         /\ Mentioner(p) \in Memory \cup {None}
         /\ Mentioner(p) # None => /\ CandidateKey(p)[1] \in Text[Mentioner(p)]
                                   /\ CandidateKey(p)[2] = Home[Mentioner(p)]
         /\ job[p].at[2] \in Place
         /\ IsJob(Drop(p, job[p].at[1])) /\ HoldsAt(job[p].at[2], Drop(p, job[p].at[1]))
<1>1. IsJob(job[p]) /\ HoldsAt(pc[p], job[p]) BY Now
<1>2. /\ Reading(job[p]) /\ job[p].at[1] \in job[p].todo
      /\ job[p].at[2] \in {"names", "terms"}
      /\ job[p].at[2] = "terms" => job[p].scope = Home[job[p].mem]
  BY <1>1 DEF HoldsAt
<1>3. /\ job[p].mem \in Memory /\ job[p].at[1] \in Text[job[p].mem] /\ job[p].at[1] \in Name
      /\ job[p].scope \in {Home[job[p].mem], None} /\ Home[job[p].mem] \in Scope
  BY <1>2 DEF Reading, Parameters
<1>4. PICK k : k = Drop(p, job[p].at[1]) OBVIOUS
<1>5. /\ IsJob(k) /\ k.mem = job[p].mem /\ k.scope = job[p].scope /\ k.todo \subseteq job[p].todo
      /\ k.rest = job[p].rest /\ k.ids = job[p].ids
  BY <1>1, <1>4, DropIs
<1>6. Reading(k) /\ (job[p].at[2] = "terms" => k.scope = Home[k.mem]) BY <1>2, <1>5 DEF Reading
<1>7. HoldsAt(job[p].at[2], k) BY <1>2, <1>6 DEF HoldsAt
<1> QED BY <1>2, <1>3, <1>4, <1>5, <1>7 DEF CandidateKey, Mentioner, IsBatch, Place

LEMMA UpdateCandidateKeeps ==
  ASSUME Parameters, IInv, NEW p \in Proc, UpdateCandidate(p)
  PROVE  IInv'
<1>1. UNCHANGED <<mem, ent, link, rel, tasks, called, asserted, foreign>> BY DEF UpdateCandidate
<1>2. pc[p] = "candidate" BY DEF UpdateCandidate, At
<1>3. CandidatesOK BY ByRows DEF InOrder
<1>4. CASE cand[CandidateKey(p)].hits > 0
  <2>1. PICK c, x, h : /\ c = CandidateKey(p) /\ x = Mentioner(p)
                       /\ h = Min({cand[CandidateKey(p)].hits + 1, MinHits})
    OBVIOUS
  <2>2. cand' = [cand EXCEPT ![c] = [hits |-> h, mems |-> cand[c].mems \cup {x}]]
    BY <1>4, <2>1 DEF UpdateCandidate
  <2>3. c \in Name \X (Scope \cup {None}) /\ x \in Memory \cup {None}
    BY <1>2, <2>1, AtCandidate
  <2>4. x # None => c[1] \in Text[x] /\ c[2] = Home[x] BY <1>2, <2>1, AtCandidate
  <2>5. cand[c].hits \in Nat /\ MinHits \in Nat
    BY <1>3, <2>3 DEF CandidatesOK, Candidate, Parameters
  <2>6. h \in 0..MinHits BY <2>1, <2>5, LesserOf
  <2>7. CandidatesOK' BY <1>3, <2>2, <2>3, <2>4, <2>6, CandidateNamed
  <2>8. PICK l, j : l = job[p].at[2] /\ j = Drop(p, job[p].at[1]) OBVIOUS
  <2>9. l \in Place /\ IsJob(j) /\ HoldsAt(l, j) BY <1>2, <2>8, AtCandidate
  <2>10. Goto(p, l, j) BY <1>4, <2>8 DEF UpdateCandidate
  <2>11. JobsHold' /\ JobsTyped' BY <1>1, <2>9, <2>10, SameRows
  <2>12. \A r \in DOMAIN rel' : RelationOK(r)' BY <1>1, SameRows
  <2> QED BY <1>1, <2>7, <2>11, <2>12, EntitiesStay
<1>5. CASE ~(cand[CandidateKey(p)].hits > 0)
  <2>1. UNCHANGED cand /\ Goto(p, "insert", job[p]) BY <1>5 DEF UpdateCandidate
  <2>2. PICK j : j = job[p] OBVIOUS
  <2>3. IsJob(j) /\ HoldsAt("insert", j) BY <1>2, <2>2, Now DEF HoldsAt
  <2> QED BY <1>1, <2>1, <2>2, <2>3, HeldOnly DEF Place, tables
<1> QED BY <1>4, <1>5

LEMMA InsertCandidateKeeps ==
  ASSUME Parameters, IInv, NEW p \in Proc, InsertCandidate(p)
  PROVE  IInv'
<1>1. UNCHANGED <<mem, ent, link, rel, tasks, called, asserted, foreign>> BY DEF InsertCandidate
<1>2. pc[p] = "insert" BY DEF InsertCandidate, At
<1>3. CandidatesOK BY ByRows DEF InOrder
<1>4. CandidatesOK'
  <2>1. CASE UNCHANGED cand
    BY <1>3, <2>1, SameCandidates
  <2>2. CASE cand' = [cand EXCEPT ![CandidateKey(p)] = [hits |-> 1, mems |-> {Mentioner(p)}]]
    <3>1. PICK c, x : c = CandidateKey(p) /\ x = Mentioner(p) OBVIOUS
    <3>2. c \in Name \X (Scope \cup {None}) /\ x \in Memory \cup {None}
      BY <1>2, <3>1, AtCandidate
    <3>3. x # None => c[1] \in Text[x] /\ c[2] = Home[x] BY <1>2, <3>1, AtCandidate
    <3>4. 1 \in 0..MinHits BY DEF Parameters
    <3> QED BY <1>3, <2>2, <3>1, <3>2, <3>3, <3>4, CandidateNamed
  <2> QED BY <2>1, <2>2 DEF InsertCandidate
<1>5. PICK l, j : l = job[p].at[2] /\ j = Drop(p, job[p].at[1]) OBVIOUS
<1>6. l \in Place /\ IsJob(j) /\ HoldsAt(l, j) BY <1>2, <1>5, AtCandidate
<1>7. Goto(p, l, j) BY <1>5 DEF InsertCandidate
<1>8. JobsHold' /\ JobsTyped' BY <1>1, <1>6, <1>7, SameRows
<1>9. \A r \in DOMAIN rel' : RelationOK(r)' BY <1>1, SameRows
<1> QED BY <1>1, <1>4, <1>8, <1>9, EntitiesStay

(* Names that fit one memory lead to entities that it mentions.             *)
LEMMA PairsGrounded ==
  ASSUME NEW m \in Memory, NEW s, NEW ids, \A a \in ids : Fits(m, s, a), NEW r \in Pairs(ids)
  PROVE  Grounded(r)
<1>1. PICK a \in ids, b \in ids : r = <<a[2], b[2]>> BY DEF Pairs
<1>2. Fits(m, s, a) /\ Fits(m, s, b) OBVIOUS
<1> QED BY <1>1, <1>2 DEF Fits, Grounded, Mentions

(* A relation with a mention more.                                          *)
LEMMA MentionedOK ==
  ASSUME Parameters, IInv, UNCHANGED <<mem, ent, called>>, asserted \subseteq asserted',
         NEW r \in Stored \X Stored, Grounded(r) \/ r \in asserted', rel' = Mentioned(r)
  PROVE  \A q \in DOMAIN rel' : RelationOK(q)'
<1>1. DOMAIN rel' = DOMAIN rel \cup {r} BY DEF Mentioned
<1>2. EntitiesKeep /\ Stored' = Stored BY ByRows, SameEntities DEF InOrder
<1>3. \A q \in DOMAIN rel : RelationOK(q) BY ByRows DEF InOrder
<1>4. rel'[r] \in Relation
  <2>1. CASE r \in DOMAIN rel
    <3>1. rel[r].count \in 1..MinMentions BY <1>3, <2>1 DEF RelationOK, Relation
    <3>2. PICK n \in Nat : n = rel[r].count /\ n >= 1 BY <3>1
    <3>3. Min({n + 1, MinMentions}) \in 1..MinMentions BY <3>2, LesserOf DEF Parameters
    <3>4. rel'[r] = [count |-> Min({n + 1, MinMentions}), old |-> FALSE]
      BY <2>1, <3>2 DEF Mentioned
    <3> QED BY <3>3, <3>4 DEF Relation
  <2>2. CASE r \notin DOMAIN rel
    <3>1. rel'[r] = [count |-> 1, old |-> FALSE] BY <2>2 DEF Mentioned
    <3> QED BY <3>1 DEF Relation, Parameters
  <2> QED BY <2>1, <2>2
<1>5. RelationOK(r)'
  <2>1. Grounded(r) => Grounded(r)' BY <1>2, GroundedStays
  <2> QED BY <1>2, <1>4, <2>1 DEF RelationOK
<1>6. ASSUME NEW q \in DOMAIN rel, q # r PROVE RelationOK(q)'
  <2>1. rel'[q] = rel[q] BY <1>6 DEF Mentioned
  <2>2. RelationOK(q) BY <1>3, <1>6
  <2> QED BY <1>2, <2>1, <2>2, RelationStays DEF RelationOK
<1> QED BY <1>1, <1>5, <1>6

LEMMA UpsertOK ==
  ASSUME Parameters, IInv, UNCHANGED <<mem, ent, called, asserted>>,
         NEW r, Grounded(r), rel' = Mentioned(r) \/ rel' = rel, rel' # rel => CanRelate(r)
  PROVE  \A q \in DOMAIN rel' : RelationOK(q)'
<1>1. CASE rel' = rel
  BY <1>1, SameRows
<1>2. CASE rel' # rel
  <2>1. r \in Stored \X Stored BY <1>2 DEF CanRelate, Grounded
  <2> QED BY <1>2, <2>1, MentionedOK
<1> QED BY <1>1, <1>2

LEMMA NamedKeeps ==
  ASSUME Parameters, IInv, NEW p \in Proc, Named(p)
  PROVE  IInv'
<1>1. UNCHANGED <<mem, ent, cand, link, rel, called, asserted, foreign>> BY DEF Named
<1>2. IsJob(job[p]) /\ Reading(job[p]) BY Now DEF Named, At, HoldsAt
<1>3. PICK m, s, ids : m = job[p].mem /\ s = job[p].scope /\ ids = job[p].ids OBVIOUS
<1>4. m \in Memory /\ \A a \in ids : Fits(m, s, a) BY <1>2, <1>3 DEF Reading
<1>5. CandidatesOK' /\ \A r \in DOMAIN rel' : RelationOK(r)' BY <1>1, SameRows
<1>6. CASE tasks' = tasks \cup {[mem |-> job[p].mem, ids |-> job[p].ids]} /\ Goto(p, "idle", NoJob)
  <2>1. PICK j : j = NoJob OBVIOUS
  <2>2. Goto(p, "idle", j) /\ IsJob(j) /\ HoldsAt("idle", j) BY <1>6, <2>1 DEF NoJob, IsJob, HoldsAt
  <2>3. JobsHold' /\ JobsTyped' BY <1>1, <2>2, SameRows DEF Place
  <2>4. ASSUME NEW t \in tasks' \ tasks PROVE TaskOK(t)'
    <3>1. t = [mem |-> m, ids |-> ids] BY <1>3, <1>6
    <3>2. TaskOK(t) BY <1>4, <3>1 DEF TaskOK, Fits
    <3>3. EntitiesKeep BY <1>1, ByRows, SameEntities DEF InOrder
    <3> QED BY <3>2, <3>3, TaskStays
  <2> QED BY <1>1, <1>5, <2>3, <2>4, EntitiesStay
<1>7. ASSUME NEW rels \in SUBSET Pairs(job[p].ids), UNCHANGED tasks,
             Goto(p, "relate", [job[p] EXCEPT !.todo = rels])
      PROVE  IInv'
  <2>1. PICK j : j = [job[p] EXCEPT !.todo = rels] OBVIOUS
  <2>2. Goto(p, "relate", j) BY <1>7, <2>1
  <2>3. j = [mem |-> job[p].mem, scope |-> job[p].scope, todo |-> rels,
             rest |-> job[p].rest, at |-> job[p].at, ids |-> job[p].ids]
    BY <1>2, <2>1 DEF IsJob
  <2>4. IsJob(j) BY <2>3 DEF IsJob
  <2>5. \A r \in rels : Grounded(r) BY <1>3, <1>4, PairsGrounded
  <2>6. HoldsAt("relate", j) BY <1>2, <2>3, <2>5 DEF HoldsAt, Reading
  <2> QED BY <1>1, <1>7, <2>2, <2>4, <2>6, HeldOnly DEF Place, tables
<1> QED BY <1>6, <1>7 DEF Named

LEMMA RelateKeeps ==
  ASSUME Parameters, IInv, NEW p \in Proc, Relate(p)
  PROVE  IInv'
<1>1. UNCHANGED <<mem, ent, cand, link, tasks, called, asserted, foreign>> BY DEF Relate
<1>2. /\ IsJob(job[p]) /\ \A r \in job[p].todo : Grounded(r)
      /\ job[p].scope = None => \A i \in job[p].rest : IsItem(i)
  BY Now DEF Relate, At, HoldsAt
<1>3. CASE job[p].todo = {}
  <2>1. PICK l, j : /\ l = IF IsBatch(p) THEN "batch" ELSE "idle"
                    /\ j = IF IsBatch(p) THEN job[p] ELSE NoJob
    OBVIOUS
  <2>2. Goto(p, l, j) /\ UNCHANGED rel BY <1>3, <2>1 DEF Relate
  <2>3. l \in Place /\ IsJob(j) BY <1>2, <2>1 DEF Place, NoJob, IsJob
  <2>4. HoldsAt(l, j)
    <3>1. CASE IsBatch(p)
      BY <1>2, <2>1, <3>1 DEF HoldsAt, IsBatch
    <3>2. CASE ~IsBatch(p)
      BY <2>1, <3>2 DEF HoldsAt
    <3> QED BY <3>1, <3>2
  <2> QED BY <1>1, <2>2, <2>3, <2>4, HeldOnly DEF tables
<1>4. ASSUME NEW r \in job[p].todo, Upsert(r), Goto(p, "relate", Drop(p, r))
      PROVE  IInv'
  <2>1. PICK j : j = Drop(p, r) OBVIOUS
  <2>2. Goto(p, "relate", j) BY <1>4, <2>1
  <2>3. /\ IsJob(j) /\ j.todo \subseteq job[p].todo /\ j.rest = job[p].rest /\ j.scope = job[p].scope
    BY <1>2, <2>1, DropIs
  <2>4. HoldsAt("relate", j) BY <1>2, <2>3 DEF HoldsAt
  <2>5. \A q \in DOMAIN rel' : RelationOK(q)'
    <3>1. Grounded(r) BY <1>2
    <3> QED BY <1>1, <1>4, <3>1, UpsertOK DEF Upsert
  <2>6. CandidatesOK' BY <1>1, SameRows
  <2>7. JobsHold' /\ JobsTyped' BY <1>1, <2>2, <2>3, <2>4, SameRows DEF Place
  <2> QED BY <1>1, <2>5, <2>6, <2>7, EntitiesStay
<1> QED BY <1>3, <1>4 DEF Relate

LEMMA RelationTaskKeeps ==
  ASSUME Parameters, IInv, NEW p \in Proc, RelationTask(p)
  PROVE  IInv'
<1>1. UNCHANGED <<mem, ent, cand, link, rel, called, asserted, foreign>> BY DEF RelationTask
<1>2. PICK t, rels :
         /\ t \in tasks /\ rels \subseteq Pairs(t.ids) /\ tasks' \subseteq tasks
         /\ Goto(p, "relate", [NoJob EXCEPT !.mem = t.mem, !.scope = Home[t.mem], !.todo = rels])
  BY DEF RelationTask, Begin
<1>3. TaskOK(t) BY <1>2, ByRows DEF InOrder
<1>4. PICK j : j = [NoJob EXCEPT !.mem = t.mem, !.scope = Home[t.mem], !.todo = rels] OBVIOUS
<1>5. Goto(p, "relate", j) BY <1>2, <1>4
<1>6. IsJob(j) BY <1>4 DEF IsJob, NoJob
<1>7. \A r \in rels : Grounded(r)
  BY <1>2, <1>3, PairsGrounded DEF TaskOK
<1>8. j.todo = rels /\ j.rest = {} BY <1>4 DEF NoJob
<1>9. HoldsAt("relate", j) BY <1>7, <1>8 DEF HoldsAt
<1>10. JobsHold' /\ JobsTyped' BY <1>1, <1>5, <1>6, <1>9, SameRows DEF Place
<1>11. CandidatesOK' /\ \A r \in DOMAIN rel' : RelationOK(r)' BY <1>1, SameRows
<1> QED BY <1>1, <1>2, <1>10, <1>11, EntitiesStay

(* A term has its entity, in the scope of the memory, or none.              *)
LEMMA AssociateKeeps ==
  ASSUME Parameters, IInv, NEW p \in Proc, Associate(p)
  PROVE  IInv'
<1>1. UNCHANGED <<mem, ent, cand, rel, tasks, called, asserted, foreign>> BY DEF Associate
<1>2. PICK m, ids : m = job[p].mem /\ ids = job[p].ids OBVIOUS
<1>3. /\ IsJob(job[p]) /\ m \in Memory /\ \A a \in ids : Fits(m, Home[m], a)
      /\ job[p].todo \subseteq {a[2] : a \in ids}
  BY <1>2, Now DEF Associate, At, HoldsAt
<1>4. Home[m] \in Scope /\ Home[m] # None BY <1>3 DEF Parameters
<1>5. ASSUME NEW e \in job[p].todo, Link(job[p].mem, e), Goto(p, "associate", Drop(p, e))
      PROVE  IInv'
  <2>1. PICK j : j = Drop(p, e) OBVIOUS
  <2>2. Goto(p, "associate", j) BY <1>5, <2>1
  <2>3. IsJob(j) /\ j.mem = m /\ j.ids = ids /\ j.todo \subseteq job[p].todo BY <1>2, <1>3, <2>1, DropIs
  <2>4. HoldsAt("associate", j) BY <1>3, <2>3 DEF HoldsAt
  <2>5. ASSUME NEW k \in link' \ link PROVE LinkOK(k)'
    <3>1. k = <<m, e>> /\ CanLink(m, e) BY <1>2, <1>5 DEF Link
    <3>2. PICK a \in ids : e = a[2] BY <1>3
    <3>3. Fits(m, Home[m], a) BY <1>3
    <3>4. /\ k \in Memory \X Stored /\ Mentions(k[1], k[2])
          /\ k \in foreign' \/ ent[k[2]].scope \in {Home[k[1]], None}
      BY <1>3, <1>4, <3>1, <3>2, <3>3 DEF Fits, CanLink, Mentions
    <3> QED BY <1>1, <3>4 DEF LinkOK, Stored, Mentions, Names
  <2>6. CandidatesOK' /\ \A r \in DOMAIN rel' : RelationOK(r)' BY <1>1, SameRows
  <2>7. JobsHold' /\ JobsTyped' BY <1>1, <2>2, <2>3, <2>4, SameRows DEF Place
  <2> QED BY <1>1, <2>5, <2>6, <2>7, EntitiesStay
<1>6. ASSUME NEW rels \in SUBSET Pairs(job[p].ids), UNCHANGED link,
             Goto(p, "stats", [job[p] EXCEPT !.todo = rels])
      PROVE  IInv'
  <2>1. PICK j : j = [job[p] EXCEPT !.todo = rels] OBVIOUS
  <2>2. Goto(p, "stats", j) BY <1>6, <2>1
  <2>3. j = [mem |-> job[p].mem, scope |-> job[p].scope, todo |-> rels,
             rest |-> job[p].rest, at |-> job[p].at, ids |-> job[p].ids]
    BY <1>3, <2>1 DEF IsJob
  <2>4. IsJob(j) BY <2>3 DEF IsJob
  <2>5. \A r \in rels : Grounded(r) BY <1>2, <1>3, PairsGrounded
  <2>6. HoldsAt("stats", j) BY <2>3, <2>5 DEF HoldsAt
  <2> QED BY <1>1, <1>6, <2>2, <2>4, <2>6, HeldOnly DEF Place, tables
<1> QED BY <1>5, <1>6 DEF Associate

LEMMA UpdateStatsKeeps ==
  ASSUME Parameters, IInv, NEW p \in Proc, UpdateStats(p)
  PROVE  IInv'
<1>1. UNCHANGED <<mem, ent, cand, link, tasks, called, asserted, foreign>> BY DEF UpdateStats
<1>2. IsJob(job[p]) /\ \A r \in job[p].todo : Grounded(r) BY Now DEF UpdateStats, At, HoldsAt
<1>3. CASE Goto(p, "idle", NoJob) /\ UNCHANGED rel
  <2>1. PICK j : j = NoJob OBVIOUS
  <2>2. Goto(p, "idle", j) /\ IsJob(j) /\ HoldsAt("idle", j) BY <1>3, <2>1 DEF NoJob, IsJob, HoldsAt
  <2> QED BY <1>1, <1>3, <2>2, HeldOnly DEF Place, tables
<1>4. ASSUME NEW r \in job[p].todo, r \in DOMAIN rel, rel' = Mentioned(r), Goto(p, "stats", Drop(p, r))
      PROVE  IInv'
  <2>1. PICK j : j = Drop(p, r) OBVIOUS
  <2>2. Goto(p, "stats", j) BY <1>4, <2>1
  <2>3. IsJob(j) /\ j.todo \subseteq job[p].todo BY <1>2, <2>1, DropIs
  <2>4. HoldsAt("stats", j) BY <1>2, <2>3 DEF HoldsAt
  <2>5. r \in Stored \X Stored BY <1>4, ByRows DEF InOrder, RelationOK
  <2>6. Grounded(r) BY <1>2
  <2>7. \A q \in DOMAIN rel' : RelationOK(q)' BY <1>1, <1>4, <2>5, <2>6, MentionedOK
  <2>8. CandidatesOK' BY <1>1, SameRows
  <2>9. JobsHold' /\ JobsTyped' BY <1>1, <2>2, <2>3, <2>4, SameRows DEF Place
  <2> QED BY <1>1, <2>7, <2>8, <2>9, EntitiesStay
<1>5. ASSUME NEW r \in job[p].todo, UNCHANGED rel, Goto(p, "relation", [job[p] EXCEPT !.at = r])
      PROVE  IInv'
  <2>1. PICK j : j = [job[p] EXCEPT !.at = r] OBVIOUS
  <2>2. Goto(p, "relation", j) BY <1>5, <2>1
  <2>3. j = [mem |-> job[p].mem, scope |-> job[p].scope, todo |-> job[p].todo,
             rest |-> job[p].rest, at |-> r, ids |-> job[p].ids]
    BY <1>2, <2>1 DEF IsJob
  <2>4. IsJob(j) BY <2>3 DEF IsJob
  <2>5. HoldsAt("relation", j) BY <1>2, <2>3 DEF HoldsAt
  <2> QED BY <1>1, <1>5, <2>2, <2>4, <2>5, HeldOnly DEF Place, tables
<1> QED BY <1>3, <1>4, <1>5 DEF UpdateStats

LEMMA InsertRelationKeeps ==
  ASSUME Parameters, IInv, NEW p \in Proc, InsertRelation(p)
  PROVE  IInv'
<1>1. UNCHANGED <<mem, ent, cand, link, tasks, called, asserted, foreign>> BY DEF InsertRelation
<1>2. IsJob(job[p]) /\ Grounded(job[p].at) /\ \A r \in job[p].todo : Grounded(r)
  BY Now DEF InsertRelation, At, HoldsAt
<1>3. PICK r, j : r = job[p].at /\ j = Drop(p, job[p].at) OBVIOUS
<1>4. Goto(p, "stats", j) BY <1>3 DEF InsertRelation
<1>5. IsJob(j) /\ j.todo \subseteq job[p].todo BY <1>2, <1>3, DropIs
<1>6. HoldsAt("stats", j) BY <1>2, <1>5 DEF HoldsAt
<1>7. rel' = Mentioned(r) \/ rel' = rel BY <1>3 DEF InsertRelation
<1>8. rel' # rel => CanRelate(r) BY <1>3 DEF InsertRelation
<1>9. Grounded(r) BY <1>2, <1>3
<1>10. \A q \in DOMAIN rel' : RelationOK(q)' BY <1>1, <1>7, <1>8, <1>9, UpsertOK
<1>11. CandidatesOK' BY <1>1, SameRows
<1>12. JobsHold' /\ JobsTyped' BY <1>1, <1>4, <1>5, <1>6, SameRows DEF Place
<1> QED BY <1>1, <1>10, <1>11, <1>12, EntitiesStay

------------------------------------------------------------------------------
(* The steps that write entities.                                           *)

LEMMA InsertKeeps ==
  ASSUME Parameters, IInv, NEW e, NEW n \in Name, NEW s \in Scope \cup {None},
         InsertEntity(e, n, s), UNCHANGED mem
  PROVE  /\ EntitiesKeep /\ RowsTyped' /\ Stored \subseteq Stored'
         /\ e \in Entity /\ Known(e)' /\ Fold[n] \in Names(e)' /\ ent'[e].scope = s
<1>1. RowsTyped BY ByRows DEF InOrder
<1>2. /\ e \in Entity /\ ent[e].status = "free"
      /\ ent' = [ent EXCEPT ![e] = [status |-> "live", name |-> n, scope |-> s, old |-> FALSE]]
      /\ called' = [called EXCEPT ![e] = {n}]
  BY DEF InsertEntity, Free
<1>3. [status |-> "live", name |-> n, scope |-> s, old |-> FALSE] \in EntityRow BY DEF EntityRow
<1>4. /\ ent' \in [Entity -> EntityRow] /\ called' \in [Entity -> SUBSET Name]
      /\ ent'[e] = [status |-> "live", name |-> n, scope |-> s, old |-> FALSE] /\ called'[e] = {n}
      /\ \A d \in Entity \ {e} : ent'[d] = ent[d] /\ called'[d] = called[d]
  BY <1>1, <1>2, <1>3 DEF RowsTyped
<1>5. NamesAreCalled' BY <1>1, <1>4 DEF RowsTyped, NamesAreCalled, Stored
<1>6. EntitiesKeep
  <2> SUFFICES ASSUME NEW d \in Entity, Known(d)
               PROVE  /\ ent'[d].status # "free" /\ called[d] \subseteq called'[d]
                      /\ ent'[d].scope \in {ent[d].scope, None}
    BY DEF EntitiesKeep
  <2>1. d # e BY <1>2 DEF Known
  <2> QED BY <1>4, <2>1 DEF Known
<1>7. Stored \subseteq Stored' BY <1>2, <1>4 DEF Stored
<1> QED BY <1>1, <1>2, <1>4, <1>5, <1>6, <1>7 DEF RowsTyped, Known, Names

(* Without a move of a process, and with one.                               *)
LEMMA EntitiesWritten ==
  ASSUME IInv, EntitiesKeep, RowsTyped', Stored \subseteq Stored',
         UNCHANGED <<cand, link, rel, tasks, asserted, foreign>>, JobsHold' /\ JobsTyped'
  PROVE  IInv'
<1>1. CandidatesOK' BY ByRows, SameCandidates DEF InOrder
<1>2. \A m \in link' : LinkOK(m)' BY SameLinks
<1>3. \A r \in DOMAIN rel' : RelationOK(r)' BY SameRelations
<1>4. \A t \in tasks' : TaskOK(t)' BY SameTasks
<1> QED BY <1>1, <1>2, <1>3, <1>4, NextByRows DEF InOrder

LEMMA PromoteOneKeeps ==
  ASSUME Parameters, IInv, NEW p \in Proc, PromoteOne(p)
  PROVE  IInv'
<1>1. UNCHANGED <<mem, cand, link, rel, tasks, asserted, foreign>> BY DEF PromoteOne
<1>2. \A c \in job[p].rest : MentionIt(c.key, c.mems) BY Now DEF PromoteOne, At, HoldsAt
<1>3. CASE job[p].rest = {}
  <2>1. PICK j : j = NoJob OBVIOUS
  <2>2. Goto(p, "idle", j) /\ IsJob(j) /\ HoldsAt("idle", j) /\ UNCHANGED <<ent, called>>
    BY <1>3, <2>1 DEF PromoteOne, NoJob, IsJob, HoldsAt
  <2> QED BY <1>1, <2>2, HeldOnly DEF Place, tables
<1>4. ASSUME NEW c \in job[p].rest, Goto(p, "promote", [NoJob EXCEPT !.rest = job[p].rest \ {c}]),
             UNCHANGED <<ent, called>>
      PROVE  IInv'
  <2>1. PICK j : j = [NoJob EXCEPT !.rest = job[p].rest \ {c}] OBVIOUS
  <2>2. Goto(p, "promote", j) BY <1>4, <2>1
  <2>3. IsJob(j) /\ j.rest = job[p].rest \ {c} BY <2>1 DEF IsJob, NoJob
  <2>4. HoldsAt("promote", j) BY <1>2, <2>3 DEF HoldsAt
  <2> QED BY <1>1, <1>4, <2>2, <2>3, <2>4, HeldOnly DEF Place, tables
<1>5. ASSUME NEW c \in job[p].rest, NEW e \in Free, InsertEntity(e, c.key[1], c.key[2]),
             Goto(p, "mentions", [[NoJob EXCEPT !.rest = job[p].rest \ {c}]
                                     EXCEPT !.at = <<c.key, e>>, !.todo = c.mems])
      PROVE  IInv'
  <2>1. PICK key, mems, at : key = c.key /\ mems = c.mems /\ at = <<key, e>> OBVIOUS
  <2>2. PICK j : j = [[NoJob EXCEPT !.rest = job[p].rest \ {c}] EXCEPT !.at = at, !.todo = mems]
    OBVIOUS
  <2>3. Goto(p, "mentions", j) BY <1>5, <2>1, <2>2
  <2>4. /\ j.rest = job[p].rest \ {c} /\ j.at = at /\ j.todo = mems /\ j = [z \in Fields |-> j[z]]
    BY <2>2 DEF NoJob, Fields
  <2>5. IsJob(j) BY <2>4, SixFields
  <2>6. MentionIt(key, mems) BY <1>2, <2>1
  <2>7. key[1] \in Name /\ key[2] \in Scope \cup {None} BY <2>6 DEF MentionIt
  <2>8. /\ EntitiesKeep /\ RowsTyped' /\ Stored \subseteq Stored'
        /\ e \in Entity /\ Known(e)' /\ Fold[key[1]] \in Names(e)' /\ ent'[e].scope = key[2]
    BY <1>1, <1>5, <2>1, <2>7, InsertKeeps
  <2>9. j.at[1] = key /\ j.at[2] = e BY <2>1, <2>4
  <2>10. HoldsAt("mentions", j)' BY <1>2, <2>4, <2>6, <2>8, <2>9 DEF HoldsAt
  <2> QED BY <1>1, <2>3, <2>5, <2>8, <2>10, EntitiesOnly DEF Place
<1> QED BY <1>3, <1>4, <1>5 DEF PromoteOne

LEMMA LinkMentionsKeeps ==
  ASSUME Parameters, IInv, NEW p \in Proc, LinkMentions(p)
  PROVE  IInv'
<1>1. UNCHANGED <<mem, ent, rel, tasks, called, asserted, foreign>> BY DEF LinkMentions
<1>2. PICK c, e, at : c = job[p].at[1] /\ e = job[p].at[2] /\ at = job[p].at OBVIOUS
<1>3. /\ IsJob(job[p])
      /\ \A d \in job[p].rest : MentionIt(d.key, d.mems)
      /\ MentionIt(c, job[p].todo)
      /\ e \in Entity /\ Known(e) /\ Fold[c[1]] \in Names(e)
      /\ ent[e].scope \in {c[2], None}
  BY <1>2, Now DEF LinkMentions, At, HoldsAt
<1>4. \A r \in DOMAIN rel' : RelationOK(r)' BY <1>1, SameRows
<1>5. ASSUME NEW m \in job[p].todo, IF m = None THEN UNCHANGED link ELSE Link(m, e),
             Goto(p, "mentions", [job[p] EXCEPT !.todo = @ \ {m}]), UNCHANGED cand
      PROVE  IInv'
  <2>1. PICK j : j = [job[p] EXCEPT !.todo = @ \ {m}] OBVIOUS
  <2>2. Goto(p, "mentions", j) BY <1>5, <2>1
  <2>3. j = [mem |-> job[p].mem, scope |-> job[p].scope, todo |-> job[p].todo \ {m},
             rest |-> job[p].rest, at |-> at, ids |-> job[p].ids]
    BY <1>2, <1>3, <2>1 DEF IsJob
  <2>4. IsJob(j) BY <2>3 DEF IsJob
  <2>5. MentionIt(c, j.todo) BY <1>3, <2>3 DEF MentionIt
  <2>6. j.at[1] = c /\ j.at[2] = e /\ j.rest = job[p].rest BY <1>2, <2>3
  <2>7. HoldsAt("mentions", j) BY <1>3, <2>5, <2>6 DEF HoldsAt
  <2>8. ASSUME NEW k \in link' \ link PROVE LinkOK(k)'
    <3>1. m # None /\ k = <<m, e>> /\ CanLink(m, e) BY <1>5 DEF Link
    <3>2. m \in Memory /\ c[1] \in Text[m] /\ c[2] = Home[m] BY <1>3, <3>1 DEF MentionIt
    <3>3. /\ k \in Memory \X Stored /\ Mentions(k[1], k[2])
          /\ ent[k[2]].scope \in {Home[k[1]], None}
      BY <1>3, <3>1, <3>2 DEF CanLink, Mentions
    <3> QED BY <1>1, <3>3 DEF LinkOK, Stored, Mentions, Names
  <2>9. CandidatesOK' BY <1>1, <1>5, SameRows
  <2>10. JobsHold' /\ JobsTyped' BY <1>1, <2>2, <2>4, <2>7, SameRows DEF Place
  <2> QED BY <1>1, <1>4, <2>8, <2>9, <2>10, EntitiesStay
<1>6. ASSUME cand' = [cand EXCEPT ![job[p].at[1]] = NoCandidate], UNCHANGED link,
             Goto(p, "promote", [job[p] EXCEPT !.at = <<>>])
      PROVE  IInv'
  <2>1. PICK j : j = [job[p] EXCEPT !.at = <<>>] OBVIOUS
  <2>2. Goto(p, "promote", j) BY <1>6, <2>1
  <2>3. j = [mem |-> job[p].mem, scope |-> job[p].scope, todo |-> job[p].todo,
             rest |-> job[p].rest, at |-> <<>>, ids |-> job[p].ids]
    BY <1>3, <2>1 DEF IsJob
  <2>4. IsJob(j) BY <2>3 DEF IsJob
  <2>5. HoldsAt("promote", j) BY <1>3, <2>3 DEF HoldsAt
  <2>6. CandidatesOK'
    <3>1. PICK M : M = {} OBVIOUS
    <3>2. cand' = [cand EXCEPT ![c] = [hits |-> 0, mems |-> M]]
      BY <1>2, <1>6, <3>1 DEF NoCandidate
    <3>3. c \in Name \X (Scope \cup {None}) /\ 0 \in 0..MinHits BY <1>3 DEF MentionIt, Parameters
    <3>4. M \subseteq cand[c].mems \cup {None} BY <3>1
    <3>5. CandidatesOK BY ByRows DEF InOrder
    <3> QED BY <3>2, <3>3, <3>4, <3>5, CandidateNamed
  <2>7. JobsHold' /\ JobsTyped' BY <1>1, <2>2, <2>4, <2>5, SameRows DEF Place
  <2> QED BY <1>1, <1>4, <1>6, <2>6, <2>7, EntitiesStay
<1>7. CASE job[p].todo # {}
  <2>1. PICK m \in job[p].todo :
           /\ IF m = None THEN UNCHANGED link ELSE Link(m, job[p].at[2])
           /\ Goto(p, "mentions", [job[p] EXCEPT !.todo = @ \ {m}])
           /\ UNCHANGED cand
    BY <1>7 DEF LinkMentions
  <2> QED BY <1>2, <1>5, <2>1
<1>8. CASE job[p].todo = {}
  BY <1>6, <1>8 DEF LinkMentions
<1> QED BY <1>7, <1>8

(* Relations go: those that stay are in order.                              *)
LEMMA FewerRelations ==
  ASSUME IInv, EntitiesKeep, asserted \subseteq asserted', NEW S, S \subseteq DOMAIN rel,
         rel' = Restrict(rel, S), \A r \in S : {r[1], r[2]} \subseteq Stored'
  PROVE  \A r \in DOMAIN rel' : RelationOK(r)'
<1> SUFFICES ASSUME NEW r \in S PROVE RelationOK(r)'
  BY DEF Restrict
<1>1. RelationOK(r) BY ByRows DEF InOrder
<1>2. rel'[r] = rel[r] BY DEF Restrict
<1> QED BY <1>1, <1>2, RelationStays DEF RelationOK

(* Entities are purged, and their links and relations with them.            *)
LEMMA PurgeKeeps ==
  ASSUME IInv, NEW S \in SUBSET Stored, ent' = Purged(S), WithoutEntities(S),
         UNCHANGED <<mem, cand, tasks, called, asserted, foreign>>,
         EntitiesKeep => JobsHold' /\ JobsTyped'
  PROVE  IInv'
<1>1. RowsTyped BY ByRows DEF InOrder
<1>2. PICK gone : /\ gone.status = "gone" /\ gone.scope = None /\ gone \in EntityRow
                  /\ \A e \in Entity : ent'[e] = IF e \in S THEN gone ELSE ent[e]
  <2>1. PICK gone : gone = [NoRow EXCEPT !.status = "gone"] OBVIOUS
  <2>2. gone = [status |-> "gone", name |-> None, scope |-> None, old |-> FALSE]
    BY <2>1 DEF NoRow
  <2>3. gone \in EntityRow BY <2>2 DEF EntityRow
  <2> QED BY <2>1, <2>2, <2>3 DEF Purged
<1>3. EntitiesKeep BY <1>2 DEF EntitiesKeep, Known
<1>4. \A e \in Entity : e \in Stored' <=> e \in Stored /\ e \notin S BY <1>2 DEF Stored
<1>5. RowsTyped'
  <2>1. \A e \in Entity : ent'[e] \in EntityRow BY <1>1, <1>2 DEF RowsTyped
  <2>2. ent' \in [Entity -> EntityRow] BY <2>1 DEF Purged
  <2>3. NamesAreCalled' BY <1>1, <1>2, <1>4 DEF RowsTyped, NamesAreCalled, Stored
  <2> QED BY <1>1, <2>2, <2>3 DEF RowsTyped
<1>6. \A l \in link' : LinkOK(l)'
  <2> SUFFICES ASSUME NEW l \in link, l[2] \notin S PROVE LinkOK(l)'
    BY DEF WithoutEntities
  <2>1. LinkOK(l) BY ByRows DEF InOrder
  <2>2. l[2] \in Stored' BY <1>4, <2>1 DEF LinkOK, Stored
  <2> QED BY <1>3, <2>1, <2>2, LinkStays
<1>7. \A r \in DOMAIN rel' : RelationOK(r)'
  <2>1. PICK left : left = {r \in DOMAIN rel : r[1] \notin S /\ r[2] \notin S} OBVIOUS
  <2>2. rel' = Restrict(rel, left) BY <2>1 DEF WithoutEntities
  <2>3. ASSUME NEW r \in left PROVE {r[1], r[2]} \subseteq Stored'
    <3>1. RelationOK(r) BY <2>1, ByRows DEF InOrder
    <3> QED BY <1>4, <2>1, <3>1 DEF RelationOK, Stored
  <2> QED BY <1>3, <2>1, <2>2, <2>3, FewerRelations
<1>8. CandidatesOK' BY ByRows, SameCandidates DEF InOrder
<1>9. \A t \in tasks' : TaskOK(t)' BY <1>3, SameTasks
<1> QED BY <1>3, <1>5, <1>6, <1>7, <1>8, <1>9, NextByRows DEF InOrder

LEMMA CleanKeeps ==
  ASSUME IInv, NEW p \in Proc, Clean(p)
  PROVE  IInv'
<1>1. UNCHANGED <<mem, ent, cand, link, tasks, called, asserted, foreign>> BY DEF Clean
<1>2. PICK S : /\ S \subseteq DOMAIN rel /\ rel' = Restrict(rel, S)
  BY DEF Clean
<1>3. PICK j : j = NoJob OBVIOUS
<1>4. Goto(p, "orphans", j) /\ IsJob(j) /\ HoldsAt("orphans", j)
  BY <1>3 DEF Clean, Begin, NoJob, IsJob, HoldsAt
<1>5. EntitiesKeep /\ Stored' = Stored BY <1>1, ByRows, SameEntities DEF InOrder
<1>6. \A r \in S : {r[1], r[2]} \subseteq Stored' BY <1>2, <1>5, ByRows DEF InOrder, RelationOK
<1>7. \A r \in DOMAIN rel' : RelationOK(r)' BY <1>1, <1>2, <1>5, <1>6, FewerRelations
<1>8. JobsHold' /\ JobsTyped' /\ CandidatesOK' BY <1>1, <1>4, SameRows DEF Place
<1> QED BY <1>1, <1>7, <1>8, EntitiesStay

LEMMA CleanupOrphansKeeps ==
  ASSUME IInv, NEW p \in Proc, CleanupOrphans(p)
  PROVE  IInv'
<1>1. UNCHANGED <<mem, cand, link, rel, tasks, called, asserted, foreign>> BY DEF CleanupOrphans
<1>2. RowsTyped BY ByRows DEF InOrder
<1>3. ASSUME NEW e \in Entity
      PROVE  /\ ent'[e] \in EntityRow /\ ent'[e].scope = ent[e].scope /\ ent'[e].name = ent[e].name
             /\ ent'[e].status = IF e \in Orphans THEN "soft" ELSE ent[e].status
  BY <1>2 DEF CleanupOrphans, RowsTyped, EntityRow
<1>4. ent' \in [Entity -> EntityRow] BY <1>3 DEF CleanupOrphans
<1>5. \A e \in Orphans : ent[e].status = "live" BY DEF Orphans, Live
<1>6. EntitiesKeep BY <1>1, <1>3 DEF EntitiesKeep, Known
<1>7. Stored' = Stored BY <1>3, <1>5 DEF Stored
<1>8. RowsTyped' BY <1>1, <1>2, <1>3, <1>4, <1>7 DEF RowsTyped, NamesAreCalled, Stored
<1>9. PICK j : j = NoJob OBVIOUS
<1>10. Goto(p, "purge", j) /\ IsJob(j) BY <1>9 DEF CleanupOrphans, NoJob, IsJob
<1>11. HoldsAt("purge", j)' BY DEF HoldsAt
<1> QED BY <1>1, <1>6, <1>7, <1>8, <1>10, <1>11, EntitiesOnly DEF Place

LEMMA PurgeDeletedKeeps ==
  ASSUME IInv, NEW p \in Proc, PurgeDeleted(p)
  PROVE  IInv'
<1>1. PICK S : S = {e \in Entity : ent[e].status = "soft" /\ ent[e].old} OBVIOUS
<1>2. S \in SUBSET Stored /\ ent' = Purged(S) /\ WithoutEntities(S)
  BY <1>1 DEF PurgeDeleted, Stored
<1>3. EntitiesKeep => JobsHold' /\ JobsTyped' BY IdleMoves DEF PurgeDeleted
<1> QED BY <1>2, <1>3, PurgeKeeps DEF PurgeDeleted

LEMMA UnlinkKeeps ==
  ASSUME IInv, NEW p \in Proc, Unlink(p)
  PROVE  IInv'
<1>1. UNCHANGED <<mem, ent, cand, rel, tasks, called, asserted, foreign>> BY DEF Unlink
<1>2. PICK j : j = job[p] OBVIOUS
<1>3. Goto(p, "check", j) /\ IsJob(j) BY <1>2, Now DEF Unlink
<1>4. HoldsAt("check", j) BY DEF HoldsAt
<1>5. link' \subseteq link BY DEF Unlink
<1>6. JobsHold' /\ JobsTyped' BY <1>1, <1>3, <1>4, SameRows DEF Place
<1>7. CandidatesOK' /\ \A r \in DOMAIN rel' : RelationOK(r)' BY <1>1, SameRows
<1> QED BY <1>1, <1>5, <1>6, <1>7, EntitiesStay

LEMMA WriteEntityKeeps ==
  ASSUME Parameters, IInv, NEW p \in Proc, WriteEntity(p)
  PROVE  IInv'
<1>1. UNCHANGED <<mem, cand, link, rel, tasks, asserted, foreign>> BY DEF WriteEntity
<1>2. RowsTyped BY ByRows DEF InOrder
<1>3. PICK n \in Name, e \in Entity : job[p].at = <<n, e>>
  BY Now DEF WriteEntity, At, HoldsAt
<1>4. CASE UNCHANGED <<ent, called>>
  <2>1. EntitiesKeep /\ RowsTyped' /\ Stored' = Stored BY <1>1, <1>2, <1>4, SameEntities
  <2>2. JobsHold' /\ JobsTyped' BY <2>1, IdleMoves DEF WriteEntity
  <2> QED BY <1>1, <2>1, <2>2, EntitiesWritten
<1>5. CASE /\ e \in Stored /\ ent' = [ent EXCEPT ![e].name = n]
           /\ called' = [called EXCEPT ![e] = @ \cup {n}]
  <2>1. /\ ent'[e].status = ent[e].status /\ ent'[e].scope = ent[e].scope /\ ent'[e].name = n
        /\ ent'[e] \in EntityRow /\ called'[e] = called[e] \cup {n}
    BY <1>2, <1>5 DEF RowsTyped, EntityRow
  <2>2. \A d \in Entity \ {e} : ent'[d] = ent[d] /\ called'[d] = called[d]
    BY <1>2, <1>5 DEF RowsTyped
  <2>3. ent' \in [Entity -> EntityRow] /\ called' \in [Entity -> SUBSET Name]
    BY <1>2, <1>5, <2>1 DEF RowsTyped
  <2>4. EntitiesKeep /\ Stored' = Stored BY <2>1, <2>2 DEF EntitiesKeep, Known, Stored
  <2>5. NamesAreCalled' BY <1>2, <2>1, <2>2, <2>4 DEF RowsTyped, NamesAreCalled, Stored
  <2>6. RowsTyped' BY <1>1, <1>2, <2>3, <2>5 DEF RowsTyped
  <2>7. JobsHold' /\ JobsTyped' BY <2>4, IdleMoves DEF WriteEntity
  <2> QED BY <1>1, <2>4, <2>6, <2>7, EntitiesWritten
<1> QED BY <1>3, <1>4, <1>5 DEF WriteEntity

LEMMA AgeKeeps ==
  ASSUME IInv, NEW p \in Proc, Age(p)
  PROVE  IInv'
<1>1. UNCHANGED <<mem, cand, link, tasks, pc, job, called, asserted, foreign>> BY DEF Age
<1>2. RowsTyped BY ByRows DEF InOrder
<1>3. ASSUME NEW e \in Entity
      PROVE  /\ ent'[e] \in EntityRow /\ ent'[e].scope = ent[e].scope /\ ent'[e].name = ent[e].name
             /\ ent'[e].status = ent[e].status
  <2>1. PICK x : x = ent[e] OBVIOUS
  <2>2. x \in EntityRow BY <1>2, <2>1 DEF RowsTyped
  <2>3. ent'[e] = [x EXCEPT !.old = x.status = "soft"] BY <2>1 DEF Age
  <2> QED BY <2>1, <2>2, <2>3 DEF EntityRow
<1>4. ent' \in [Entity -> EntityRow] BY <1>3 DEF Age
<1>5. EntitiesKeep /\ Stored' = Stored BY <1>1, <1>3 DEF EntitiesKeep, Known, Stored
<1>6. RowsTyped' BY <1>1, <1>2, <1>3, <1>4, <1>5 DEF RowsTyped, NamesAreCalled, Stored
<1>7. JobsHold' /\ JobsTyped' BY <1>1, <1>5, NoneMoves
<1>8. \A r \in DOMAIN rel' : RelationOK(r)'
  <2> SUFFICES ASSUME NEW r \in DOMAIN rel PROVE RelationOK(r)'
    BY DEF Age
  <2>1. RelationOK(r) BY ByRows DEF InOrder
  <2>2. rel'[r] = [rel[r] EXCEPT !.old = TRUE] BY DEF Age
  <2>3. rel'[r] \in Relation BY <2>1, <2>2 DEF RelationOK, Relation
  <2> QED BY <1>1, <1>5, <2>1, <2>3, RelationStays DEF RelationOK
<1>9. CandidatesOK' BY <1>1, ByRows, SameCandidates DEF InOrder
<1>10. \A l \in link' : LinkOK(l)' BY <1>1, <1>5, SameLinks
<1>11. \A t \in tasks' : TaskOK(t)' BY <1>1, <1>5, SameTasks
<1> QED BY <1>6, <1>7, <1>8, <1>9, <1>10, <1>11, NextByRows DEF InOrder

(* Clients: the processes stay where they are.                              *)
LEMMA CreateEntityKeeps ==
  ASSUME Parameters, IInv, CreateEntity, UNCHANGED <<pc, job, foreign>>
  PROVE  IInv'
<1>1. PICK n \in Name, s \in Scope, e \in Free : InsertEntity(e, n, s)
  BY DEF CreateEntity
<1>2. UNCHANGED <<mem, cand, link, rel, tasks, asserted, foreign>> BY DEF CreateEntity
<1>3. EntitiesKeep /\ RowsTyped' /\ Stored \subseteq Stored' BY <1>1, <1>2, InsertKeeps
<1>4. JobsHold' /\ JobsTyped' BY <1>3, NoneMoves
<1> QED BY <1>2, <1>3, <1>4, EntitiesWritten

LEMMA DeleteEntityKeeps ==
  ASSUME IInv, DeleteEntity, UNCHANGED <<pc, job, foreign>>
  PROVE  IInv'
<1>1. PICK e \in Live : ent' = Purged({e}) /\ WithoutEntities({e}) BY DEF DeleteEntity
<1>2. PICK S : S = {e} OBVIOUS
<1>3. S \in SUBSET Stored /\ ent' = Purged(S) /\ WithoutEntities(S) BY <1>1, <1>2 DEF Live, Stored
<1>4. EntitiesKeep => JobsHold' /\ JobsTyped' BY NoneMoves
<1> QED BY <1>3, <1>4, PurgeKeeps DEF DeleteEntity

LEMMA CreateRelationKeeps ==
  ASSUME Parameters, IInv, CreateRelation, UNCHANGED <<pc, job, foreign>>
  PROVE  IInv'
<1>1. UNCHANGED <<mem, ent, cand, link, tasks, called>> BY DEF CreateRelation
<1>2. PICK r \in Live \X Entity : /\ CanRelate(r) /\ rel' = Mentioned(r)
                                  /\ asserted' = asserted \cup {r}
  BY DEF CreateRelation
<1>3. r \in Stored \X Stored /\ r \in asserted' /\ asserted \subseteq asserted' BY <1>2 DEF CanRelate
<1>4. \A q \in DOMAIN rel' : RelationOK(q)' BY <1>1, <1>2, <1>3, MentionedOK
<1>5. CandidatesOK' /\ JobsHold' /\ JobsTyped' BY <1>1, <1>3, SameRows
<1> QED BY <1>1, <1>3, <1>4, <1>5, EntitiesStay

LEMMA DeleteRelationKeeps ==
  ASSUME IInv, DeleteRelation, UNCHANGED <<pc, job, foreign>>
  PROVE  IInv'
<1>1. UNCHANGED <<mem, ent, cand, link, tasks, called, asserted>> BY DEF DeleteRelation
<1>2. PICK r, S : S = DOMAIN rel \ {r} /\ rel' = Restrict(rel, S) BY DEF DeleteRelation
<1>3. EntitiesKeep /\ Stored' = Stored BY <1>1, ByRows, SameEntities DEF InOrder
<1>4. \A q \in S : {q[1], q[2]} \subseteq Stored' BY <1>2, <1>3, ByRows DEF InOrder, RelationOK
<1>5. \A q \in DOMAIN rel' : RelationOK(q)' BY <1>1, <1>2, <1>3, <1>4, FewerRelations
<1>6. CandidatesOK' /\ JobsHold' /\ JobsTyped' BY <1>1, SameRows
<1> QED BY <1>1, <1>5, <1>6, EntitiesStay

LEMMA CreateLinkKeeps ==
  ASSUME IInv, CreateLink, UNCHANGED <<pc, job, foreign>>
  PROVE  IInv'
<1>1. UNCHANGED <<mem, ent, cand, rel, tasks, called>> BY DEF CreateLink
<1>2. PICK m \in Memory, e \in Live : /\ CanLink(m, e) /\ link' = link \cup {<<m, e>>}
                                      /\ asserted' = asserted \cup {<<m, e>>}
  BY DEF CreateLink
<1>3. \A l \in link' \ link : LinkOK(l)' BY <1>1, <1>2 DEF LinkOK, CanLink, Stored
<1>4. /\ CandidatesOK' /\ JobsHold' /\ JobsTyped'
      /\ \A r \in DOMAIN rel' : RelationOK(r)'
  BY <1>1, <1>2, SameRows
<1> QED BY <1>1, <1>2, <1>3, <1>4, EntitiesStay

LEMMA DeleteLinkKeeps ==
  ASSUME IInv, DeleteLink, UNCHANGED <<pc, job, foreign>>
  PROVE  IInv'
<1>1. UNCHANGED <<mem, ent, cand, rel, tasks, called, asserted>> /\ link' \subseteq link
  BY DEF DeleteLink
<1>2. /\ CandidatesOK' /\ JobsHold' /\ JobsTyped'
      /\ \A r \in DOMAIN rel' : RelationOK(r)'
  BY <1>1, SameRows
<1> QED BY <1>1, <1>2, EntitiesStay

LEMMA ChangeMemoryKeeps ==
  ASSUME IInv, ChangeMemory, UNCHANGED <<pc, job, foreign>>
  PROVE  IInv'
<1>1. UNCHANGED <<ent, cand, rel, tasks, called, asserted, foreign>> /\ link' \subseteq link
  BY DEF ChangeMemory
<1>2. RowsTyped BY ByRows DEF InOrder
<1>3. mem' \in [Memory -> {"live", "deleted", "gone"}] BY <1>2 DEF RowsTyped, ChangeMemory
<1>4. EntitiesKeep /\ Stored' = Stored BY <1>1, <1>2 DEF EntitiesKeep, Known, RowsTyped, EntityRow, Stored
<1>5. RowsTyped' BY <1>1, <1>2, <1>3 DEF RowsTyped, NamesAreCalled, Stored
<1>6. JobsHold' /\ JobsTyped' BY <1>4, NoneMoves
<1>7. \A l \in link' : LinkOK(l)'
  <2> SUFFICES ASSUME NEW l \in link PROVE LinkOK(l)' BY <1>1
  <2>1. LinkOK(l) BY ByRows DEF InOrder
  <2> QED BY <1>1, <1>4, <2>1, LinkStays DEF LinkOK
<1>8. CandidatesOK' BY <1>1, ByRows, SameCandidates DEF InOrder
<1>9. \A r \in DOMAIN rel' : RelationOK(r)' BY <1>1, <1>4, SameRelations
<1>10. \A t \in tasks' : TaskOK(t)' BY <1>1, <1>4, SameTasks
<1> QED BY <1>5, <1>6, <1>7, <1>8, <1>9, <1>10, NextByRows DEF InOrder

LEMMA ClientKeeps ==
  ASSUME Parameters, IInv, NEW p \in Proc, Client(p)
  PROVE  IInv'
BY CreateEntityKeeps, DeleteEntityKeeps, CreateRelationKeeps, DeleteRelationKeeps,
   CreateLinkKeeps, DeleteLinkKeeps, ChangeMemoryKeeps DEF Client

------------------------------------------------------------------------------
(* The theorems.                                                            *)

LEMMA InitHolds ==
  ASSUME Parameters, Init
  PROVE  IInv
<1>1. NoRow \in EntityRow BY DEF NoRow, EntityRow
<1>2. RowsTyped BY <1>1 DEF Init, RowsTyped, NamesAreCalled, Stored, NoRow
<1>3. CandidatesOK
  BY DEF Init, Parameters, CandidatesOK, CandidatesMention, MentionIt, Candidate, NoCandidate
<1>4. JobsHold BY DEF Init, JobsHold, HoldsAt
<1>5. JobsTyped BY DEF Init, JobsTyped, Place, IsJob, NoJob
<1>6. link = {} /\ DOMAIN rel = {} /\ tasks = {} BY DEF Init
<1> QED BY <1>2, <1>3, <1>4, <1>5, <1>6, ByRows DEF InOrder

LEMMA StutterHolds ==
  ASSUME IInv, UNCHANGED vars
  PROVE  IInv'
<1>1. UNCHANGED <<mem, ent, cand, link, rel, tasks, pc, job, called, asserted, foreign>>
  BY DEF vars, tables
<1>2. /\ CandidatesOK' /\ JobsHold' /\ JobsTyped'
      /\ \A r \in DOMAIN rel' : RelationOK(r)'
  BY <1>1, SameRows
<1> QED BY <1>1, <1>2, EntitiesStay

LEMMA StepHolds ==
  ASSUME Parameters, IInv, NEW p \in Proc, Step(p)
  PROVE  IInv'
<1>1. CASE Extract(p)         BY <1>1, ExtractKeeps
<1>2. CASE Backfill(p)        BY <1>2, BackfillKeeps
<1>3. CASE Item(p)            BY <1>3, ItemKeeps
<1>4. CASE ResolveName(p)     BY <1>4, ResolveNameKeeps
<1>5. CASE LinkName(p)        BY <1>5, LinkNameKeeps
<1>6. CASE UpdateCandidate(p) BY <1>6, UpdateCandidateKeeps
<1>7. CASE InsertCandidate(p) BY <1>7, InsertCandidateKeeps
<1>8. CASE Named(p)           BY <1>8, NamedKeeps
<1>9. CASE Relate(p)          BY <1>9, RelateKeeps
<1>10. CASE RelationTask(p)   BY <1>10, RelationTaskKeeps
<1>11. CASE Resolve(p)        BY <1>11, ResolveKeeps
<1>12. CASE ResolveTerm(p)    BY <1>12, ResolveTermKeeps
<1>13. CASE Associate(p)      BY <1>13, AssociateKeeps
<1>14. CASE UpdateStats(p)    BY <1>14, UpdateStatsKeeps
<1>15. CASE InsertRelation(p) BY <1>15, InsertRelationKeeps
<1>16. CASE Promote(p)        BY <1>16, PromoteKeeps
<1>17. CASE PromoteOne(p)     BY <1>17, PromoteOneKeeps
<1>18. CASE LinkMentions(p)   BY <1>18, LinkMentionsKeeps
<1>19. CASE Clean(p)          BY <1>19, CleanKeeps
<1>20. CASE CleanupOrphans(p) BY <1>20, CleanupOrphansKeeps
<1>21. CASE PurgeDeleted(p)   BY <1>21, PurgeDeletedKeeps
<1>22. CASE Sweep(p) \/ SweepEntity(p) \/ CheckLink(p)
  BY <1>22, SweepKeeps
<1>23. CASE Unlink(p)         BY <1>23, UnlinkKeeps
<1>24. CASE Edit(p)           BY <1>24, EditKeeps
<1>25. CASE WriteEntity(p)    BY <1>25, WriteEntityKeeps
<1>26. CASE Client(p)         BY <1>26, ClientKeeps
<1>27. CASE Crash(p)          BY <1>27, CrashKeeps
<1>28. CASE Age(p)            BY <1>28, AgeKeeps
<1> QED BY <1>1, <1>2, <1>3, <1>4, <1>5, <1>6, <1>7, <1>8, <1>9, <1>10, <1>11, <1>12, <1>13, <1>14,
           <1>15, <1>16, <1>17, <1>18, <1>19, <1>20, <1>21, <1>22, <1>23, <1>24, <1>25, <1>26,
           <1>27, <1>28 DEF Step

(* What jobs hold fits the memory they work on, and tables are in order, in *)
(* every interleaving of extraction, resolution, promotion, clean-up,       *)
(* sweeps and clients.                                                      *)
THEOREM Invariance == Parameters => (Spec => []IInv)
<1> SUFFICES ASSUME Parameters PROVE Spec => []IInv OBVIOUS
<1>1. Init => IInv BY InitHolds
<1>2. IInv /\ [Next]_vars => IInv'
  <2>1. ASSUME IInv, Next PROVE IInv'
    BY <2>1, StepHolds DEF Next
  <2> QED BY <2>1, StutterHolds
<1> QED BY <1>1, <1>2, PTL DEF Spec

(* The types of the tables; links and relations lead to rows that there     *)
(* are, also when an entity is purged while a job holds its identifier.     *)
THEOREM Typed == Parameters => (Spec => []TypeOK)
<1>1. IInv => TypeOK BY DEF IInv, GraphInv
<1> QED BY <1>1, Invariance, PTL

(* A link that no client made leads from a memory to an entity that it      *)
(* mentions, by a name the entity has had or was matched with.              *)
THEOREM LinksFollowTexts == Parameters => (Spec => []LinksAreMentions)
<1>1. IInv => LinksAreMentions BY DEF IInv, GraphInv
<1> QED BY <1>1, Invariance, PTL

(* A relation that no client made joins entities that one memory mentions,  *)
(* with tasks delivered late, again, or after their entities were purged.   *)
THEOREM RelationsFollowTexts == Parameters => (Spec => []RelationsAreGrounded)
<1>1. IInv => RelationsAreGrounded BY DEF IInv, GraphInv
<1> QED BY <1>1, Invariance, PTL

(* Links that neither a client nor a backfill made stay in the scope of the *)
(* memory, also when they were promised by a candidate of another time.     *)
THEOREM LinksKeepScope == Parameters => (Spec => []LinksStayInScope)
<1>1. IInv => LinksStayInScope BY DEF IInv, GraphInv
<1> QED BY <1>1, Invariance, PTL
=============================================================================
