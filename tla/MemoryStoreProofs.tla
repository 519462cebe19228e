-------------------------- MODULE MemoryStoreProofs --------------------------
(***************************************************************************)
(* Proofs about MemoryStore for every set of memories, contents, contexts, *)
(* requests and operations, with and without faults; then about Migrations *)
(* for every set of processes and of files that fit.                       *)
(*                                                                         *)
(* The invariant of MemoryStore has two halves that do not meet: RowsOK    *)
(* speaks of the table and its index, RequestsOK of what running requests  *)
(* hold.  That of Migrations has SchemaInv, of rows and of what processes  *)
(* count, and OpenInv, of the schema.                                      *)
(***************************************************************************)
EXTENDS MemoryStore, Migrations, FiniteSetTheorems, WellFoundedInduction, TLAPS

USE DEF Status

Row == [status : Status, content : Content \cup {None}, hash : Content \cup {None},
        ctx : Context \cup {None}]
Job == [op : {"create", "rewrite", "update", "delete", "none"},
        mem : Memory \cup {None}, content : Content \cup {None},
        ctx : Context \cup {None}, old : Context \cup {None}]

RowsTyped ==
    /\ row \in [Memory -> Row]
    /\ fts \subseteq Memory \X Content
    /\ \A m \in Memory : Stored(m) => row[m].content \in Content

RowsOK == RowsTyped /\ UniqueHash /\ LiveIsSearchable /\ IndexHoldsRows

RequestsOK ==
    /\ pc \in [Proc -> PC]
    /\ job \in [Proc -> Job]
    /\ JobsHold

RestTyped ==
    /\ vec \in [Memory -> Content \cup {None}]
    /\ count \in [Context -> Nat]
    /\ misled \subseteq {"content", "deleted"}
    /\ refused \subseteq {"create", "restore"}

LEMMA Halves == IInv <=> RowsOK /\ RequestsOK /\ RestTyped
<1>1. TypeOK <=> RowsTyped /\ pc \in [Proc -> PC] /\ job \in [Proc -> Job] /\ RestTyped
  <2>1. ASSUME row \in [Memory -> Row]
        PROVE  (\A m \in Memory : row[m].status \in {"live", "deleted"} => row[m].content # None)
               <=> \A m \in Memory : Stored(m) => row[m].content \in Content
    BY <2>1, NoneAssumption DEF Stored, Row
  <2>2. QED
    BY <2>1, Zenon DEF TypeOK, RowsTyped, RestTyped, Row, Job
<1>2. QED
  BY <1>1, Zenon DEF IInv, RowsOK, RequestsOK

LEMMA InitIInv == Init => IInv
<1> SUFFICES ASSUME Init PROVE IInv
  OBVIOUS
<1> USE DEF Init
<1>1. RowsOK
  BY DEF RowsOK, RowsTyped, UniqueHash, LiveIsSearchable, IndexHoldsRows, Row, Stored, Live, Words
<1>2. RequestsOK
  BY DEF RequestsOK, JobsHold, Job, NoJob, PC
<1>3. RestTyped
  BY DEF RestTyped
<1>4. QED
  BY <1>1, <1>2, <1>3, Halves

------------------------------------------------------------------------------
(* What each store operation does to the table and the index.               *)

LEMMA RowsKept == ASSUME RowsOK, UNCHANGED rowVars PROVE RowsOK'
BY DEF RowsOK, RowsTyped, UniqueHash, LiveIsSearchable, IndexHoldsRows, Words, Stored, Live, rowVars

\* A new row under a hash no live row has.
LEMMA RowInserted ==
  ASSUME RowsOK, NEW m \in Absent, NEW c \in Content, NEW x \in Context \cup {None},
         TakenBy(c) = {},
         row' = [row EXCEPT ![m] = [status |-> "live", content |-> c, hash |-> c, ctx |-> x]],
         fts' = fts \cup {<<m, c>>}
  PROVE  RowsOK'
<1> USE DEF Row, Stored, Live, Absent
<1>1. m \in Memory /\ row \in [Memory -> Row]
  BY DEF RowsOK, RowsTyped
<1>2. \A n \in Memory : n # m => row'[n] = row[n]
  BY <1>1
<1>3. row'[m] = [status |-> "live", content |-> c, hash |-> c, ctx |-> x]
  BY <1>1
<1>4. RowsTyped'
  BY <1>1, <1>2, <1>3 DEF RowsOK, RowsTyped
<1>5. UniqueHash'
  BY <1>2, <1>3 DEF RowsOK, UniqueHash, TakenBy
<1>6. LiveIsSearchable'
  BY <1>2, <1>3 DEF RowsOK, LiveIsSearchable, Words
<1>7. IndexHoldsRows'
  BY <1>1, <1>2, <1>3 DEF RowsOK, IndexHoldsRows, Words
<1>8. QED
  BY <1>4, <1>5, <1>6, <1>7 DEF RowsOK

\* A whole-row write: neither the status nor the hash of any row changes.
LEMMA RowUpdated ==
  ASSUME RowsOK, NEW m \in Memory, Stored(m), NEW c \in Content,
         NEW x \in Context \cup {None}, StoreUpdate(m, c, x)
  PROVE  RowsOK' /\ \A n \in Memory : row'[n].status = row[n].status
<1> USE DEF Row, Stored, Live
<1>1. row \in [Memory -> Row]
  BY DEF RowsOK, RowsTyped
<1>2. \A n \in Memory : n # m => row'[n] = row[n]
  BY <1>1 DEF StoreUpdate
<1>3. /\ row'[m].status = row[m].status /\ row'[m].hash = row[m].hash
      /\ row'[m].content = c /\ row'[m] \in Row /\ row' \in [Memory -> Row]
  BY <1>1 DEF StoreUpdate
<1>4. fts' = (fts \ Unindexed({m})) \cup {<<m, c>>}
  BY DEF StoreUpdate
<1>5. Unindexed({m}) = IF Segmented THEN {} ELSE {<<m, row[m].content>>}
  BY DEF Unindexed, Words
<1>6. RowsTyped'
  BY <1>1, <1>2, <1>3, <1>4 DEF RowsOK, RowsTyped
<1>7. UniqueHash'
  BY <1>2, <1>3 DEF RowsOK, UniqueHash
<1>8. LiveIsSearchable'
  BY <1>2, <1>3, <1>4, <1>5 DEF RowsOK, LiveIsSearchable, Words
<1>9. IndexHoldsRows'
  <2>1. SUFFICES ASSUME ~Segmented, NEW w \in fts' PROVE w \in Words({n \in Memory : Stored(n)})'
    BY DEF IndexHoldsRows
  <2>2. CASE w = <<m, c>>
    BY <1>3, <2>2 DEF Words
  <2>3. CASE w \in fts \ Unindexed({m})
    <3>1. PICK n \in Memory : Stored(n) /\ w = <<n, row[n].content>>
      BY <2>1, <2>3 DEF RowsOK, IndexHoldsRows, Words
    <3>2. n # m
      BY <1>5, <2>1, <2>3, <3>1
    <3>3. QED
      BY <1>2, <3>1, <3>2 DEF Words
  <2>4. QED
    BY <1>4, <2>1, <2>2, <2>3
<1>10. QED
  BY <1>2, <1>3, <1>6, <1>7, <1>8, <1>9 DEF RowsOK

\* Rows that leave the live ones, for the trash or for good.
LEMMA RowsRemoved ==
  ASSUME RowsOK, NEW S \in SUBSET Memory, NEW s \in {"deleted", "purged"},
         row' = SetStatus(S, s), fts' = fts \ Unindexed(S), S \subseteq Live \/ S \subseteq Deleted
  PROVE  RowsOK' /\ \A n \in Memory : row'[n].status = IF n \in S THEN s ELSE row[n].status
<1> USE DEF Row, Stored, Live, Deleted
<1>1. row \in [Memory -> Row]
  BY DEF RowsOK, RowsTyped
<1>2. \A n \in Memory : n \notin S => row'[n] = row[n]
  BY <1>1 DEF SetStatus
<1>3. \A n \in S : row'[n].status = s /\ row'[n].content = row[n].content /\ row'[n].hash = row[n].hash
  BY <1>1 DEF SetStatus
<1>4. row' \in [Memory -> Row]
  BY <1>1 DEF SetStatus
<1>5. Unindexed(S) = IF Segmented THEN {} ELSE {<<n, row[n].content>> : n \in S}
  BY DEF Unindexed, Words
<1>6. RowsTyped'
  BY <1>2, <1>3, <1>4 DEF RowsOK, RowsTyped
<1>7. UniqueHash'
  BY <1>2, <1>3 DEF RowsOK, UniqueHash
<1>8. LiveIsSearchable'
  BY <1>2, <1>3, <1>5 DEF RowsOK, LiveIsSearchable, Words
<1>9. IndexHoldsRows'
  <2>1. SUFFICES ASSUME ~Segmented, NEW w \in fts' PROVE w \in Words({n \in Memory : Stored(n)})'
    BY DEF IndexHoldsRows
  <2>2. PICK n \in Memory : Stored(n) /\ w = <<n, row[n].content>>
    BY <2>1 DEF RowsOK, IndexHoldsRows, Words
  <2>3. n \notin S
    BY <1>5, <2>1, <2>2
  <2>4. QED
    BY <1>2, <2>2, <2>3 DEF Words
<1>10. QED
  BY <1>2, <1>3, <1>6, <1>7, <1>8, <1>9 DEF RowsOK

\* Rows that come back, unless the unique index refuses one of them.
LEMMA RowsRestored ==
  ASSUME RowsOK, NEW S \in SUBSET Deleted, NEW T \in SUBSET Live, StoreRestore(S, T)
  PROVE  RowsOK' /\ \A n \in Memory : row[n].status # "deleted" => row'[n].status = row[n].status
<1> USE DEF Row, Stored, Live, Deleted
<1>1. row \in [Memory -> Row]
  BY DEF RowsOK, RowsTyped
<1>2. CASE Clashes(S) = {}
  <2>1. row' = SetStatus(S, "live") /\ fts' = fts \cup Words(S \cup T)
    BY <1>2 DEF StoreRestore
  <2>2. \A n \in Memory : n \notin S => row'[n] = row[n]
    BY <1>1, <2>1 DEF SetStatus
  <2>3. \A n \in S : row'[n].status = "live" /\ row'[n].content = row[n].content
                     /\ row'[n].hash = row[n].hash
    BY <1>1, <2>1 DEF SetStatus
  <2>4. row' \in [Memory -> Row]
    BY <1>1, <2>1 DEF SetStatus
  <2>5. Words(S \cup T) \subseteq Memory \X Content
    BY DEF Words, RowsOK, RowsTyped
  <2>6. RowsTyped'
    BY <2>1, <2>2, <2>3, <2>4, <2>5 DEF RowsOK, RowsTyped
  <2>7. UniqueHash'
    <3>1. SUFFICES ASSUME NEW m \in Live', NEW n \in Live', row'[m].hash = row'[n].hash, m # n
                   PROVE  FALSE
      BY DEF UniqueHash
    <3>2. m \in S \cup Live /\ n \in S \cup Live /\ row[m].hash = row[n].hash
      BY <2>2, <2>3, <3>1
    <3>3. m \in S \/ n \in S
      BY <3>1, <3>2 DEF RowsOK, UniqueHash
    <3>4. QED
      BY <1>2, <3>1, <3>2, <3>3 DEF Clashes
  <2>8. LiveIsSearchable'
    BY <2>1, <2>2, <2>3 DEF RowsOK, LiveIsSearchable, Words
  <2>9. IndexHoldsRows'
    <3>1. SUFFICES ASSUME ~Segmented, NEW w \in fts' PROVE w \in Words({n \in Memory : Stored(n)})'
      BY DEF IndexHoldsRows
    <3>2. PICK n \in Memory : Stored(n) /\ w = <<n, row[n].content>>
      BY <2>1, <3>1 DEF RowsOK, IndexHoldsRows, Words
    <3>3. QED
      BY <2>2, <2>3, <3>2 DEF Words
  <2>10. QED
    BY <2>2, <2>6, <2>7, <2>8, <2>9 DEF RowsOK
<1>3. CASE Clashes(S) # {}
  BY <1>3, RowsKept DEF StoreRestore, rowVars
<1>4. QED
  BY <1>2, <1>3

------------------------------------------------------------------------------
(* What a step does to the request that takes it.                           *)

\* What a request at l with job j must hold.
Holds(l, j) ==
    /\ l \notin {"idle", "hash", "embed", "insert"} => j.mem \in Memory
    /\ j.op \notin {"none", "delete"} => j.content \in Content
    /\ l \in {"hash", "embed", "insert", "excerpt"} => j.op = "create"
    /\ l = "write" => j.op \in {"rewrite", "update"}

LEMMA RequestSet ==
  ASSUME RequestsOK, NEW p \in Proc, NEW l \in PC, NEW j \in Job, Goto(p, l),
         job' = [job EXCEPT ![p] = j], Holds(l, j)
  PROVE  RequestsOK'
<1>1. \A q \in Proc : pc'[q] = (IF q = p THEN l ELSE pc[q]) /\ job'[q] = (IF q = p THEN j ELSE job[q])
  BY DEF RequestsOK, Goto
<1>2. pc' \in [Proc -> PC] /\ job' \in [Proc -> Job]
  BY DEF RequestsOK, Goto
<1>3. JobsHold'
  BY <1>1 DEF RequestsOK, JobsHold, Holds
<1>4. QED
  BY <1>2, <1>3 DEF RequestsOK

LEMMA RequestKept == ASSUME RequestsOK, UNCHANGED <<pc, job>> PROVE RequestsOK'
BY DEF RequestsOK, JobsHold

LEMMA NoJobType == NoJob \in Job
BY DEF NoJob, Job

LEMMA RequestDone == ASSUME RequestsOK, NEW p \in Proc, Done(p) PROVE RequestsOK'
<1>1. Holds("idle", NoJob)
  BY DEF Holds, NoJob
<1>2. QED
  BY <1>1, NoJobType, RequestSet DEF Done, PC

LEMMA RequestGoes ==
  ASSUME RequestsOK, NEW p \in Proc, NEW l \in PC, Goto(p, l), UNCHANGED job, Holds(l, job[p])
  PROVE  RequestsOK'
<1>1. job' = [job EXCEPT ![p] = job[p]] /\ job[p] \in Job
  BY DEF RequestsOK
<1>2. QED
  BY <1>1, RequestSet

\* From a place where the memory is known a request can go to any other one
\* that has no condition on the operation.
LEMMA RequestLeaves ==
  ASSUME RequestsOK, NEW p \in Proc, job[p].mem \in Memory,
         NEW l \in {"idle", "trash", "uncount", "count", "vector", "excerpt", "unvector"},
         Leave(p, l),
         l = "excerpt" => job[p].op = "create"
  PROVE  RequestsOK'
<1>1. CASE l = "idle"
  BY <1>1, RequestDone DEF Leave
<1>2. CASE l # "idle"
  <2>1. Goto(p, l) /\ UNCHANGED job
    BY <1>2 DEF Leave
  <2>2. Holds(l, job[p])
    BY DEF Holds, RequestsOK, JobsHold
  <2>3. QED
    BY <2>1, <2>2, RequestGoes DEF PC
<1>3. QED
  BY <1>1, <1>2

------------------------------------------------------------------------------
(* The steps.                                                               *)

LEMMA RequestsStep == IInv /\ [Next]_vars => RequestsOK'
<1> SUFFICES ASSUME RowsOK, RequestsOK, [Next]_vars PROVE RequestsOK'
  BY Halves
<1>0. /\ \A q \in Proc : job[q] \in Job
      /\ \A q \in Proc : Holds(pc[q], job[q])
      /\ \A m \in Memory : row[m] \in Row
  BY DEF RequestsOK, RowsOK, RowsTyped, JobsHold, Holds
<1>1. ASSUME NEW p \in Proc, Create(p) PROVE RequestsOK'
  <2>1. PICK c \in Content, x \in Context \cup {None} :
           job' = [job EXCEPT ![p] = [NoJob EXCEPT !.op = "create", !.content = c, !.ctx = x]]
    BY <1>1 DEF Create
  <2> DEFINE j == [NoJob EXCEPT !.op = "create", !.content = c, !.ctx = x]
  <2>2. j \in Job /\ Holds("hash", j)
    BY DEF NoJob, Job, Holds
  <2>3. Goto(p, "hash")
    BY <1>1 DEF Create
  <2>4. QED
    BY <2>1, <2>2, <2>3, RequestSet DEF PC
<1>2. ASSUME NEW p \in Proc, HashDedup(p) PROVE RequestsOK'
  <2>1. CASE Done(p)
    BY <2>1, RequestDone
  <2>2. CASE Goto(p, "embed") /\ UNCHANGED job
    <3>1. Holds("embed", job[p])
      BY <1>0, <1>2 DEF HashDedup, Holds
    <3>2. QED
      BY <2>2, <3>1, RequestGoes DEF PC
  <2>3. QED
    BY <1>2, <2>1, <2>2 DEF HashDedup, Answer
<1>3. ASSUME NEW p \in Proc, VectorDedupCheck(p) PROVE RequestsOK'
  <2>1. CASE Done(p)
    BY <2>1, RequestDone
  <2>2. CASE Goto(p, "insert") /\ UNCHANGED job
    <3>1. Holds("insert", job[p])
      BY <1>0, <1>3 DEF VectorDedupCheck, Holds
    <3>2. QED
      BY <2>2, <3>1, RequestGoes DEF PC
  <2>3. QED
    BY <1>3, <2>1, <2>2 DEF VectorDedupCheck, Answer
<1>4. ASSUME NEW p \in Proc, Insert(p) PROVE RequestsOK'
  <2>1. CASE Done(p)
    BY <2>1, RequestDone
  <2>2. ASSUME NEW m \in Absent, NEW l \in {"vector", "count"}, Goto(p, l),
               job' = [job EXCEPT ![p].mem = m]
        PROVE  RequestsOK'
    <3> DEFINE j == [job[p] EXCEPT !.mem = m]
    <3>1. job' = [job EXCEPT ![p] = j]
      BY <2>2
    <3>2. j \in Job /\ Holds(l, j)
      BY <1>0, <1>4, <2>2 DEF Insert, Job, Holds, Absent
    <3>3. QED
      BY <2>2, <3>1, <3>2, RequestSet DEF PC
  <2>3. QED
    BY <1>4, <2>1, <2>2 DEF Insert
<1>5. ASSUME NEW p \in Proc, Count(p) PROVE RequestsOK'
  BY <1>0, <1>5, RequestLeaves DEF Count, Holds
<1>6. ASSUME NEW p \in Proc, WriteVector(p) PROVE RequestsOK'
  BY <1>0, <1>6, RequestLeaves DEF WriteVector, Holds
<1>7. ASSUME NEW p \in Proc, Read(p) PROVE RequestsOK'
  <2>1. PICK m \in Live, o \in {"rewrite", "update"}, c \in Content, x \in Context \cup {None} :
           job' = [job EXCEPT ![p] = [op |-> o, mem |-> m, content |-> c, ctx |-> x,
                                      old |-> row[m].ctx]]
    BY <1>7 DEF Read
  <2> DEFINE j == [op |-> o, mem |-> m, content |-> c, ctx |-> x, old |-> row[m].ctx]
  <2>2. j \in Job /\ Holds("write", j)
    BY <1>0, <2>1 DEF Job, Holds, Live, Row
  <2>3. Goto(p, "write")
    BY <1>7 DEF Read
  <2>4. QED
    BY <2>1, <2>2, <2>3, RequestSet DEF PC
<1>8. ASSUME NEW p \in Proc, Write(p) PROVE RequestsOK'
  <2>1. AfterWrite(job[p]) \in {"uncount", "count", "idle", "vector"} /\ job[p].mem \in Memory
    BY <1>0, <1>8 DEF AfterWrite, Write, Holds
  <2>2. CASE Done(p)
    BY <2>2, RequestDone
  <2>3. CASE Leave(p, AfterWrite(job[p]))
    BY <2>1, <2>3, RequestLeaves
  <2>4. QED
    BY <1>8, <2>2, <2>3 DEF Write
<1>9. ASSUME NEW p \in Proc, Uncount(p) PROVE RequestsOK'
  BY <1>0, <1>9, RequestLeaves DEF Uncount, Holds
<1>10. ASSUME NEW p \in Proc, Delete(p) PROVE RequestsOK'
  <2>1. PICK m \in Live :
           job' = [job EXCEPT ![p] = [NoJob EXCEPT !.op = "delete", !.mem = m, !.old = row[m].ctx]]
    BY <1>10 DEF Delete
  <2> DEFINE j == [NoJob EXCEPT !.op = "delete", !.mem = m, !.old = row[m].ctx]
  <2>2. j \in Job /\ Holds("trash", j)
    BY <1>0, <2>1 DEF NoJob, Job, Holds, Live, Row
  <2>3. Goto(p, "trash")
    BY <1>10 DEF Delete
  <2>4. QED
    BY <2>1, <2>2, <2>3, RequestSet DEF PC
<1>11. ASSUME NEW p \in Proc, Trash(p) PROVE RequestsOK'
  BY <1>0, <1>11, RequestDone, RequestLeaves DEF Trash, Holds
<1>12. ASSUME NEW p \in Proc, WriteExcerpt(p) \/ DeleteVector(p) \/ Crash(p) PROVE RequestsOK'
  BY <1>12, RequestDone DEF WriteExcerpt, DeleteVector, Crash
<1>13. ASSUME SoftDelete \/ Restore \/ PurgeDeleted \/ UNCHANGED vars PROVE RequestsOK'
  BY <1>13, RequestKept DEF SoftDelete, Restore, PurgeDeleted, vars
<1>14. QED
  BY <1>1, <1>2, <1>3, <1>4, <1>5, <1>6, <1>7, <1>8, <1>9, <1>10, <1>11, <1>12, <1>13 DEF Next

\* What becomes of the status of a row in a step that is not a restoration.
Revived   == \E m \in Memory : row[m].status = "deleted" /\ row'[m].status = "live"
Exhumed   == \E m \in Memory : row[m].status = "purged" /\ row'[m].status # "purged"

LEMMA RowsStep == IInv /\ [Next]_vars => RowsOK' /\ ~Exhumed /\ (Revived => Restore)
<1> SUFFICES ASSUME RowsOK, RequestsOK, [Next]_vars
             PROVE  RowsOK' /\ ~Exhumed /\ (Revived => Restore)
  BY Halves
<1> USE DEF Revived, Exhumed
<1>0. \A q \in Proc : job[q] \in Job /\ Holds(pc[q], job[q])
  BY DEF RequestsOK, JobsHold, Holds
<1>1. CASE UNCHANGED rowVars
  BY <1>1, RowsKept DEF rowVars
<1>2. ASSUME NEW p \in Proc, Insert(p), ~UNCHANGED rowVars
      PROVE  RowsOK' /\ ~Exhumed /\ ~Revived
  <2>1. TakenBy(job[p].content) = {}
    BY <1>2 DEF Insert
  <2>2. PICK m \in Absent :
           /\ row' = [row EXCEPT ![m] = [status |-> "live", content |-> job[p].content,
                                         hash |-> job[p].content, ctx |-> job[p].ctx]]
           /\ fts' = fts \cup {<<m, job[p].content>>}
    BY <1>2, <2>1 DEF Insert
  <2>3. job[p].content \in Content /\ job[p].ctx \in Context \cup {None}
    BY <1>0, <1>2 DEF Insert, Holds, Job
  <2>4. RowsOK'
    BY <2>1, <2>2, <2>3, RowInserted
  <2>5. \A n \in Memory : n # m => row'[n] = row[n]
    BY <2>2 DEF RowsOK, RowsTyped
  <2>6. QED
    BY <2>4, <2>5 DEF Absent
<1>3. ASSUME NEW p \in Proc, WriteExcerpt(p) \/ Write(p), ~UNCHANGED rowVars
      PROVE  RowsOK' /\ ~Exhumed /\ ~Revived
  <2>1. Stored(job[p].mem) /\ StoreUpdate(job[p].mem, job[p].content, job[p].ctx)
    BY <1>3 DEF WriteExcerpt, Write
  <2>2. job[p].mem \in Memory /\ job[p].content \in Content /\ job[p].ctx \in Context \cup {None}
    BY <1>0, <1>3 DEF WriteExcerpt, Write, Holds, Job
  <2>3. QED
    BY <2>1, <2>2, RowUpdated
<1>4. ASSUME NEW p \in Proc, Trash(p), ~UNCHANGED rowVars
      PROVE  RowsOK' /\ ~Exhumed /\ ~Revived
  <2>1. StoreTrash({job[p].mem}) /\ {job[p].mem} \in SUBSET Memory
    BY <1>0, <1>4 DEF Trash, Holds
  <2>2. QED
    BY <2>1, RowsRemoved DEF StoreTrash, Live
<1>5. ASSUME SoftDelete PROVE RowsOK' /\ ~Exhumed /\ ~Revived
  <2>1. PICK S \in SUBSET Live : StoreTrash(S)
    BY <1>5 DEF SoftDelete
  <2>2. S \in SUBSET Memory
    BY DEF Live
  <2>3. QED
    BY <2>1, <2>2, RowsRemoved DEF StoreTrash, Live
<1>6. ASSUME Restore PROVE RowsOK' /\ ~Exhumed
  BY <1>6, RowsRestored DEF Restore
<1>7. ASSUME PurgeDeleted PROVE RowsOK' /\ ~Exhumed /\ ~Revived
  <2>1. PICK S \in SUBSET Deleted : row' = SetStatus(S, "purged") /\ fts' = fts \ Unindexed(S)
    BY <1>7 DEF PurgeDeleted
  <2>2. S \in SUBSET Memory
    BY DEF Deleted
  <2>3. QED
    BY <2>1, <2>2, RowsRemoved DEF Deleted
<1>8. UNCHANGED rowVars
      \/ (\E p \in Proc : Insert(p) \/ WriteExcerpt(p) \/ Write(p) \/ Trash(p))
      \/ SoftDelete \/ Restore \/ PurgeDeleted
  BY DEF Next, Create, HashDedup, VectorDedupCheck, Count, WriteVector, Read, Uncount, Delete,
         DeleteVector, Crash, vars, rowVars
<1>9. QED
  BY <1>1, <1>2, <1>3, <1>4, <1>5, <1>6, <1>7, <1>8

LEMMA RestStep == IInv /\ [Next]_vars => RestTyped'
<1> SUFFICES ASSUME RequestsOK, RestTyped, [Next]_vars PROVE RestTyped'
  BY Halves
<1>0. \A q \in Proc : job[q] \in Job
  BY DEF RequestsOK
<1>1. ASSUME NEW p \in Proc, HashDedup(p) \/ VectorDedupCheck(p) PROVE RestTyped'
  <2>1. misled' \subseteq {"content", "deleted"}
    BY <1>1 DEF HashDedup, VectorDedupCheck, Answer, RestTyped
  <2>2. UNCHANGED <<vec, count, refused>>
    BY <1>1 DEF HashDedup, VectorDedupCheck
  <2>3. QED
    BY <2>1, <2>2 DEF RestTyped
<1>2. ASSUME NEW p \in Proc, Insert(p) PROVE RestTyped'
  BY <1>2 DEF Insert, RestTyped
<1>3. ASSUME NEW p \in Proc, Count(p) \/ Uncount(p) PROVE RestTyped'
  <2>1. count' \in [Context -> Nat]
    BY <1>3 DEF Count, Uncount, RestTyped
  <2>2. UNCHANGED <<vec, misled, refused>>
    BY <1>3 DEF Count, Uncount
  <2>3. QED
    BY <2>1, <2>2 DEF RestTyped
<1>4. ASSUME NEW p \in Proc, WriteVector(p) \/ DeleteVector(p) PROVE RestTyped'
  <2>1. vec' \in [Memory -> Content \cup {None}]
    BY <1>0, <1>4 DEF WriteVector, DeleteVector, RestTyped, Job
  <2>2. UNCHANGED <<count, misled, refused>>
    BY <1>4 DEF WriteVector, DeleteVector
  <2>3. QED
    BY <2>1, <2>2 DEF RestTyped
<1>5. ASSUME Restore PROVE RestTyped'
  BY <1>5 DEF Restore, StoreRestore, RestTyped
<1>6. CASE UNCHANGED <<vec, count, misled, refused>>
  BY <1>6 DEF RestTyped
<1>7. QED
  BY <1>1, <1>2, <1>3, <1>4, <1>5, <1>6
  DEF Next, vars, Create, WriteExcerpt, Read, Write, Delete, Trash, Crash, SoftDelete, PurgeDeleted

LEMMA IInvStep == IInv /\ [Next]_vars => IInv'
<1>1. (RowsOK /\ RequestsOK /\ RestTyped <=> IInv)'
  BY Halves, PTL
<1>2. QED
  BY <1>1, RowsStep, RequestsStep, RestStep

------------------------------------------------------------------------------
(* Counting.  Without faults, moves and restorations, no step makes the     *)
(* count of a context fall behind.                                          *)

Undisturbed == /\ ~Faults /\ Ops \cap {"move", "restore"} = {}
               /\ IsFiniteSet(Memory) /\ IsFiniteSet(Proc)

\* Two sets that differ at one place at most, and their sizes.
LEMMA DifferAt ==
  ASSUME NEW S, NEW T, NEW a, IsFiniteSet(S), T \ {a} = S \ {a}
  PROVE  /\ IsFiniteSet(T) /\ Cardinality(S) \in Nat /\ Cardinality(T) \in Nat
         /\ (a \in S <=> a \in T) => Cardinality(T) = Cardinality(S)
         /\ a \in T /\ a \notin S => Cardinality(T) = Cardinality(S) + 1
         /\ a \in S /\ a \notin T => Cardinality(T) = Cardinality(S) - 1
<1>1. CASE a \in S <=> a \in T
  <2>1. S = T BY <1>1
  <2> QED BY <1>1, <2>1, FS_CardinalityType
<1>2. CASE a \in T /\ a \notin S
  <2>1. T = S \cup {a} BY <1>2
  <2> QED BY <1>2, <2>1, FS_AddElement, FS_CardinalityType
<1>3. CASE a \in S /\ a \notin T
  <2>1. T = S \ {a} BY <1>3
  <2> QED BY <1>3, <2>1, FS_RemoveElement, FS_CardinalityType
<1> QED BY <1>1, <1>2, <1>3

HeldBy(x) == {m \in Live : row[m].ctx = x}
Coming(x) == {p \in Proc : pc[p] = "count" /\ job[p].ctx = x}
Owing(x)  == {p \in Proc : pc[p] = "uncount" /\ job[p].old = x}
Enough(x) == count[x] + Cardinality(Coming(x)) >= Cardinality(HeldBy(x)) + Cardinality(Owing(x))

LEMMA EnoughIs == NeverUndercounts <=> \A x \in Context : Enough(x)
BY DEF NeverUndercounts, Enough, Coming, HeldBy, Owing

LEMMA Finite ==
  ASSUME Undisturbed, NEW x
  PROVE  /\ IsFiniteSet(HeldBy(x)) /\ IsFiniteSet(Coming(x)) /\ IsFiniteSet(Owing(x))
         /\ Cardinality(HeldBy(x)) \in Nat /\ Cardinality(Coming(x)) \in Nat
         /\ Cardinality(Owing(x)) \in Nat
<1>1. HeldBy(x) \subseteq Memory /\ Coming(x) \subseteq Proc /\ Owing(x) \subseteq Proc
  BY DEF HeldBy, Coming, Owing, Live
<1> QED BY <1>1, FS_Subset, FS_CardinalityType DEF Undisturbed

\* Only p is anywhere else.
Others(p) == \A q \in Proc \ {p} : pc'[q] = pc[q] /\ job'[q] = job[q]

LEMMA Left ==
  ASSUME RequestsOK, NEW p \in Proc, NEW l, Leave(p, l)
  PROVE  /\ Others(p) /\ pc'[p] = l
         /\ job'[p] = IF l = "idle" THEN NoJob ELSE job[p]
BY DEF RequestsOK, Leave, Done, Goto, Others

LEMMA Finished ==
  ASSUME RequestsOK, NEW p \in Proc, Done(p) PROVE Others(p) /\ pc'[p] = "idle" /\ job'[p] = NoJob
BY DEF RequestsOK, Done, Goto, Others

LEMMA Went ==
  ASSUME RequestsOK, NEW p \in Proc, NEW l, Goto(p, l)
  PROVE  /\ pc'[p] = l
         /\ UNCHANGED job => Others(p) /\ job'[p] = job[p]
         /\ \A j : job' = [job EXCEPT ![p] = j] => Others(p) /\ job'[p] = j
BY DEF RequestsOK, Goto, Others

\* How the numbers of running requests change when p takes a step.
LEMMA Moves ==
  ASSUME Undisturbed, NEW p \in Proc, Others(p), NEW x
  PROVE  /\ Cardinality(Coming(x)') - Cardinality(Coming(x)) =
              (IF pc'[p] = "count" /\ job'[p].ctx = x THEN 1 ELSE 0)
              - (IF pc[p] = "count" /\ job[p].ctx = x THEN 1 ELSE 0)
         /\ Cardinality(Owing(x)') - Cardinality(Owing(x)) =
              (IF pc'[p] = "uncount" /\ job'[p].old = x THEN 1 ELSE 0)
              - (IF pc[p] = "uncount" /\ job[p].old = x THEN 1 ELSE 0)
<1>1. Coming(x)' \ {p} = Coming(x) \ {p} /\ Owing(x)' \ {p} = Owing(x) \ {p}
  BY DEF Coming, Owing, Others
<1>2. /\ p \in Coming(x) <=> pc[p] = "count" /\ job[p].ctx = x
      /\ p \in Coming(x)' <=> pc'[p] = "count" /\ job'[p].ctx = x
      /\ p \in Owing(x) <=> pc[p] = "uncount" /\ job[p].old = x
      /\ p \in Owing(x)' <=> pc'[p] = "uncount" /\ job'[p].old = x
  BY DEF Coming, Owing
<1>3. IsFiniteSet(Coming(x)) /\ IsFiniteSet(Owing(x)) BY Finite
<1> DEFINE A == Coming(x)
           B == Coming(x)'
           C == Owing(x)
           D == Owing(x)'
<1> HIDE DEF A, B, C, D
<1>4. /\ Cardinality(A) \in Nat /\ Cardinality(B) \in Nat
      /\ (p \in A <=> p \in B) => Cardinality(B) = Cardinality(A)
      /\ p \in B /\ p \notin A => Cardinality(B) = Cardinality(A) + 1
      /\ p \in A /\ p \notin B => Cardinality(B) = Cardinality(A) - 1
  BY <1>1, <1>3, DifferAt DEF A, B
<1>5. /\ Cardinality(C) \in Nat /\ Cardinality(D) \in Nat
      /\ (p \in C <=> p \in D) => Cardinality(D) = Cardinality(C)
      /\ p \in D /\ p \notin C => Cardinality(D) = Cardinality(C) + 1
      /\ p \in C /\ p \notin D => Cardinality(D) = Cardinality(C) - 1
  BY <1>1, <1>3, DifferAt DEF C, D
<1> DEFINE d == Cardinality(B) - Cardinality(A)
           e == Cardinality(D) - Cardinality(C)
<1>6. d = (IF p \in B THEN 1 ELSE 0) - (IF p \in A THEN 1 ELSE 0) BY <1>4
<1>7. e = (IF p \in D THEN 1 ELSE 0) - (IF p \in C THEN 1 ELSE 0) BY <1>5
<1> QED BY <1>2, <1>6, <1>7 DEF A, B, C, D

\* No step that is not an insertion brings a memory to life or to a context.
Settled == \A m \in Memory : row[m].status # "absent" => row'[m].status # "absent" /\ row'[m].ctx = row[m].ctx
NoneNew == \A m \in Memory : row'[m].status = "live" => row[m].status = "live"

LEMMA FewerWithin ==
  ASSUME Undisturbed, Settled, NoneNew, NEW x
  PROVE  Cardinality(HeldBy(x)') \in Nat /\ Cardinality(HeldBy(x)') <= Cardinality(HeldBy(x))
<1>1. HeldBy(x)' \subseteq HeldBy(x) BY DEF HeldBy, Live, Settled, NoneNew
<1> QED BY <1>1, Finite, FS_Subset, FS_CardinalityType

\* The rows after each step.
LEMMA RowsSettle ==
  ASSUME Undisturbed, IInv, HeldAsStored, [Next]_vars
  PROVE  Settled /\ \A p \in Proc : WriteExcerpt(p) \/ Write(p) \/ Trash(p) => NoneNew
<1> USE DEF Settled, NoneNew, Live, Deleted, Absent
<1>0. row \in [Memory -> Row] /\ \A q \in Proc : Holds(pc[q], job[q])
  BY Halves DEF RowsOK, RowsTyped, RequestsOK, JobsHold, Holds
<1>1. CASE UNCHANGED rowVars BY <1>1 DEF rowVars
<1>2. ASSUME NEW p \in Proc, Insert(p) PROVE Settled
  BY <1>0, <1>2 DEF Insert, rowVars
<1>3. ASSUME NEW p \in Proc, WriteExcerpt(p) \/ Write(p) PROVE Settled /\ NoneNew
  <2>1. job[p].mem \in Memory /\ row[job[p].mem].ctx = job[p].ctx
    BY <1>0, <1>3 DEF WriteExcerpt, Write, Holds, HeldAsStored
  <2>2. CASE StoreUpdate(job[p].mem, job[p].content, job[p].ctx)
    <3>1. row' = [row EXCEPT ![job[p].mem] =
                    [row[job[p].mem] EXCEPT !.content = job[p].content, !.ctx = job[p].ctx]]
      BY <2>2 DEF StoreUpdate
    <3>2. \A m \in Memory : row'[m].status = row[m].status /\ row'[m].ctx = row[m].ctx
      BY <1>0, <2>1, <3>1 DEF Row
    <3> QED BY <3>2
  <2>3. CASE UNCHANGED rowVars BY <2>3 DEF rowVars
  <2> QED BY <1>3, <2>2, <2>3 DEF WriteExcerpt, Write
<1>4. ASSUME NEW S \in SUBSET Memory, NEW s \in {"deleted", "purged"}, row' = SetStatus(S, s)
      PROVE  Settled /\ NoneNew
  BY <1>0, <1>4 DEF SetStatus, Row
<1>5. ASSUME NEW p \in Proc, Trash(p) PROVE Settled /\ NoneNew
  BY <1>4, <1>5 DEF Trash, StoreTrash, rowVars
<1>6. ASSUME SoftDelete PROVE Settled /\ NoneNew
  BY <1>4, <1>6 DEF SoftDelete, StoreTrash
<1>7. ASSUME PurgeDeleted PROVE Settled /\ NoneNew
  BY <1>4, <1>7 DEF PurgeDeleted
<1>8. ~Restore BY DEF Restore, Undisturbed
<1>9. UNCHANGED rowVars
      \/ (\E p \in Proc : Insert(p) \/ WriteExcerpt(p) \/ Write(p) \/ Trash(p))
      \/ SoftDelete \/ Restore \/ PurgeDeleted
  BY DEF Next, Create, HashDedup, VectorDedupCheck, Count, WriteVector, Read, Uncount, Delete,
         DeleteVector, Crash, vars, rowVars
<1> QED BY <1>1, <1>2, <1>3, <1>5, <1>6, <1>7, <1>8, <1>9

\* What a request at l with job j holds, of the rows as they are.
Agrees(l, j) ==
    l \notin {"idle", "hash", "embed", "insert"} =>
       /\ row[j.mem].status # "absent"
       /\ j.op # "delete" => row[j.mem].ctx = j.ctx
       /\ l = "write" => j.ctx = j.old
       /\ l = "trash" => row[j.mem].ctx = j.old

LEMMA HeldIs == HeldAsStored <=> \A p \in Proc : Agrees(pc[p], job[p])
BY DEF HeldAsStored, Agrees

LEMMA HeldOthers ==
  ASSUME IInv, HeldAsStored, Settled, NEW p \in Proc, Others(p), Agrees(pc[p], job[p])'
  PROVE  HeldAsStored'
<1>1. \A q \in Proc : Holds(pc[q], job[q]) BY Halves DEF RequestsOK, JobsHold, Holds
<1>2. ASSUME NEW q \in Proc \ {p} PROVE Agrees(pc[q], job[q])'
  BY <1>1, <1>2, HeldIs DEF Others, Agrees, Holds, Settled
<1> QED BY <1>2, HeldIs DEF HeldAsStored, Agrees

\* A request that goes on about the same memory still agrees with its row.
LEMMA HeldOn ==
  ASSUME IInv, HeldAsStored, Settled, NEW p \in Proc, pc[p] \notin {"idle", "hash", "embed", "insert"},
         Others(p), job'[p] = job[p] \/ pc'[p] = "idle", pc'[p] \notin {"write", "trash"}
  PROVE  HeldAsStored'
<1>1. Holds(pc[p], job[p]) BY Halves DEF RequestsOK, JobsHold, Holds
<1>2. Agrees(pc[p], job[p]) BY HeldIs
<1>3. Agrees(pc[p], job[p])' BY <1>1, <1>2 DEF Agrees, Holds, Settled
<1> QED BY <1>3, HeldOthers

LEMMA HeldEarly ==
  ASSUME IInv, HeldAsStored, Settled, NEW p \in Proc, Others(p), pc'[p] \in {"idle", "hash", "embed", "insert"}
  PROVE  HeldAsStored'
<1>1. Agrees(pc[p], job[p])' BY DEF Agrees
<1> QED BY <1>1, HeldOthers

LEMMA HeldStep == ASSUME Undisturbed, IInv, HeldAsStored, [Next]_vars PROVE HeldAsStored'
<1>0. Settled BY RowsSettle
<1>1. RequestsOK /\ (\A q \in Proc : Holds(pc[q], job[q])) /\ row \in [Memory -> Row]
  BY Halves DEF RequestsOK, JobsHold, Holds, RowsOK, RowsTyped
<1>2. ASSUME NEW p \in Proc, Create(p) PROVE HeldAsStored'
  <2>1. Goto(p, "hash") /\ \E j : job' = [job EXCEPT ![p] = j] BY <1>2 DEF Create
  <2> QED BY <1>0, <1>1, <2>1, Went, HeldEarly
<1>3. ASSUME NEW p \in Proc, HashDedup(p) \/ VectorDedupCheck(p) PROVE HeldAsStored'
  <2>1. CASE Done(p) BY <1>0, <1>1, <2>1, Finished, HeldEarly
  <2>2. ASSUME NEW l \in {"embed", "insert"}, Goto(p, l), UNCHANGED job PROVE HeldAsStored'
    BY <1>0, <1>1, <2>2, Went, HeldEarly
  <2> QED BY <1>3, <2>1, <2>2 DEF HashDedup, VectorDedupCheck, Answer
<1>4. ASSUME NEW p \in Proc, Insert(p) PROVE HeldAsStored'
  <2>1. CASE Done(p) BY <1>0, <1>1, <2>1, Finished, HeldEarly
  <2>2. CASE ~Done(p)
    <3>1. PICK m \in Absent, l \in {"vector", "count"} :
             /\ row' = [row EXCEPT ![m] = [status |-> "live", content |-> job[p].content,
                                           hash |-> job[p].content, ctx |-> job[p].ctx]]
             /\ job' = [job EXCEPT ![p].mem = m] /\ Goto(p, l)
      BY <1>4, <2>2 DEF Insert
    <3> DEFINE j == [job[p] EXCEPT !.mem = m]
    <3>2. job[p] \in Job /\ job' = [job EXCEPT ![p] = j] BY <1>1, <3>1 DEF RequestsOK
    <3>3. j.mem = m /\ j.ctx = job[p].ctx /\ m \in Memory BY <3>2 DEF Job, Absent
    <3> HIDE DEF j
    <3>4. Others(p) /\ job'[p] = j /\ pc'[p] = l BY <1>1, <3>1, <3>2, Went
    <3>5. row'[m].status = "live" /\ row'[m].ctx = job[p].ctx BY <1>1, <3>1, <3>3
    <3>6. Agrees(pc[p], job[p])' BY <3>3, <3>4, <3>5 DEF Agrees
    <3> QED BY <1>0, <3>4, <3>6, HeldOthers
  <2> QED BY <2>1, <2>2
<1>5. ASSUME NEW p \in Proc, Count(p) \/ WriteVector(p) \/ Uncount(p) PROVE HeldAsStored'
  <2>1. PICK l \in {"idle", "vector", "excerpt", "unvector", "count"} : Leave(p, l)
    BY <1>5 DEF Count, WriteVector, Uncount
  <2>2. pc[p] \in {"count", "vector", "uncount"} BY <1>5 DEF Count, WriteVector, Uncount
  <2> QED BY <1>0, <1>1, <2>1, <2>2, Left, HeldOn
<1>6. ASSUME NEW p \in Proc, WriteExcerpt(p) \/ DeleteVector(p) \/ Crash(p) PROVE HeldAsStored'
  <2>1. Done(p) BY <1>6 DEF WriteExcerpt, DeleteVector, Crash
  <2> QED BY <1>0, <1>1, <2>1, Finished, HeldEarly
<1>7. ASSUME NEW p \in Proc, Read(p) PROVE HeldAsStored'
  <2>1. PICK m \in Live, o \in {"rewrite", "update"}, c \in Content, x \in Context \cup {None} :
           /\ x # row[m].ctx => "move" \in Ops
           /\ job' = [job EXCEPT ![p] = [op |-> o, mem |-> m, content |-> c, ctx |-> x,
                                         old |-> row[m].ctx]]
    BY <1>7 DEF Read
  <2> DEFINE j == [op |-> o, mem |-> m, content |-> c, ctx |-> x, old |-> row[m].ctx]
  <2>2. x = row[m].ctx BY <2>1 DEF Undisturbed
  <2>3. j.mem = m /\ j.op = o /\ j.ctx = x /\ j.old = row[m].ctx OBVIOUS
  <2> HIDE DEF j
  <2>4. Goto(p, "write") /\ UNCHANGED rowVars BY <1>7 DEF Read
  <2>5. Others(p) /\ job'[p] = j /\ pc'[p] = "write" BY <1>1, <2>1, <2>4, Went DEF j
  <2>6. Agrees(pc[p], job[p])' BY <2>2, <2>3, <2>4, <2>5 DEF Agrees, Live, rowVars
  <2> QED BY <1>0, <2>5, <2>6, HeldOthers
<1>8. ASSUME NEW p \in Proc, Write(p) PROVE HeldAsStored'
  <2>1. CASE Done(p) BY <1>0, <1>1, <2>1, Finished, HeldEarly
  <2>2. CASE Leave(p, AfterWrite(job[p]))
    <3>1. AfterWrite(job[p]) \in {"uncount", "count", "idle", "vector"} BY DEF AfterWrite
    <3>2. pc[p] = "write" BY <1>8 DEF Write
    <3> QED BY <1>0, <1>1, <2>2, <3>1, <3>2, Left, HeldOn
  <2> QED BY <1>8, <2>1, <2>2 DEF Write
<1>9. ASSUME NEW p \in Proc, Delete(p) PROVE HeldAsStored'
  <2>1. PICK m \in Live :
           job' = [job EXCEPT ![p] = [NoJob EXCEPT !.op = "delete", !.mem = m, !.old = row[m].ctx]]
    BY <1>9 DEF Delete
  <2> DEFINE j == [NoJob EXCEPT !.op = "delete", !.mem = m, !.old = row[m].ctx]
  <2>2. j.mem = m /\ j.op = "delete" /\ j.old = row[m].ctx BY DEF NoJob
  <2> HIDE DEF j
  <2>3. Goto(p, "trash") /\ UNCHANGED rowVars BY <1>9 DEF Delete
  <2>4. Others(p) /\ job'[p] = j /\ pc'[p] = "trash" BY <1>1, <2>1, <2>3, Went DEF j
  <2>5. Agrees(pc[p], job[p])' BY <2>2, <2>3, <2>4 DEF Agrees, Live, rowVars
  <2> QED BY <1>0, <2>4, <2>5, HeldOthers
<1>10. ASSUME NEW p \in Proc, Trash(p) PROVE HeldAsStored'
  <2>1. pc[p] = "trash" BY <1>10 DEF Trash
  <2>2. CASE Done(p) BY <1>0, <1>1, <2>2, Finished, HeldEarly
  <2>3. ASSUME NEW l \in {"uncount", "unvector"}, Leave(p, l) PROVE HeldAsStored'
    BY <1>0, <1>1, <2>1, <2>3, Left, HeldOn
  <2> QED BY <1>10, <2>2, <2>3 DEF Trash
<1>11. CASE UNCHANGED <<pc, job>>
  <2>1. ASSUME NEW q \in Proc PROVE Agrees(pc[q], job[q])'
    BY <1>0, <1>1, <1>11, HeldIs DEF Agrees, Holds, Settled
  <2> QED BY <2>1 DEF HeldAsStored, Agrees
<1> QED
  BY <1>2, <1>3, <1>4, <1>5, <1>6, <1>7, <1>8, <1>9, <1>10, <1>11
  DEF Next, SoftDelete, Restore, PurgeDeleted, vars

\* A step that neither counts nor brings a memory to life.
LEMMA QuietStep ==
  ASSUME Undisturbed, RestTyped, Settled, NoneNew, UNCHANGED count, NEW p \in Proc, Others(p),
         pc[p] \notin {"count", "uncount"}, pc'[p] \notin {"count", "uncount"},
         NEW x \in Context, Enough(x)
  PROVE  Enough(x)'
<1>1. Cardinality(Coming(x)') = Cardinality(Coming(x)) /\ Cardinality(Owing(x)') = Cardinality(Owing(x))
  BY Moves, Finite DEF Coming, Owing, Others
<1>2. Cardinality(HeldBy(x)') \in Nat /\ Cardinality(HeldBy(x)') <= Cardinality(HeldBy(x))
  BY FewerWithin
<1>3. count[x] \in Nat BY DEF RestTyped
<1> QED BY <1>1, <1>2, <1>3, Finite DEF Enough

LEMMA CountStep == ASSUME Undisturbed, CountInv, [Next]_vars, NEW x \in Context PROVE Enough(x)'
<1>0. /\ IInv /\ HeldAsStored /\ RequestsOK /\ RestTyped /\ Enough(x) /\ Settled
      /\ \A p \in Proc : WriteExcerpt(p) \/ Write(p) \/ Trash(p) => NoneNew
      /\ \A q \in Proc : Holds(pc[q], job[q]) /\ Agrees(pc[q], job[q]) /\ job[q] \in Job
      /\ row \in [Memory -> Row]
  BY Halves, EnoughIs, HeldIs, RowsSettle DEF CountInv, RequestsOK, JobsHold, Holds, RowsOK, RowsTyped
<1> DEFINE c == count[x]
           a == Cardinality(Coming(x))
           w == Cardinality(HeldBy(x))
           o == Cardinality(Owing(x))
           c1 == count'[x]
           a1 == Cardinality(Coming(x)')
           w1 == Cardinality(HeldBy(x)')
           o1 == Cardinality(Owing(x)')
<1>1. /\ c \in Nat /\ a \in Nat /\ w \in Nat /\ o \in Nat /\ c + a >= w + o
  BY <1>0, Finite DEF RestTyped, Enough
<1>2. ASSUME NoneNew PROVE w1 \in Nat /\ w1 <= w BY <1>0, <1>2, FewerWithin
<1>3. SUFFICES c1 + a1 >= w1 + o1 BY DEF Enough
<1>4. ASSUME NEW p \in Proc, Others(p)
      PROVE  /\ a1 - a = (IF pc'[p] = "count" /\ job'[p].ctx = x THEN 1 ELSE 0)
                         - (IF pc[p] = "count" /\ job[p].ctx = x THEN 1 ELSE 0)
             /\ o1 - o = (IF pc'[p] = "uncount" /\ job'[p].old = x THEN 1 ELSE 0)
                         - (IF pc[p] = "uncount" /\ job[p].old = x THEN 1 ELSE 0)
  BY <1>4, Moves
<1>5. a1 \in Nat /\ o1 \in Nat
  <2>1. Coming(x)' \subseteq Proc /\ Owing(x)' \subseteq Proc BY DEF Coming, Owing
  <2> QED BY <2>1, FS_Subset, FS_CardinalityType DEF Undisturbed
<1> HIDE DEF c, a, w, o, c1, a1, w1, o1
<1>6. ASSUME NEW p \in Proc, Insert(p) PROVE c1 + a1 >= w1 + o1
  <2>1. UNCHANGED count /\ pc[p] = "insert" BY <1>6 DEF Insert
  <2>2. CASE TakenBy(job[p].content) # {}
    <3>1. Done(p) /\ UNCHANGED rowVars BY <1>6, <2>2 DEF Insert
    <3>2. Others(p) /\ pc'[p] = "idle" BY <1>0, <3>1, Finished
    <3>3. NoneNew BY <3>1 DEF NoneNew, rowVars
    <3> QED BY <1>0, <2>1, <3>2, <3>3, QuietStep DEF Enough, c1, a1, w1, o1
  <2>3. CASE TakenBy(job[p].content) = {}
    <3>1. PICK m \in Absent :
             /\ row' = [row EXCEPT ![m] = [status |-> "live", content |-> job[p].content,
                                           hash |-> job[p].content, ctx |-> job[p].ctx]]
             /\ job' = [job EXCEPT ![p].mem = m]
             /\ Goto(p, IF job[p].ctx = None THEN "vector" ELSE "count")
      BY <1>6, <2>3 DEF Insert
    <3> DEFINE j == [job[p] EXCEPT !.mem = m]
               l == IF job[p].ctx = None THEN "vector" ELSE "count"
    <3>2. job' = [job EXCEPT ![p] = j] BY <3>1
    <3>3. j.ctx = job[p].ctx BY <1>0 DEF Job
    <3> HIDE DEF j
    <3>4. Others(p) /\ job'[p] = j /\ pc'[p] = l BY <1>0, <3>1, <3>2, Went
    <3>5. x # None BY NoneAssumption
    <3>6. a1 - a = (IF job[p].ctx = x THEN 1 ELSE 0) /\ o1 - o = 0
      BY <1>4, <2>1, <3>3, <3>4, <3>5
    <3>7. HeldBy(x)' \ {m} = HeldBy(x) \ {m} /\ m \notin HeldBy(x)
          /\ (m \in HeldBy(x)' <=> job[p].ctx = x)
      BY <1>0, <3>1 DEF HeldBy, Live, Absent
    <3>8. w1 = w + (IF job[p].ctx = x THEN 1 ELSE 0)
      <4> DEFINE T == HeldBy(x)'
      <4>1. IsFiniteSet(HeldBy(x)) BY Finite
      <4>2. T \ {m} = HeldBy(x) \ {m} /\ m \notin HeldBy(x) /\ (m \in T <=> job[p].ctx = x) BY <3>7
      <4> HIDE DEF T
      <4>3. Cardinality(T) = Cardinality(HeldBy(x)) + (IF job[p].ctx = x THEN 1 ELSE 0)
        BY <1>1, <4>1, <4>2, DifferAt DEF w
      <4> QED BY <4>3 DEF w, w1, T
    <3>9. c1 = c BY <2>1 DEF c, c1
    <3>10. CASE job[p].ctx = x BY <1>1, <1>5, <3>6, <3>8, <3>9, <3>10
    <3>11. CASE job[p].ctx # x BY <1>1, <1>5, <3>6, <3>8, <3>9, <3>11
    <3> QED BY <3>10, <3>11
  <2> QED BY <2>2, <2>3
<1>7. ASSUME NEW p \in Proc, Count(p) PROVE c1 + a1 >= w1 + o1
  <2>1. /\ pc[p] = "count" /\ count' = [count EXCEPT ![job[p].ctx] = @ + 1] /\ UNCHANGED rowVars
        /\ \E l \in {"idle", "vector"} : Leave(p, l)
    BY <1>7 DEF Count, Undisturbed
  <2>2. NoneNew BY <2>1 DEF NoneNew, rowVars
  <2>3. Others(p) /\ pc'[p] \in {"idle", "vector"} BY <1>0, <2>1, Left
  <2>4. a1 - a = 0 - (IF job[p].ctx = x THEN 1 ELSE 0) /\ o1 - o = 0 BY <1>4, <2>1, <2>3
  <2>5. c1 = c + (IF job[p].ctx = x THEN 1 ELSE 0) BY <1>0, <1>1, <2>1 DEF c, c1, RestTyped
  <2>6. CASE job[p].ctx = x BY <1>1, <1>2, <1>5, <2>2, <2>4, <2>5, <2>6
  <2>7. CASE job[p].ctx # x BY <1>1, <1>2, <1>5, <2>2, <2>4, <2>5, <2>7
  <2> QED BY <2>6, <2>7
<1>8. ASSUME NEW p \in Proc, Uncount(p) PROVE c1 + a1 >= w1 + o1
  <2>1. /\ pc[p] = "uncount" /\ UNCHANGED rowVars
        /\ count' = [count EXCEPT ![job[p].old] = IF count[job[p].old] = 0 THEN 0 ELSE count[job[p].old] - 1]
        /\ \E l \in {"unvector", "count", "idle", "vector"} : Leave(p, l)
    BY <1>8 DEF Uncount, Undisturbed
  <2>2. NoneNew BY <2>1 DEF NoneNew, rowVars
  <2>3. Others(p) /\ pc'[p] \in {"unvector", "count", "idle", "vector"} BY <1>0, <2>1, Left
  <2>4. a1 - a >= 0 /\ o1 - o = 0 - (IF job[p].old = x THEN 1 ELSE 0) BY <1>4, <2>1, <2>3
  <2>5. c1 = IF job[p].old = x THEN (IF c = 0 THEN 0 ELSE c - 1) ELSE c
    BY <1>0, <2>1 DEF c, c1, RestTyped
  <2>6. CASE job[p].old = x BY <1>1, <1>2, <1>5, <2>2, <2>4, <2>5, <2>6
  <2>7. CASE job[p].old # x BY <1>1, <1>2, <1>5, <2>2, <2>4, <2>5, <2>7
  <2> QED BY <2>6, <2>7
<1>9. ASSUME NEW p \in Proc, Trash(p) PROVE c1 + a1 >= w1 + o1
  <2>1. pc[p] = "trash" /\ UNCHANGED count BY <1>9 DEF Trash
  <2>2. NoneNew BY <1>0, <1>9
  <2>3. CASE job[p].mem \notin Live
    <3>1. Done(p) BY <1>9, <2>3 DEF Trash
    <3>2. Others(p) /\ pc'[p] = "idle" BY <1>0, <3>1, Finished
    <3> QED BY <1>0, <2>1, <2>2, <3>2, QuietStep DEF Enough, c1, a1, w1, o1
  <2>4. CASE job[p].mem \in Live
    <3> DEFINE m == job[p].mem
               l == IF job[p].old # None THEN "uncount" ELSE "unvector"
    <3>1. row' = SetStatus({m}, "deleted") /\ Leave(p, l) BY <1>9, <2>4 DEF Trash, StoreTrash
    <3>2. Others(p) /\ pc'[p] = l /\ job'[p] = job[p] BY <1>0, <3>1, Left
    <3>3. x # None BY NoneAssumption
    <3>4. a1 - a = 0 /\ o1 - o = (IF job[p].old = x THEN 1 ELSE 0) BY <1>4, <2>1, <3>2, <3>3
    <3>5. row[m].ctx = job[p].old BY <1>0, <2>1 DEF Agrees
    <3>6. HeldBy(x)' \ {m} = HeldBy(x) \ {m} /\ m \notin HeldBy(x)'
          /\ (m \in HeldBy(x) <=> job[p].old = x)
      BY <1>0, <2>4, <3>1, <3>5 DEF HeldBy, Live, SetStatus, Row
    <3>7. w1 = w - (IF job[p].old = x THEN 1 ELSE 0)
      <4> DEFINE T == HeldBy(x)'
      <4>1. IsFiniteSet(HeldBy(x)) BY Finite
      <4>2. T \ {m} = HeldBy(x) \ {m} /\ m \notin T /\ (m \in HeldBy(x) <=> job[p].old = x) BY <3>6
      <4> HIDE DEF T, m
      <4>3. Cardinality(T) = Cardinality(HeldBy(x)) - (IF job[p].old = x THEN 1 ELSE 0)
        BY <1>1, <4>1, <4>2, DifferAt DEF w
      <4> QED BY <4>3 DEF w, w1, T
    <3>8. c1 = c BY <2>1 DEF c, c1
    <3>9. CASE job[p].old = x BY <1>1, <1>5, <3>4, <3>7, <3>8, <3>9
    <3>10. CASE job[p].old # x BY <1>1, <1>5, <3>4, <3>7, <3>8, <3>10
    <3> QED BY <3>9, <3>10
  <2> QED BY <2>3, <2>4
<1>10. CASE UNCHANGED <<pc, job, count>> /\ NoneNew
  <2>1. c1 = c /\ a1 = a /\ o1 = o BY <1>10 DEF c, c1, a, a1, o, o1, Coming, Owing
  <2> QED BY <1>1, <1>2, <1>10, <2>1
<1>11. ASSUME SoftDelete \/ PurgeDeleted \/ UNCHANGED vars PROVE UNCHANGED <<pc, job, count>> /\ NoneNew
  <2>1. ASSUME NEW S \in SUBSET Memory, NEW s \in {"deleted", "purged"}, row' = SetStatus(S, s)
        PROVE  NoneNew
    BY <1>0, <2>1 DEF SetStatus, NoneNew, Row
  <2>2. UNCHANGED vars => NoneNew BY DEF vars, rowVars, NoneNew
  <2> QED BY <1>11, <2>1, <2>2 DEF SoftDelete, PurgeDeleted, StoreTrash, Live, Deleted, vars
<1>12. ~Restore BY DEF Restore, Undisturbed
\* The other steps move one request, and neither from nor to a place that counts.
<1>13. ASSUME NEW p \in Proc,
              \/ Create(p) \/ HashDedup(p) \/ VectorDedupCheck(p) \/ WriteVector(p) \/ WriteExcerpt(p)
              \/ Read(p) \/ Write(p) \/ Delete(p) \/ DeleteVector(p) \/ Crash(p)
       PROVE  c1 + a1 >= w1 + o1
  <2>1. UNCHANGED count /\ pc[p] \notin {"count", "uncount", "insert"}
    BY <1>13 DEF Create, HashDedup, VectorDedupCheck, WriteVector, WriteExcerpt, Read, Write, Delete,
                 DeleteVector, Crash, Undisturbed
  <2>2. NoneNew
    <3>1. UNCHANGED rowVars \/ WriteExcerpt(p) \/ Write(p)
      BY <1>13 DEF Create, HashDedup, VectorDedupCheck, WriteVector, Read, Delete, DeleteVector,
                   Crash, rowVars
    <3> QED BY <1>0, <3>1 DEF NoneNew, rowVars
  <2>3. Others(p) /\ pc'[p] \notin {"count", "uncount"}
    <3>1. CASE Done(p) BY <1>0, <3>1, Finished
    <3>2. ASSUME NEW l \in {"hash", "embed", "insert", "write", "trash"}, Goto(p, l),
                 UNCHANGED job \/ \E j : job' = [job EXCEPT ![p] = j]
          PROVE  Others(p) /\ pc'[p] \notin {"count", "uncount"}
      BY <1>0, <3>2, Went
    <3>3. ASSUME NEW l \in {"idle", "vector", "excerpt"}, Leave(p, l)
          PROVE  Others(p) /\ pc'[p] \notin {"count", "uncount"}
      BY <1>0, <3>3, Left
    <3>4. ASSUME Create(p) \/ HashDedup(p) \/ VectorDedupCheck(p) \/ Read(p) \/ Delete(p)
          PROVE  \/ Done(p)
                 \/ \E l \in {"hash", "embed", "insert", "write", "trash"} :
                       /\ Goto(p, l)
                       /\ UNCHANGED job \/ \E j : job' = [job EXCEPT ![p] = j]
      BY <3>4 DEF Create, HashDedup, VectorDedupCheck, Read, Delete, Answer
    <3>5. ASSUME WriteExcerpt(p) \/ DeleteVector(p) \/ Crash(p) PROVE Done(p)
      BY <3>5 DEF WriteExcerpt, DeleteVector, Crash
    <3>6. ASSUME WriteVector(p) PROVE \E l \in {"idle", "excerpt"} : Leave(p, l)
      BY <3>6 DEF WriteVector
    <3>7. ASSUME Write(p) PROVE Done(p) \/ \E l \in {"idle", "vector"} : Leave(p, l)
      <4>1. pc[p] = "write" BY <3>7 DEF Write
      <4>2. job[p].ctx = job[p].old BY <1>0, <4>1 DEF Agrees
      <4>3. AfterWrite(job[p]) \in {"idle", "vector"} BY <4>2 DEF AfterWrite
      <4> QED BY <3>7, <4>3 DEF Write
    <3> QED BY <1>13, <3>1, <3>2, <3>3, <3>4, <3>5, <3>6, <3>7
  <2> QED BY <1>0, <2>1, <2>2, <2>3, QuietStep DEF Enough, c1, a1, w1, o1
<1> QED BY <1>6, <1>7, <1>8, <1>9, <1>10, <1>11, <1>12, <1>13 DEF Next

------------------------------------------------------------------------------
(* The theorems.                                                            *)

\* The inductive invariant holds in every reachable state: rows, index and
\* requests are of their types, running requests hold what they act on, live
\* hashes are distinct, and the index has the words of every live row.
THEOREM Invariance == Spec => []IInv
BY IInvStep, InitIInv, PTL DEF Spec

\* No two live memories have one content hash, however many requests create
\* and restore at once (the deduplication of Manager.Create).
THEOREM HashesUnique == Spec => []UniqueHash
BY Invariance, PTL DEF IInv

\* Every live memory is found by its present words, through restorations and
\* late whole-row writes (syncFTS5Tx and its callers).
THEOREM EveryLiveMemorySearchable == Spec => []LiveIsSearchable
BY Invariance, PTL DEF IInv

\* With a tokenizer that splits no further than FTS5 does, a live memory is
\* found by no words it had before (deleteFTS5ByRowIDTx before each write).
THEOREM NoOldWords == ~Segmented => (Spec => []NoStaleWords)
<1>1. ASSUME ~Segmented PROVE IInv => NoStaleWords
  BY <1>1 DEF IInv, IndexHoldsRows, NoStaleWords, Words, Live
<1>2. ASSUME ~Segmented PROVE Spec => []NoStaleWords
  BY <1>1, <1>2, Invariance, PTL
<1>3. QED
  BY <1>2

\* A deleted memory becomes live only by a restoration and a purged one never
\* comes back, although late requests write rows whole (SQLiteMemoryStore.Update
\* leaves deleted_at alone).
THEOREM DeletionsLast == Spec => DeletedStaysDeleted
<1>1. IInv /\ [Next]_vars =>
        [/\ \A m \in Memory : row[m].status = "deleted" /\ row'[m].status = "live" => Restore
         /\ \A m \in Memory : row[m].status = "purged" => row'[m].status = "purged"]_vars
  BY RowsStep DEF Revived, Exhumed
<1>2. QED
  BY <1>1, Invariance, PTL DEF Spec, DeletedStaysDeleted

\* memory_count never falls behind the live memories of a context, whatever
\* creations, updates, deletions and expirations run at once: two deletions of
\* one memory do not both count (handleContextCount, Manager.Delete).
THEOREM CountsNeverBehind == Undisturbed => (Spec => []NeverUndercounts)
<1> SUFFICES ASSUME Undisturbed PROVE Spec => []NeverUndercounts
  OBVIOUS
<1>1. Init => CountInv
  <2> SUFFICES ASSUME Init PROVE HeldAsStored /\ NeverUndercounts
    BY InitIInv DEF CountInv
  <2>1. HeldAsStored BY DEF Init, HeldAsStored
  <2>2. ASSUME NEW x \in Context PROVE Enough(x)
    <3>1. count[x] = 0 /\ Coming(x) = {} /\ HeldBy(x) = {} /\ Owing(x) = {}
      BY DEF Init, Coming, HeldBy, Owing, Live
    <3> QED BY <3>1, FS_EmptySet DEF Enough
  <2> QED BY <2>1, <2>2, EnoughIs
<1>2. CountInv /\ [Next]_vars => CountInv'
  <2> SUFFICES ASSUME CountInv, [Next]_vars PROVE IInv' /\ HeldAsStored' /\ NeverUndercounts'
    BY DEF CountInv
  <2>1. IInv' BY IInvStep DEF CountInv
  <2>2. HeldAsStored' BY HeldStep DEF CountInv
  <2>3. \A x \in Context : Enough(x)' BY CountStep
  <2> QED BY <2>1, <2>2, <2>3 DEF NeverUndercounts, Enough, Coming, HeldBy, Owing
<1>3. CountInv => NeverUndercounts BY DEF CountInv
<1> QED BY <1>1, <1>2, <1>3, PTL DEF Spec

------------------------------------------------------------------------------
(* Migrations: rows.                                                         *)

(* What a migration does to rows.  KeepsRows: nothing to fit ones, but that  *)
(* hashes are added, words indexed again and derivations moved.              *)
KeepsRows(d, e) ==
    /\ IsFile(e) /\ e.versions = d.versions
    /\ e.rows = d.rows /\ e.deleted = d.deleted /\ e.text = d.text
    /\ Passes(d, e) /\ e.twins = d.twins /\ d.tables \subseteq e.tables

SameRows(d, e) ==
    /\ KeepsRows(d, e)
    /\ e.hashed = d.hashed /\ e.json = d.json /\ e.derived = d.derived

LEMMA HelpersKeep ==
  ASSUME NEW d, IsFile(d), NEW S
  PROVE  /\ SameRows(d, WithTables(d, S)) /\ WithTables(d, S).index = d.index
         /\ SameRows(d, WithCols(d, S)) /\ WithCols(d, S).index = d.index
BY DEF IsFile, Empty, SameRows, KeepsRows, Passes, WithTables, WithCols

(* The migrations that are about rows, and the others.                       *)
LEMMA V2Rows ==
  ASSUME NEW d, IsFile(d)
  PROVE  SameRows(d, V2(d)) /\ (Unset # "raw" => IsIndexed(V2(d)))
BY DEF IsFile, Empty, SameRows, KeepsRows, Passes, WithTables, WithCols, Indexed, V2, IsIndexed, Living

LEMMA V14Rows ==
  ASSUME NEW d, IsFile(d)
  PROVE  SameRows(d, V14(d)) /\ (Unset # "raw" => IsIndexed(V14(d)))
BY DEF IsFile, Empty, SameRows, KeepsRows, Passes, WithTables, WithCols, Indexed, V14, IsIndexed, Living

LEMMA V16Rows ==
  ASSUME NEW d, IsFile(d)
  PROVE  /\ KeepsRows(d, V16(d)) /\ V16(d).index = d.index /\ V16(d).hashed = d.hashed
         /\ V16(d).derived = d.derived \cup {p \in d.json : {p[1], p[2]} \subseteq d.rows}
         /\ V16(d).json = {}
BY DEF IsFile, Empty, KeepsRows, Passes, WithTables, V16

LEMMA V15Rows ==
  ASSUME NEW d, IsFile(d) PROVE SameRows(d, V15(d)) /\ V15(d).index = d.index
BY DEF IsFile, Empty, SameRows, KeepsRows, Passes, WithCols, V15

LEMMA V22Rows ==
  ASSUME NEW d, IsFile(d)
  PROVE  SameRows(d, V22(d)) /\ V22(d).index = d.index
BY DEF IsFile, Empty, SameRows, KeepsRows, Passes, WithTables, WithCols, V22

LEMMA V10Rows ==
  ASSUME NEW d, IsFile(d) PROVE SameRows(d, V10(d)) /\ V10(d).index = d.index
BY DEF IsFile, Empty, SameRows, KeepsRows, Passes, WithCols, V10

LEMMA V21Rows ==
  ASSUME NEW d, IsFile(d) PROVE SameRows(d, V21(d)) /\ V21(d).index = d.index
BY DEF IsFile, Empty, SameRows, KeepsRows, Passes, WithTables, V21

LEMMA V27Rows ==
  ASSUME NEW d, IsFile(d) PROVE SameRows(d, V27(d)) /\ V27(d).index = d.index
BY DEF IsFile, Empty, SameRows, KeepsRows, Passes, WithTables, WithCols, V27

Plain == {3, 5, 6, 7, 8, 9, 10, 11, 12, 13, 15, 17, 18, 19, 20, 21, 22, 23, 24, 25, 26, 27, 28}

LEMMA OtherRows ==
  ASSUME NEW d, IsFile(d), NEW v \in Plain, NEW tok
  PROVE  SameRows(d, Made(d, v, tok)) /\ Made(d, v, tok).index = d.index
<1>1. CASE v \in {7, 9, 11, 17, 25}
  <2>1. Made(d, v, tok) = d BY <1>1 DEF Made, V7, V9, V11, V17, V25
  <2> QED BY <2>1 DEF SameRows, KeepsRows, Passes
<1>2. CASE v \in {8, 18, 19, 20, 24}
  <2>1. PICK S : Made(d, v, tok) = WithTables(d, S) BY <1>2 DEF Made, V8, V18, V19, V20, V24
  <2> QED BY <2>1, HelpersKeep
<1>3. CASE v \in {3, 5, 6, 12, 13, 23, 26, 28}
  <2>1. PICK S : Made(d, v, tok) = WithCols(d, S)
    BY <1>3 DEF Made, V3, V5, V6, V12, V13, V23, V26, V28
  <2> QED BY <2>1, HelpersKeep
<1>4. CASE v \in {10, 15, 21, 22, 27}
  BY <1>4, V10Rows, V15Rows, V21Rows, V22Rows, V27Rows DEF Made
<1> QED BY <1>1, <1>2, <1>3, <1>4 DEF Plain

(* Some number of a set is the least.                                        *)
LEMMA Least ==
  ASSUME NEW S, S \subseteq Nat, S # {}
  PROVE  \E m \in S : \A n \in S : m <= n
<1>1. IsWellFoundedOn(OpToRel(<, Nat), Nat) BY NatLessThanWellFounded
<1>2. PICK m \in S : \A n \in S : ~(<<n, m>> \in OpToRel(<, Nat)) BY <1>1, WFMin
<1>3. \A n \in S : ~(n < m) BY <1>2 DEF OpToRel
<1> QED BY <1>3

(* V4 gives the hash of each live text to one memory, and only to one.       *)
LEMMA V4Rows ==
  ASSUME NEW d, RowsFit(d), NEW tok, tok # Unset
  PROVE  /\ KeepsRows(d, V4(d, tok)) /\ IsIndexed(V4(d, tok))
         /\ V4(d, tok).json = d.json /\ V4(d, tok).derived = d.derived
         /\ \A m, n \in Living(d) \cap V4(d, tok).hashed : d.text[m] = d.text[n] => m = n
         /\ \A m \in Living(d) : \E n \in Living(d) \cap V4(d, tok).hashed : d.text[n] = d.text[m]
<1> DEFINE lacking == {m \in Living(d) \ d.hashed : \A n \in Living(d) \cap d.hashed : d.text[n] # d.text[m]}
           firsts == {m \in lacking : \A n \in lacking : d.text[n] = d.text[m] => m <= n}
           e == V4(d, tok)
<1>1. IsFile(d) BY DEF RowsFit
<1>2. e.hashed = d.hashed \cup firsts
  BY <1>1 DEF IsFile, Empty, WithTables, WithCols, Indexed, V4
<1>3. KeepsRows(d, e) /\ e.json = d.json /\ e.derived = d.derived
  BY <1>1 DEF IsFile, Empty, KeepsRows, Passes, WithTables, WithCols, Indexed, V4
<1>4. e.index = [m \in Ident |-> IF m \in Living(d) THEN tok ELSE Unset]
  BY <1>1 DEF IsFile, Empty, WithTables, WithCols, Indexed, V4
<1> HIDE DEF e
<1>5. IsIndexed(e) BY <1>1, <1>3, <1>4 DEF IsIndexed, Living, KeepsRows, IsFile
<1>6. Living(d) \subseteq Nat BY <1>1, IdentAssumption DEF IsFile, Living
<1>7. ASSUME NEW m \in Living(d) \cap e.hashed, NEW n \in Living(d) \cap e.hashed, d.text[m] = d.text[n]
      PROVE  m = n
  BY <1>2, <1>6, <1>7 DEF RowsFit, HashesFit
<1>8. ASSUME NEW m \in Living(d) PROVE \E n \in Living(d) \cap e.hashed : d.text[n] = d.text[m]
  <2>1. CASE m \in d.hashed BY <2>1, <1>2
  <2>2. CASE m \notin lacking /\ m \notin d.hashed BY <2>2, <1>2
  <2>3. CASE m \in lacking
    <3> DEFINE same == {n \in lacking : d.text[n] = d.text[m]}
    <3>1. same \subseteq Nat /\ same # {} BY <1>6, <2>3
    <3>2. PICK k \in same : \A n \in same : k <= n BY <3>1, Least
    <3>3. k \in firsts BY <3>2
    <3> QED BY <3>2, <3>3, <1>2
  <2> QED BY <2>1, <2>2, <2>3
<1> QED BY <1>3, <1>5, <1>7, <1>8 DEF e

(* A migration that may run keeps what the theorems ask of a file.           *)
LEMMA MadeRows ==
  ASSUME NEW d, RowsFit(d), NEW v \in 2 .. Latest, NEW tok, tok # Unset,
         v > 4 => \E u \in d.versions : u >= 4
  PROVE  LET e == Made(d, v, tok)
         IN /\ KeepsRows(d, e) /\ IsIndexed(e)
            /\ d.json \cup d.derived \subseteq e.json \cup e.derived \cup {p \in d.json : ~({p[1], p[2]} \subseteq d.rows)}
            /\ e.json \subseteq d.json
            /\ \A m, n \in Living(e) \cap e.hashed : e.text[m] = e.text[n] => m = n
            /\ (v >= 4 \/ \E u \in d.versions : u >= 4)
                  => \A m \in Living(e) : \E n \in Living(e) \cap e.hashed : e.text[n] = e.text[m]
<1> DEFINE e == Made(d, v, tok)
<1>1. IsFile(d) /\ IsIndexed(d) /\ HashesFit(d) BY DEF RowsFit
<1>2. Unset # "raw" BY UnsetAssumption
<1>3. v = 4 \/ v \in {2, 14, 16} \/ v \in Plain BY DEF Plain, Latest
<1>4. CASE v = 4
  <2>1. e = V4(d, tok) BY <1>4 DEF Made
  <2> HIDE DEF e
  <2>2. Living(e) = Living(d) /\ e.text = d.text BY <2>1, V4Rows DEF Living, KeepsRows
  <2> QED BY <2>1, <2>2, V4Rows DEF e
<1>5. CASE v \in {2, 14} \/ v \in Plain
  <2>1. SameRows(d, e) /\ (e.index = d.index \/ IsIndexed(e))
    <3>1. CASE v \in Plain BY <3>1, <1>1, OtherRows
    <3>2. CASE v = 2 BY <3>2, <1>1, <1>2, V2Rows DEF Made
    <3>3. CASE v = 14 BY <3>3, <1>1, <1>2, V14Rows DEF Made
    <3> QED BY <3>1, <3>2, <3>3, <1>5
  <2>2. v # 4 BY <1>5 DEF Plain
  <2> HIDE DEF e
  <2>3. Living(e) = Living(d) /\ e.text = d.text /\ e.hashed = d.hashed
    BY <2>1 DEF Living, SameRows, KeepsRows
  <2>4. IsIndexed(e) BY <1>1, <2>1, <2>3 DEF IsIndexed
  <2>5. v >= 4 => \E u \in d.versions : u >= 4 BY <2>2
  <2> QED BY <1>1, <2>1, <2>3, <2>4, <2>5 DEF HashesFit, SameRows, e
<1>6. CASE v = 16
  <2>1. e = V16(d) BY <1>6 DEF Made
  <2> HIDE DEF e
  <2>2. /\ KeepsRows(d, e) /\ e.index = d.index /\ e.hashed = d.hashed
        /\ e.derived = d.derived \cup {p \in d.json : {p[1], p[2]} \subseteq d.rows}
        /\ e.json = {}
    BY <1>1, <2>1, V16Rows
  <2>3. Living(e) = Living(d) /\ e.text = d.text BY <2>2 DEF Living, KeepsRows
  <2>4. IsIndexed(e) BY <1>1, <2>2, <2>3 DEF IsIndexed
  <2>5. \E u \in d.versions : u >= 4 BY <1>6
  <2> QED BY <1>1, <2>2, <2>3, <2>4, <2>5 DEF HashesFit, e
<1> QED BY <1>3, <1>4, <1>5, <1>6

------------------------------------------------------------------------------
(* Versions, and the steps of processes.                                     *)

LEMMA VersionIs ==
  ASSUME NEW d, d.versions \subseteq 1 .. Latest
  PROVE  /\ Version(d) \in 0 .. Latest
         /\ d.versions = {} => Version(d) = 0
         /\ d.versions # {} => Version(d) \in d.versions
         /\ \A v \in d.versions : v <= Version(d)
<1>1. CASE d.versions = {} BY <1>1 DEF Version, Latest
<1>2. CASE d.versions # {}
  <2> DEFINE S == {28 - v : v \in d.versions}
  <2>1. S \subseteq Nat /\ S # {} BY <1>2 DEF Latest
  <2>2. PICK m \in S : \A n \in S : m <= n BY <2>1, Least
  <2>3. PICK x \in d.versions : m = 28 - x BY <2>2
  <2>4. \A y \in d.versions : x >= y
    <3> SUFFICES ASSUME NEW y \in d.versions PROVE x >= y OBVIOUS
    <3>1. m <= 28 - y BY <2>2
    <3>2. x \in Int /\ y \in Int BY DEF Latest
    <3> QED BY <2>3, <3>1, <3>2
  <2>5. Version(d) \in d.versions /\ \A y \in d.versions : Version(d) >= y
    BY <1>2, <2>4 DEF Version, Max
  <2> QED BY <1>2, <2>5 DEF Latest
<1> QED BY <1>1, <1>2

LEMMA RecordKeeps ==
  ASSUME NEW d, IsFile(d), NEW v \in 1 .. Latest
  PROVE  LET e == Record(d, v)
         IN /\ IsFile(e) /\ e.versions = d.versions \cup {v}
            /\ e.rows = d.rows /\ e.deleted = d.deleted /\ e.text = d.text /\ e.tables = d.tables
            /\ e.links = d.links /\ e.odd = d.odd /\ e.sessions = d.sessions /\ e.marks = d.marks
            /\ e.twins = d.twins
            /\ e.hashed = d.hashed /\ e.json = d.json /\ e.derived = d.derived /\ e.index = d.index
BY DEF IsFile, Empty, Record

(* One whole migration.                                                      *)
LEMMA MigratedRows ==
  ASSUME NEW d, RowsFit(d), NEW v \in 2 .. Latest, NEW tok, tok # Unset, v - 1 \in d.versions
  PROVE  LET e == Migrated(d, v, tok)
         IN /\ RowsFit(e) /\ e.versions = d.versions \cup {v}
            /\ e.rows = d.rows /\ Passes(d, e) /\ e.twins = d.twins
            /\ d.json \cup d.derived \subseteq e.json \cup e.derived \cup {p \in d.json : ~({p[1], p[2]} \subseteq d.rows)}
            /\ e.json \subseteq d.json
<1> DEFINE c == Made(d, v, tok)
           e == Record(c, v)
<1>1. v > 4 => \E u \in d.versions : u >= 4 BY DEF Latest
<1>2. /\ KeepsRows(d, c) /\ IsIndexed(c)
      /\ d.json \cup d.derived \subseteq c.json \cup c.derived \cup {p \in d.json : ~({p[1], p[2]} \subseteq d.rows)}
      /\ c.json \subseteq d.json
      /\ \A m, n \in Living(c) \cap c.hashed : c.text[m] = c.text[n] => m = n
      /\ (v >= 4 \/ \E u \in d.versions : u >= 4)
            => \A m \in Living(c) : \E n \in Living(c) \cap c.hashed : c.text[n] = c.text[m]
  BY <1>1, MadeRows
<1> HIDE DEF c
<1>3. v \in 1 .. Latest BY DEF Latest
<1>4. /\ IsFile(e) /\ e.versions = d.versions \cup {v}
      /\ e.rows = c.rows /\ e.deleted = c.deleted /\ e.text = c.text /\ e.tables = c.tables
      /\ e.links = c.links /\ e.odd = c.odd /\ e.sessions = c.sessions /\ e.marks = c.marks
      /\ e.twins = c.twins
      /\ e.hashed = c.hashed /\ e.json = c.json /\ e.derived = c.derived /\ e.index = c.index
  BY <1>2, <1>3, RecordKeeps DEF KeepsRows
<1> HIDE DEF e
<1>5. Living(e) = Living(c) BY <1>4 DEF Living
<1>6. IsIndexed(e) BY <1>2, <1>4, <1>5 DEF IsIndexed
<1>7. HashesFit(e) BY <1>2, <1>4, <1>5 DEF HashesFit
<1>8. Passes(d, e) BY <1>2, <1>4 DEF KeepsRows, Passes
<1>9. e.tables # {} BY <1>2, <1>4 DEF KeepsRows, RowsFit
<1>10. Migrated(d, v, tok) = e BY DEF Migrated, e, c
<1> QED BY <1>2, <1>4, <1>6, <1>7, <1>8, <1>9, <1>10 DEF RowsFit, KeepsRows

(* createFreshSchema, and the change of the tokenizer.                       *)
LEMMA FreshRows ==
  ASSUME NEW d, RowsFit(d), d.tables = {}, NEW tok
  PROVE  LET e == Fresh(d, tok)
         IN /\ RowsFit(e) /\ FreshVersion \in e.versions /\ d.versions \subseteq e.versions
            /\ e.rows = d.rows /\ Passes(d, e)
            /\ e.json = d.json /\ e.derived = d.derived
<1> DEFINE e == Fresh(d, tok)
<1>1. /\ DOMAIN e = DOMAIN d /\ e.versions = {FreshVersion} /\ e.tables = FinalTables
      /\ e.rows = d.rows /\ e.deleted = d.deleted /\ e.index = d.index
      /\ e.links = d.links /\ e.odd = d.odd /\ e.sessions = d.sessions /\ e.marks = d.marks
      /\ e.json = d.json /\ e.derived = d.derived
  BY DEF RowsFit, IsFile, Empty, Fresh
<1> HIDE DEF e
<1>2. d.rows = {} /\ d.versions = {} /\ FinalTables # {} BY DEF RowsFit, FinalTables
<1>3. Living(e) = {} BY <1>1, <1>2 DEF Living
<1>4. IsFile(e) BY <1>1 DEF IsFile, RowsFit, Latest, FreshVersion
<1>5. Passes(d, e) BY <1>1 DEF Passes
<1>6. RowsFit(e) BY <1>1, <1>2, <1>3, <1>4 DEF RowsFit, HashesFit, IsIndexed
<1> QED BY <1>1, <1>2, <1>5, <1>6 DEF e

LEMMA RetokenizedRows ==
  ASSUME NEW d, RowsFit(d), NEW tok, tok # Unset
  PROVE  LET e == Retokenized(d, tok)
         IN /\ RowsFit(e) /\ e.versions = d.versions
            /\ e.rows = d.rows /\ Passes(d, e)
            /\ e.json = d.json /\ e.derived = d.derived
<1> DEFINE e == Retokenized(d, tok)
<1>1. CASE d.tok \in {Unset, tok} BY <1>1 DEF Retokenized, Passes
<1>2. CASE d.tok \notin {Unset, tok}
  <2>1. /\ DOMAIN e = DOMAIN d /\ e.versions = d.versions /\ e.tables = d.tables
        /\ e.rows = d.rows /\ e.deleted = d.deleted /\ e.text = d.text /\ e.hashed = d.hashed
        /\ e.links = d.links /\ e.odd = d.odd /\ e.sessions = d.sessions /\ e.marks = d.marks
        /\ e.json = d.json /\ e.derived = d.derived
        /\ e.index = [m \in Ident |-> IF m \in Living(d) THEN tok ELSE Unset]
    BY <1>2 DEF RowsFit, IsFile, Empty, Retokenized, Indexed
  <2> HIDE DEF e
  <2>2. Living(e) = Living(d) BY <2>1 DEF Living
  <2>3. IsFile(e) BY <2>1 DEF IsFile, RowsFit
  <2>4. IsIndexed(e) BY <2>1, <2>2, <2>3 DEF IsIndexed, IsFile, Living
  <2>5. HashesFit(e) BY <2>1, <2>2 DEF HashesFit, RowsFit
  <2>6. Passes(d, e) BY <2>1 DEF Passes
  <2> QED BY <2>1, <2>3, <2>4, <2>5, <2>6 DEF RowsFit, e
<1> QED BY <1>1, <1>2

(* A row that is added has its words and its hash.                           *)
Added(d, m, tok) == [d EXCEPT !.rows = @ \cup {m}, !.hashed = @ \cup {m}, !.index[m] = tok]

LEMMA AddedRows ==
  ASSUME NEW d, RowsFit(d), NEW m \in Ident, NEW tok, tok # Unset, m \notin d.rows, d.versions # {},
         \A n \in Living(d) \cap d.hashed : d.text[n] # d.text[m]
  PROVE  LET e == Added(d, m, tok)
         IN /\ RowsFit(e) /\ e.versions = d.versions
            /\ d.rows \subseteq e.rows /\ Passes(d, e)
            /\ e.json = d.json /\ e.derived = d.derived
<1> DEFINE e == Added(d, m, tok)
<1>1. /\ DOMAIN e = DOMAIN d /\ e.versions = d.versions /\ e.tables = d.tables
      /\ e.rows = d.rows \cup {m} /\ e.deleted = d.deleted /\ e.text = d.text /\ e.hashed = d.hashed \cup {m}
      /\ e.links = d.links /\ e.odd = d.odd /\ e.sessions = d.sessions /\ e.marks = d.marks
      /\ e.json = d.json /\ e.derived = d.derived
      /\ e.index = [d.index EXCEPT ![m] = tok]
  BY DEF RowsFit, IsFile, Empty, Added
<1> HIDE DEF e
<1>2. IsFile(e) BY <1>1 DEF IsFile, RowsFit
<1>3. Living(e) = Living(d) \cup {m} BY <1>1 DEF Living, RowsFit, IsFile
<1>4. IsIndexed(e) BY <1>1, <1>3 DEF IsIndexed, RowsFit, IsFile, Living
<1>5. HashesFit(e) BY <1>1, <1>3 DEF HashesFit, RowsFit
<1>6. Passes(d, e) BY <1>1 DEF Passes
<1> QED BY <1>1, <1>2, <1>4, <1>5, <1>6 DEF RowsFit, e

(* What a step may do to the file, and that Lasting then stays.              *)
Carries(d, e) ==
    /\ RowsFit(e) /\ d.versions \subseteq e.versions
    /\ d.rows \subseteq e.rows /\ Passes(d, e)
    /\ d.json \cup d.derived \subseteq e.json \cup e.derived \cup {p \in d.json : ~({p[1], p[2]} \subseteq d.rows)}
    /\ e.json \subseteq d.json

LEMMA CarriesRows ==
  ASSUME RowsFit(db), Lasting, db.json \subseteq first.json, Carries(db, db'), first' = first
  PROVE  RowsFit(db)' /\ Lasting' /\ (db.json \subseteq first.json)'
<1>1. Passes(first, db)' BY DEF Carries, Lasting, Passes
<1> QED BY <1>1 DEF Carries, Lasting, RowsFit, HashesFit, IsIndexed, IsFile, Living

\* One process takes a step, and the others stay where they are.
LEMMA CountsOn ==
  ASSUME SchemaInv, NEW p \in Opener, NEW to \in {"down", "step", "check", "up", "failed"}, Goes(p, to),
         db.versions \subseteq db'.versions,
         \/ UNCHANGED at
         \/ \E n \in 0 .. Latest : at' = [at EXCEPT ![p] = n],
         to = "step" => at'[p] < Latest /\ (at'[p] > 0 => at'[p] \in db'.versions),
         to \in {"check", "up"} => {FreshVersion, Latest} \cap db'.versions # {}
  PROVE  /\ stage' \in [Opener -> {"down", "step", "check", "up", "failed"}]
         /\ at' \in [Opener -> Nat]
         /\ CountsVersions'
<1>1. /\ stage' \in [Opener -> {"down", "step", "check", "up", "failed"}]
      /\ stage'[p] = to /\ \A q \in Opener \ {p} : stage'[q] = stage[q]
  BY DEF SchemaInv, Goes
<1>2. at' \in [Opener -> Nat] /\ at'[p] \in 0 .. Latest /\ \A q \in Opener \ {p} : at'[q] = at[q]
  BY DEF SchemaInv, CountsVersions, Latest
<1>3. ASSUME NEW q \in Opener
      PROVE /\ at'[q] \in 0 .. Latest
            /\ stage'[q] = "step" => at'[q] < Latest /\ (at'[q] > 0 => at'[q] \in db'.versions)
            /\ stage'[q] \in {"check", "up"} => {FreshVersion, Latest} \cap db'.versions # {}
  <2>1. CASE q = p BY <2>1, <1>1, <1>2
  <2>2. CASE q # p BY <2>2, <1>1, <1>2 DEF SchemaInv, CountsVersions
  <2> QED BY <2>1, <2>2
<1> QED BY <1>1, <1>2, <1>3 DEF CountsVersions

LEMMA SchemaInitially == FilesFit /\ SchemaInit => SchemaInv
<1> SUFFICES ASSUME FilesFit, SchemaInit PROVE SchemaInv OBVIOUS
<1>1. RowsFit(db) /\ first = db BY DEF FilesFit, SchemaInit
<1>2. Lasting BY <1>1 DEF Lasting, Passes
<1> QED BY <1>1, <1>2 DEF SchemaInit, SchemaInv, CountsVersions, Latest

LEMMA SchemaStep == SchemaInv /\ [SchemaNext]_schemaVars => SchemaInv'
<1> SUFFICES ASSUME SchemaInv, [SchemaNext]_schemaVars PROVE SchemaInv' OBVIOUS
<1>1. CASE UNCHANGED schemaVars
  BY <1>1 DEF schemaVars, SchemaInv, CountsVersions, Lasting, Passes, RowsFit, HashesFit, IsIndexed, IsFile, Living
<1>2. RowsFit(db) /\ Lasting /\ db.json \subseteq first.json /\ IsFile(db) BY DEF SchemaInv, RowsFit, Lasting
<1>3. ASSUME UNCHANGED <<db, first>>
      PROVE  RowsFit(db)' /\ Lasting' /\ (db.json \subseteq first.json)'
  BY <1>2, <1>3 DEF Lasting, Passes
<1>4. ASSUME NEW p \in Opener, Start(p) PROVE SchemaInv'
  <2>1. UNCHANGED <<db, first>> BY <1>4 DEF Start
  <2> DEFINE v == Version(db)
  <2>2. v \in 0 .. Latest /\ (v > 0 => v \in db.versions)
    BY <1>2, VersionIs DEF IsFile
  <2>3. at' = [at EXCEPT ![p] = v] /\ Goes(p, IF v >= Latest THEN "check" ELSE "step") BY <1>4 DEF Start
  <2> HIDE DEF v
  <2>4. at'[p] = v BY <2>3 DEF SchemaInv
  <2>5. CASE v >= Latest
    <3>1. v = Latest /\ Latest \in db.versions BY <2>2, <2>5 DEF Latest
    <3> QED BY <1>3, <2>1, <2>2, <2>3, <2>5, <3>1, CountsOn DEF SchemaInv
  <2>6. CASE ~(v >= Latest)
    <3>1. v < Latest BY <2>2, <2>6 DEF Latest
    <3> QED BY <1>3, <2>1, <2>2, <2>3, <2>4, <2>6, <3>1, CountsOn DEF SchemaInv
  <2> QED BY <2>5, <2>6
<1>5. ASSUME NEW p \in Opener, CreateFresh(p) PROVE SchemaInv'
  <2>1. CASE db.tables = {}
    <3>1. db' = Fresh(db, Tokenizer[p]) /\ Goes(p, "check") /\ UNCHANGED <<first, at>>
      BY <1>5, <2>1 DEF CreateFresh
    <3>2. Carries(db, db') /\ FreshVersion \in db'.versions BY <1>2, <2>1, <3>1, FreshRows DEF Carries
    <3>3. db.versions \subseteq db'.versions BY <3>2 DEF Carries
    <3> QED BY <1>2, <3>1, <3>2, <3>3, CarriesRows, CountsOn DEF SchemaInv
  <2>2. CASE db.tables # {}
    <3>1. Goes(p, "failed") /\ UNCHANGED <<db, first, at>> BY <1>5, <2>2 DEF CreateFresh
    <3> QED BY <1>3, <3>1, CountsOn DEF SchemaInv
  <2> QED BY <2>1, <2>2
<1>6. ASSUME NEW p \in Opener, Migrate(p) PROVE SchemaInv'
  <2> DEFINE v == at[p] + 1
  <2>1. v \in 2 .. Latest /\ v - 1 \in db.versions
    BY <1>6 DEF Migrate, SchemaInv, CountsVersions, Latest
  <2>2. CASE Fails(db, v)
    <3>1. Goes(p, "failed") /\ UNCHANGED <<db, first, at>> BY <1>6, <2>2 DEF Migrate, NextVersion
    <3> QED BY <1>3, <3>1, CountsOn DEF SchemaInv
  <2>3. CASE ~Fails(db, v)
    <3>1. /\ db' = Migrated(db, v, Tokenizer[p]) /\ at' = [at EXCEPT ![p] = v] /\ UNCHANGED first
          /\ Goes(p, IF v >= Latest THEN "check" ELSE "step")
      BY <1>6, <2>3 DEF Migrate, NextVersion
    <3>2. Tokenizer[p] # Unset BY UnsetAssumption
    <3> HIDE DEF v
    <3>3. Carries(db, db') /\ v \in db'.versions BY <1>2, <2>1, <3>1, <3>2, MigratedRows DEF Carries
    <3>4. db.versions \subseteq db'.versions BY <3>3 DEF Carries
    <3>5. v \in 0 .. Latest /\ at'[p] = v BY <2>1, <3>1 DEF Latest, SchemaInv
    <3>6. CASE v >= Latest
      <4>1. Latest \in db'.versions BY <3>3, <3>6, <2>1 DEF Latest
      <4> QED BY <1>2, <3>1, <3>3, <3>4, <3>5, <3>6, <4>1, CarriesRows, CountsOn DEF SchemaInv
    <3>7. CASE ~(v >= Latest)
      <4>1. v < Latest BY <3>7, <2>1 DEF Latest
      <4> QED BY <1>2, <3>1, <3>3, <3>4, <3>5, <3>7, <4>1, CarriesRows, CountsOn DEF SchemaInv
    <3> QED BY <3>6, <3>7
  <2> QED BY <2>2, <2>3
<1>7. ASSUME NEW p \in Opener, Busy(p) PROVE SchemaInv'
  <2>1. Goes(p, "failed") /\ UNCHANGED <<db, first, at>> BY <1>7 DEF Busy
  <2> QED BY <1>3, <2>1, CountsOn DEF SchemaInv
<1>8. ASSUME NEW p \in Opener, CheckTokenizer(p) PROVE SchemaInv'
  <2>1. db' = Retokenized(db, Tokenizer[p]) /\ Goes(p, "up") /\ UNCHANGED <<first, at>>
    BY <1>8 DEF CheckTokenizer
  <2>2. Tokenizer[p] # Unset BY UnsetAssumption
  <2>3. Carries(db, db') /\ db.versions \subseteq db'.versions /\ db'.versions = db.versions
    BY <1>2, <2>1, <2>2, RetokenizedRows DEF Carries
  <2>4. {FreshVersion, Latest} \cap db'.versions # {} BY <1>8, <2>3 DEF CheckTokenizer, SchemaInv, CountsVersions
  <2> QED BY <1>2, <2>1, <2>3, <2>4, CarriesRows, CountsOn DEF SchemaInv
<1>9. ASSUME NEW p \in Opener, Die(p) PROVE SchemaInv'
  <2>1. Goes(p, "down") /\ UNCHANGED <<db, first, at>> BY <1>9 DEF Die
  <2> QED BY <1>3, <2>1, CountsOn DEF SchemaInv
<1>10. ASSUME NEW p \in Opener, NEW m \in Ident, Add(p, m) PROVE SchemaInv'
  <2>1. /\ db' = Added(db, m, Tokenizer[p])
        /\ m \notin db.rows /\ \A n \in Living(db) \cap db.hashed : db.text[n] # db.text[m]
        /\ UNCHANGED <<first, stage, at>>
    BY <1>10 DEF Add, Added
  <2>2. Tokenizer[p] # Unset /\ db.versions # {} BY <1>10, UnsetAssumption DEF Add, SchemaInv, CountsVersions
  <2>3. RowsFit(db) BY <1>2
  <2>4. /\ RowsFit(db') /\ db'.versions = db.versions
        /\ db.rows \subseteq db'.rows /\ Passes(db, db')
        /\ db'.json = db.json /\ db'.derived = db.derived
    BY <2>1, <2>2, <2>3, AddedRows
  <2>5. Carries(db, db') /\ db'.versions = db.versions BY <2>4 DEF Carries
  <2> QED BY <1>2, <2>1, <2>5, CarriesRows DEF SchemaInv, CountsVersions
<1> QED BY <1>1, <1>4, <1>5, <1>6, <1>7, <1>8, <1>9, <1>10 DEF SchemaNext

(* SchemaInv holds, whatever the files and however many processes open one:  *)
(* the transactions of Migrate, Fresh and Retokenized keep rows, hashes and   *)
(* words together, and a process counts only versions that were recorded.    *)
THEOREM SchemaInvariance == FilesFit => (SchemaSpec => []SchemaInv)
<1> SUFFICES ASSUME FilesFit PROVE SchemaSpec => []SchemaInv OBVIOUS
<1>1. SchemaInit => SchemaInv BY SchemaInitially
<1> QED BY <1>1, SchemaStep, PTL DEF SchemaSpec

(* No migration loses a row, a link that the CHECKs of V15 allow, or markers *)
(* of which none is without its session, and derived_from is moved before it *)
(* is dropped, also when processes run the same ones twice.                  *)
THEOREM RowsLast == FilesFit => (SchemaSpec => []RowsSurvive)
<1> SUFFICES ASSUME FilesFit PROVE SchemaSpec => []RowsSurvive OBVIOUS
<1>1. SchemaInv => RowsSurvive BY DEF SchemaInv, Lasting, Passes, RowsSurvive
<1> QED BY <1>1, SchemaInvariance, PTL

(* What migrateV3ToV4 did stays: each live memory is indexed, and one of     *)
(* each text has the hash.                                                   *)
THEOREM LiveStaysIndexed == FilesFit => (SchemaSpec => []LiveIsIndexed)
<1> SUFFICES ASSUME FilesFit PROVE SchemaSpec => []LiveIsIndexed OBVIOUS
<1>1. SchemaInv => LiveIsIndexed
  <2> SUFFICES ASSUME SchemaInv, NEW p \in Opener, stage[p] = "up", NEW m \in Living(db)
               PROVE  /\ db.index[m] # Unset
                      /\ Cardinality({n \in Living(db) \cap db.hashed : db.text[n] = db.text[m]}) = 1
    BY DEF LiveIsIndexed
  <2>1. \E v \in db.versions : v >= 4 BY DEF SchemaInv, CountsVersions, Latest, FreshVersion
  <2>2. PICK k \in Living(db) \cap db.hashed : db.text[k] = db.text[m]
    BY <2>1 DEF SchemaInv, RowsFit, HashesFit
  <2>3. {n \in Living(db) \cap db.hashed : db.text[n] = db.text[m]} = {k}
    BY <2>2 DEF SchemaInv, RowsFit, HashesFit
  <2>4. db.index[m] # Unset BY DEF SchemaInv, RowsFit, IsIndexed
  <2> QED BY <2>3, <2>4, FS_Singleton
<1> QED BY <1>1, SchemaInvariance, PTL

------------------------------------------------------------------------------
(* Chains of migrations.  Through is a recursive function: that there is one *)
(* is shown by its least argument for which there is none.                   *)

Chain(d, v, w, f) == f = [i \in v .. w |-> IF i = v THEN d ELSE After(f[i - 1], i)]

LEMMA ChainExists ==
  ASSUME NEW d, NEW v \in Nat, NEW w \in Nat, v <= w
  PROVE  \E f : Chain(d, v, w, f)
<1> DEFINE bad == {u \in Nat : v <= u /\ ~\E f : Chain(d, v, u, f)}
<1> SUFFICES ASSUME w \in bad PROVE FALSE OBVIOUS
<1>1. PICK u \in bad : \A x \in bad : u <= x BY Least
<1>2. CASE u = v
  <2> DEFINE f == [i \in v .. u |-> d]
  <2>1. f = [i \in v .. u |-> IF i = v THEN d ELSE After(f[i - 1], i)] BY <1>2
  <2> QED BY <1>1, <2>1 DEF Chain
<1>3. CASE u # v
  <2>1. u - 1 \in Nat /\ v <= u - 1 /\ u - 1 \notin bad BY <1>1, <1>3
  <2>2. PICK g : Chain(d, v, u - 1, g) BY <2>1
  <2> DEFINE f == [i \in v .. u |-> IF i = u THEN After(g[u - 1], u) ELSE g[i]]
  <2>3. \A i \in v .. u - 1 : g[i] = (IF i = v THEN d ELSE After(g[i - 1], i)) BY <2>2 DEF Chain
  <2>4. \A i \in v .. u : f[i] = (IF i = v THEN d ELSE After(f[i - 1], i))
    <3> SUFFICES ASSUME NEW i \in v .. u PROVE f[i] = (IF i = v THEN d ELSE After(f[i - 1], i)) OBVIOUS
    <3>1. CASE i = u
      <4>1. u - 1 \in v .. u /\ u - 1 # u BY <2>1
      <4>2. f[u - 1] = g[u - 1] BY <4>1
      <4> QED BY <1>3, <3>1, <4>2
    <3>2. CASE i = v /\ i # u BY <2>1, <2>3, <3>2
    <3>3. CASE i # v /\ i # u
      <4>1. i \in v .. u - 1 /\ i - 1 \in v .. u /\ i - 1 # u BY <3>3
      <4>2. f[i] = g[i] /\ f[i - 1] = g[i - 1] BY <3>3, <4>1
      <4> QED BY <2>3, <3>3, <4>1, <4>2
    <3> QED BY <3>1, <3>2, <3>3
  <2>5. f = [i \in v .. u |-> f[i]] OBVIOUS
  <2> HIDE DEF f
  <2>6. Chain(d, v, u, f) BY <2>4, <2>5 DEF Chain
  <2> QED BY <1>1, <2>6
<1> QED BY <1>2, <1>3

LEMMA ThroughIs ==
  ASSUME NEW d, NEW v \in 1 .. Latest
  PROVE  /\ Through(d, v, v) = d
         /\ \A w \in v + 1 .. Latest : Through(d, v, w) = After(Through(d, v, w - 1), w)
<1> DEFINE g == CHOOSE f : Chain(d, v, Latest, f)
<1>0. v \in Nat /\ Latest \in Nat /\ v <= Latest BY DEF Latest
<1>1. Chain(d, v, Latest, g) BY <1>0, ChainExists
<1>2. \A w : Through(d, v, w) = g[w] BY DEF Through, Chain
<1> HIDE DEF g
<1>3. \A i \in v .. Latest : g[i] = (IF i = v THEN d ELSE After(g[i - 1], i)) BY <1>1 DEF Chain
<1>4. v \in v .. Latest BY DEF Latest
<1>5. Through(d, v, v) = d BY <1>2, <1>3, <1>4
<1>6. ASSUME NEW w \in v + 1 .. Latest PROVE Through(d, v, w) = After(Through(d, v, w - 1), w)
  <2>1. w \in v .. Latest /\ w # v BY DEF Latest
  <2> QED BY <1>2, <1>3, <2>1
<1> QED BY <1>5, <1>6

LEMMA ReleasedIs ==
  /\ Released[1] = Record(V1(Empty), 1)
  /\ \A v \in 2 .. Latest : Released[v] = After(Released[v - 1], v)
<1>1. \A v \in 1 .. Latest : Released[v] = Through(Record(V1(Empty), 1), 1, v) BY DEF Released
<1>2. 1 \in 1 .. Latest BY DEF Latest
<1>3. \A v \in 2 .. Latest : v \in 1 .. Latest /\ v - 1 \in 1 .. Latest BY DEF Latest
<1>4. \A v \in 1 + 1 .. Latest : Through(Record(V1(Empty), 1), 1, v) = After(Through(Record(V1(Empty), 1), 1, v - 1), v)
  BY <1>2, ThroughIs
<1>5. Through(Record(V1(Empty), 1), 1, 1) = Record(V1(Empty), 1) BY <1>2, ThroughIs
<1>6. Released[1] = Record(V1(Empty), 1) BY <1>1, <1>2, <1>5
<1>7. ASSUME NEW v \in 2 .. Latest PROVE Released[v] = After(Released[v - 1], v)
  <2>1. v \in 1 + 1 .. Latest OBVIOUS
  <2> QED BY <1>1, <1>3, <1>4, <2>1
<1> QED BY <1>6, <1>7

------------------------------------------------------------------------------
(* What migrations do to the schema.                                         *)

Legacy == {"embedding_id", "abstract", "contexts.kind", "derived_from"}
Unique == {"memories", "documents", "idempotency_keys"}

(* At most: nothing but what the final schema has, and four older columns    *)
(* that go with V14 and V16.                                                 *)
AtMost(d, k) ==
    /\ DOMAIN d = DOMAIN Empty
    /\ d.tables \subseteq FinalTables /\ d.unique \subseteq Unique
    /\ d.cols \subseteq FinalCols \cup Legacy
    /\ k >= 14 => d.cols \cap {"embedding_id", "abstract", "contexts.kind"} = {}
    /\ k >= 16 => "derived_from" \notin d.cols

(* At least: what the migrations up to k have brought.                       *)
AtLeast(d, k) ==
    /\ {"schema_version", "memories"} \subseteq d.tables
    /\ k >= 2 => {"contexts", "tags", "memory_tags", "entities", "entity_relations",
                  "memory_entities", "documents"} \subseteq d.tables /\ "layers" \in d.cols
    /\ k < 2 => "contexts" \notin d.tables
    /\ k >= 2 /\ k < 14 => {"abstract", "contexts.kind"} \subseteq d.cols
    /\ k < 14 => "excerpt" \notin d.cols
    /\ k >= 3 => "tier" \in d.cols
    /\ k >= 4 => "meta" \in d.tables /\ "hash" \in d.cols /\ "memories" \in d.unique
    /\ k >= 5 => "consolidated" \in d.cols
    /\ k >= 6 => "owner" \in d.cols
    /\ k >= 8 => "async_tasks" \in d.tables
    /\ k >= 10 => "documents.stage" \in d.cols /\ "documents" \in d.unique
    /\ k >= 12 => "class" \in d.cols
    /\ k >= 12 /\ k < 16 => "derived_from" \in d.cols
    /\ k >= 13 => "contexts.mission" \in d.cols
    /\ k >= 14 => {"excerpt", "contexts.context_type"} \subseteq d.cols
    /\ k >= 15 => {"memory_tags.fk", "memory_entities.fk", "entity_relations.fk"} \subseteq d.cols
    /\ k >= 16 => "memory_derivations" \in d.tables
    /\ k >= 18 => "sessions" \in d.tables
    /\ k >= 19 => "session_finalize_state" \in d.tables
    /\ k >= 20 => "transcript_cursors" \in d.tables
    /\ k >= 21 => "idempotency_keys" \in d.tables /\ "idempotency_keys" \in d.unique
    /\ k >= 22 => {"session_finalize_state.fk", "transcript_cursors.fk"} \subseteq d.cols
    /\ k >= 23 => "candidate_for" \in d.cols
    /\ k >= 24 => "scope_policies" \in d.tables
    /\ k >= 26 => {"entity_relations.mention_count", "entities.deleted_at"} \subseteq d.cols
    /\ k >= 27 => "entity_candidates" \in d.tables /\ "memory_entities.confidence" \in d.cols
    /\ k >= 28 => "entity_candidates.entity_type" \in d.cols

LEMMA AtLeastAll ==
  ASSUME NEW d, AtLeast(d, Latest)
  PROVE  FinalTables \subseteq d.tables /\ FinalCols \subseteq d.cols /\ Unique \subseteq d.unique
BY DEF AtLeast, FinalTables, FinalCols, Unique, Latest

(* What V1 to V28 are, on a file that has all its parts.                     *)
Adds(d, e, T, C, U) ==
    /\ DOMAIN e = DOMAIN d
    /\ e.tables = d.tables \cup T /\ e.cols = d.cols \cup C /\ e.unique = d.unique \cup U

T2 == {"contexts", "tags", "memory_tags", "entities", "entity_relations", "memory_entities", "documents"}

LEMMA Effects ==
  ASSUME NEW d, DOMAIN d = DOMAIN Empty, NEW tok
  PROVE  /\ Adds(d, V2(d), T2, {"layers", "abstract"} \cup (IF "contexts" \in d.tables THEN {} ELSE {"contexts.kind"}), {})
         /\ Adds(d, V3(d), {}, {"tier"}, {})
         /\ Adds(d, V4(d, tok), {"meta"}, {"hash"}, {"memories"})
         /\ Adds(d, V5(d), {}, {"consolidated"}, {})
         /\ Adds(d, V6(d), {}, {"owner"}, {})
         /\ Adds(d, V7(d), {}, {}, {})
         /\ Adds(d, V8(d), {"async_tasks"}, {}, {})
         /\ Adds(d, V9(d), {}, {}, {})
         /\ Adds(d, V10(d), {}, {"documents.stage"}, IF d.twins THEN {} ELSE {"documents"})
         /\ Adds(d, V11(d), {}, {}, {})
         /\ Adds(d, V12(d), {}, {"class", "derived_from"}, {})
         /\ Adds(d, V13(d), {}, {"contexts.mission"}, {})
         /\ Adds(d, V15(d), {}, {"memory_tags.fk", "memory_entities.fk", "entity_relations.fk"}, {})
         /\ Adds(d, V17(d), {}, {}, {})
         /\ Adds(d, V18(d), {"sessions"}, {}, {})
         /\ Adds(d, V19(d), {"session_finalize_state"}, {}, {})
         /\ Adds(d, V20(d), {"transcript_cursors"}, {}, {})
         /\ Adds(d, V21(d), {"idempotency_keys"}, {}, {"idempotency_keys"})
         /\ Adds(d, V22(d), {}, {"session_finalize_state.fk", "transcript_cursors.fk"}, {})
         /\ Adds(d, V23(d), {}, {"candidate_for"}, {})
         /\ Adds(d, V24(d), {"scope_policies"}, {}, {})
         /\ Adds(d, V25(d), {}, {}, {})
         /\ Adds(d, V26(d), {}, {"entity_relations.mention_count", "entities.deleted_at"}, {})
         /\ Adds(d, V27(d), {"entity_candidates"}, {"memory_entities.confidence"}, {})
         /\ Adds(d, V28(d), {}, {"entity_candidates.entity_type"}, {})
<1> USE DEF Empty, Adds, WithTables, WithCols, Indexed
<1>1. Adds(d, V2(d), T2, {"layers", "abstract"} \cup (IF "contexts" \in d.tables THEN {} ELSE {"contexts.kind"}), {})
  BY DEF V2, T2
<1>2. Adds(d, V4(d, tok), {"meta"}, {"hash"}, {"memories"}) BY DEF V4
<1>3. Adds(d, V10(d), {}, {"documents.stage"}, IF d.twins THEN {} ELSE {"documents"}) BY DEF V10
<1>4. Adds(d, V21(d), {"idempotency_keys"}, {}, {"idempotency_keys"}) BY DEF V21
<1>5. Adds(d, V22(d), {}, {"session_finalize_state.fk", "transcript_cursors.fk"}, {}) BY DEF V22
<1>9. Adds(d, V15(d), {}, {"memory_tags.fk", "memory_entities.fk", "entity_relations.fk"}, {}) BY DEF V15
<1>6. Adds(d, V27(d), {"entity_candidates"}, {"memory_entities.confidence"}, {}) BY DEF V27
<1>7. Adds(d, d, {}, {}, {}) OBVIOUS
<1>8. ASSUME NEW S PROVE Adds(d, WithTables(d, S), S, {}, {}) /\ Adds(d, WithCols(d, S), {}, S, {}) OBVIOUS
<1> QED
  BY <1>1, <1>2, <1>3, <1>4, <1>5, <1>6, <1>7, <1>8, <1>9
  DEF V3, V5, V6, V7, V8, V9, V11, V12, V13, V17, V18, V19, V20, V23, V24, V25, V26, V28

LEMMA V14Effect ==
  ASSUME NEW d, DOMAIN d = DOMAIN Empty
  PROVE  /\ DOMAIN V14(d) = DOMAIN Empty /\ V14(d).tables = d.tables /\ V14(d).unique = d.unique
         /\ V14(d).cols = (d.cols \ {"abstract", "contexts.kind", "embedding_id"})
                          \cup (IF "abstract" \in d.cols THEN {"excerpt"} ELSE {})
                          \cup (IF "contexts.kind" \in d.cols THEN {"contexts.context_type"} ELSE {})
BY DEF V14, Empty, Indexed

LEMMA V16Effect ==
  ASSUME NEW d, DOMAIN d = DOMAIN Empty
  PROVE  /\ DOMAIN V16(d) = DOMAIN Empty /\ V16(d).tables = d.tables \cup {"memory_derivations"}
         /\ V16(d).unique = d.unique /\ V16(d).cols = d.cols \ {"derived_from"}
BY DEF V16, Empty, WithTables

(* A schema that grew in the order of the migrations has all that they       *)
(* brought, and stops none of those that are left.                           *)
LEMMA Grows ==
  ASSUME NEW d, NEW v \in 2 .. Latest, NEW tok, DOMAIN d = DOMAIN Empty, ~d.twins, d.links = {},
         AtMost(d, v - 1), AtLeast(d, v - 1)
  PROVE  ~Fails(d, v) /\ AtMost(Made(d, v, tok), v) /\ AtLeast(Made(d, v, tok), v)
<1>1. ~Fails(d, v) BY DEF Fails, AtLeast, Latest
<1> DEFINE e == Made(d, v, tok)
<1> USE DEF AtMost, AtLeast, FinalTables, FinalCols, Unique, Legacy, Adds
<1>2. CASE v = 2
  <2>1. Adds(d, e, T2, {"layers", "abstract", "contexts.kind"}, {}) BY <1>2, Effects DEF Made
  <2> HIDE DEF e
  <2> QED BY <1>1, <1>2, <2>1 DEF T2, e
<1>14. CASE v = 14
  <2>1. /\ DOMAIN e = DOMAIN Empty /\ e.tables = d.tables /\ e.unique = d.unique
        /\ e.cols = (d.cols \ {"abstract", "contexts.kind", "embedding_id"}) \cup {"excerpt", "contexts.context_type"}
    BY <1>14, V14Effect DEF Made
  <2> HIDE DEF e
  <2> QED BY <1>1, <1>14, <2>1 DEF e
<1>16. CASE v = 16
  <2>1. /\ DOMAIN e = DOMAIN Empty /\ e.tables = d.tables \cup {"memory_derivations"} /\ e.unique = d.unique
        /\ e.cols = d.cols \ {"derived_from"}
    BY <1>16, V16Effect DEF Made
  <2> HIDE DEF e
  <2> QED BY <1>1, <1>16, <2>1 DEF e
<1>3. CASE v = 3 BY <1>1, <1>3, Effects DEF Made
<1>4. CASE v = 4 BY <1>1, <1>4, Effects DEF Made
<1>5. CASE v = 5 BY <1>1, <1>5, Effects DEF Made
<1>6. CASE v = 6 BY <1>1, <1>6, Effects DEF Made
<1>7. CASE v = 7 BY <1>1, <1>7, Effects DEF Made
<1>8. CASE v = 8 BY <1>1, <1>8, Effects DEF Made
<1>9. CASE v = 9 BY <1>1, <1>9, Effects DEF Made
<1>10. CASE v = 10 BY <1>1, <1>10, Effects DEF Made
<1>11. CASE v = 11 BY <1>1, <1>11, Effects DEF Made
<1>12. CASE v = 12 BY <1>1, <1>12, Effects DEF Made
<1>13. CASE v = 13 BY <1>1, <1>13, Effects DEF Made
<1>15. CASE v = 15 BY <1>1, <1>15, Effects DEF Made
<1>17. CASE v = 17 BY <1>1, <1>17, Effects DEF Made
<1>18. CASE v = 18 BY <1>1, <1>18, Effects DEF Made
<1>19. CASE v = 19 BY <1>1, <1>19, Effects DEF Made
<1>20. CASE v = 20 BY <1>1, <1>20, Effects DEF Made
<1>21. CASE v = 21 BY <1>1, <1>21, Effects DEF Made
<1>22. CASE v = 22 BY <1>1, <1>22, Effects DEF Made
<1>23. CASE v = 23 BY <1>1, <1>23, Effects DEF Made
<1>24. CASE v = 24 BY <1>1, <1>24, Effects DEF Made
<1>25. CASE v = 25 BY <1>1, <1>25, Effects DEF Made
<1>26. CASE v = 26 BY <1>1, <1>26, Effects DEF Made
<1>27. CASE v = 27 BY <1>1, <1>27, Effects DEF Made
<1>28. CASE v = 28 BY <1>1, <1>28, Effects DEF Made
<1> HIDE DEF AtMost, AtLeast, FinalTables, FinalCols, Unique, Legacy, Adds, e
<1> QED
  BY <1>2, <1>3, <1>4, <1>5, <1>6, <1>7, <1>8, <1>9, <1>10, <1>11, <1>12, <1>13, <1>14, <1>15,
     <1>16, <1>17, <1>18, <1>19, <1>20, <1>21, <1>22, <1>23, <1>24, <1>25, <1>26, <1>27, <1>28 DEF Latest, e

LEMMA RecordSchema ==
  ASSUME NEW d, DOMAIN d = DOMAIN Empty, NEW v
  PROVE  LET e == Record(d, v)
         IN /\ DOMAIN e = DOMAIN Empty /\ e.tables = d.tables /\ e.cols = d.cols
            /\ e.unique = d.unique /\ e.fts = d.fts /\ e.twins = d.twins /\ e.links = d.links /\ e.rows = d.rows
BY DEF Record, Empty

(* What a release made is of that kind, and none of them failed on it.       *)
Grown(d, k) ==
    /\ RowsFit(d) /\ k \in d.versions /\ AtMost(d, k) /\ AtLeast(d, k) /\ ~d.twins /\ d.links = {}

LEMMA ReleasedGrows ==
  /\ \A k \in 1 .. Latest : Grown(Released[k], k)
  /\ \A k \in 2 .. Latest : Released[k] = Migrated(Released[k - 1], k, "simple")
<1>1. Grown(Released[1], 1)
  <2> DEFINE e == Record(V1(Empty), 1)
  <2>1. /\ e.versions = {1} /\ e.tables = {"schema_version", "memories"} /\ e.cols = {"embedding_id"}
        /\ e.unique = {} /\ e.rows = {} /\ e.deleted = {} /\ e.links = {} /\ e.marks = {} /\ e.sessions = {}
        /\ ~e.twins /\ DOMAIN e = DOMAIN Empty /\ DOMAIN e.index = Ident
    BY DEF Record, V1, Empty, WithTables
  <2> HIDE DEF e
  <2>2. RowsFit(e) BY <2>1 DEF RowsFit, IsFile, HashesFit, IsIndexed, Living, Latest
  <2>3. AtMost(e, 1) BY <2>1 DEF AtMost, FinalTables, Legacy
  <2>4. AtLeast(e, 1) BY <2>1 DEF AtLeast
  <2> QED BY <2>1, <2>2, <2>3, <2>4, ReleasedIs DEF Grown, e
<1>2. ASSUME NEW k \in 2 .. Latest, Grown(Released[k - 1], k - 1)
      PROVE  Released[k] = Migrated(Released[k - 1], k, "simple") /\ Grown(Released[k], k)
  <2> DEFINE d == Released[k - 1]
             c == Made(d, k, "simple")
             e == Migrated(d, k, "simple")
  <2>1. Grown(d, k - 1) BY <1>2
  <2>2. Released[k] = After(d, k) BY ReleasedIs
  <2> HIDE DEF d
  <2>3. DOMAIN d = DOMAIN Empty /\ d.versions # {} BY <2>1 DEF Grown, RowsFit, IsFile
  <2>4. "simple" # Unset BY UnsetAssumption
  <2>5. ~Fails(d, k) /\ AtMost(c, k) /\ AtLeast(c, k) BY <2>1, <2>3, Grows DEF Grown
  <2>6. RowsFit(e) /\ k \in e.versions /\ e.twins = d.twins /\ e.links = {}
    <3>1. RowsFit(e) /\ k \in e.versions /\ e.twins = d.twins /\ Passes(d, e)
      BY <2>1, <2>4, MigratedRows DEF Grown
    <3> QED BY <2>1, <3>1 DEF Grown, Passes
  <2>7. DOMAIN c = DOMAIN Empty BY <2>5 DEF AtMost
  <2>8. e = Record(c, k) BY DEF Migrated
  <2> HIDE DEF c, e
  <2>9. AtMost(e, k) /\ AtLeast(e, k) BY <2>5, <2>7, <2>8, RecordSchema DEF AtMost, AtLeast
  <2>10. d # Empty BY <2>3 DEF Empty
  <2>11. Released[k] = e BY <2>2, <2>5, <2>10 DEF After, e
  <2> QED BY <2>1, <2>6, <2>9, <2>11 DEF Grown, e, d
<1>3. \A k \in 1 .. Latest : Grown(Released[k], k)
  <2> DEFINE bad == {k \in 1 .. Latest : ~Grown(Released[k], k)}
  <2> SUFFICES ASSUME bad # {} PROVE FALSE OBVIOUS
  <2>1. PICK k \in bad : \A n \in bad : k <= n
    <3>1. bad \subseteq Nat BY DEF Latest
    <3> QED BY <3>1, Least
  <2>2. k \in 2 .. Latest BY <1>1 DEF Latest
  <2>3. k - 1 \in 1 .. Latest /\ k - 1 \notin bad BY <2>1, <2>2 DEF Latest
  <2> QED BY <1>2, <2>2, <2>3
<1>4. \A k \in 2 .. Latest : k - 1 \in 1 .. Latest BY DEF Latest
<1> QED BY <1>2, <1>3, <1>4

(* From V5 on all but V14 and V16 add the same to every file.                *)
LEMMA Adding ==
  ASSUME NEW c, DOMAIN c = DOMAIN Empty, ~c.twins, NEW d, DOMAIN d = DOMAIN Empty, ~d.twins, Within(c, d),
         NEW v \in (5 .. Latest) \ {14, 16}, NEW s, NEW t
  PROVE  /\ Within(Made(c, v, s), Made(d, v, t)) /\ Within(c, Made(d, v, t))
         /\ "excerpt" \notin d.cols => "excerpt" \notin Made(d, v, t).cols
<1> USE DEF Within, Adds
<1>5. CASE v = 5 BY <1>5, Effects DEF Made
<1>6. CASE v = 6 BY <1>6, Effects DEF Made
<1>7. CASE v = 7 BY <1>7, Effects DEF Made
<1>8. CASE v = 8 BY <1>8, Effects DEF Made
<1>9. CASE v = 9 BY <1>9, Effects DEF Made
<1>10. CASE v = 10 BY <1>10, Effects DEF Made
<1>11. CASE v = 11 BY <1>11, Effects DEF Made
<1>12. CASE v = 12 BY <1>12, Effects DEF Made
<1>13. CASE v = 13 BY <1>13, Effects DEF Made
<1>15. CASE v = 15 BY <1>15, Effects DEF Made
<1>17. CASE v = 17 BY <1>17, Effects DEF Made
<1>18. CASE v = 18 BY <1>18, Effects DEF Made
<1>19. CASE v = 19 BY <1>19, Effects DEF Made
<1>20. CASE v = 20 BY <1>20, Effects DEF Made
<1>21. CASE v = 21 BY <1>21, Effects DEF Made
<1>22. CASE v = 22 BY <1>22, Effects DEF Made
<1>23. CASE v = 23 BY <1>23, Effects DEF Made
<1>24. CASE v = 24 BY <1>24, Effects DEF Made
<1>25. CASE v = 25 BY <1>25, Effects DEF Made
<1>26. CASE v = 26 BY <1>26, Effects DEF Made
<1>27. CASE v = 27 BY <1>27, Effects DEF Made
<1>28. CASE v = 28 BY <1>28, Effects DEF Made
<1> HIDE DEF Within, Adds
<1> QED BY <1>5, <1>6, <1>7, <1>8, <1>9, <1>10, <1>11, <1>12, <1>13, <1>15, <1>17, <1>18, <1>19, <1>20, <1>21, <1>22, <1>23, <1>24, <1>25, <1>26, <1>27, <1>28 DEF Latest

LEMMA FtsOf ==
  ASSUME NEW d, DOMAIN d = DOMAIN Empty, NEW v \in 5 .. Latest, NEW tok
  PROVE  Made(d, v, tok).fts = IF v = 14 THEN FinalFts ELSE d.fts
<1> USE DEF Empty, WithTables, WithCols, Indexed
<1>1. CASE v \in {7, 9, 11, 17, 25} BY <1>1 DEF Made, V7, V9, V11, V17, V25
<1>2. CASE v \in {8, 18, 19, 20, 24} BY <1>2 DEF Made, V8, V18, V19, V20, V24
<1>3. CASE v \in {5, 6, 12, 13, 15} BY <1>3 DEF Made, V5, V6, V12, V13, V15
<1>4. CASE v \in {23, 26, 28} BY <1>4 DEF Made, V23, V26, V28
<1>5. V10(d).fts = d.fts /\ V22(d).fts = d.fts BY DEF V10, V22
<1>6. V21(d).fts = d.fts /\ V27(d).fts = d.fts BY DEF V21, V27
<1>7. V14(d).fts = FinalFts /\ V16(d).fts = d.fts BY DEF V14, V16, FinalFts
<1> HIDE DEF Empty, WithTables, WithCols, Indexed
<1>8. CASE v \in {10, 14, 16, 21, 22, 27} BY <1>5, <1>6, <1>7, <1>8 DEF Made
<1> QED BY <1>1, <1>2, <1>3, <1>4, <1>8 DEF Latest

(* The same migration on a file that has more makes more, and one that was   *)
(* made before takes nothing away.                                           *)
LEMMA OnTop ==
  ASSUME NEW c, DOMAIN c = DOMAIN Empty, ~c.twins, NEW d, DOMAIN d = DOMAIN Empty, ~d.twins, Within(c, d),
         NEW v \in 5 .. Latest, NEW s, NEW t
  PROVE  /\ Within(Made(c, v, s), Made(d, v, t))
         /\ \A k \in Nat : AtMost(c, k) /\ v <= k => Within(c, Made(d, v, t))
         /\ v < 14 /\ "excerpt" \notin d.cols => "excerpt" \notin Made(d, v, t).cols
<1>1. CASE v \notin {14, 16} BY <1>1, Adding
<1>2. CASE v = 14
  <2>1. Made(c, v, s) = V14(c) /\ Made(d, v, t) = V14(d) BY <1>2 DEF Made
  <2> QED BY <1>2, <2>1, V14Effect DEF Within, AtMost
<1>3. CASE v = 16
  <2>1. Made(c, v, s) = V16(c) /\ Made(d, v, t) = V16(d) BY <1>3 DEF Made
  <2> QED BY <1>3, <2>1, V16Effect DEF Within, AtMost
<1> QED BY <1>1, <1>2, <1>3

(* A file that opens goes on to open after every migration it may run: the   *)
(* next, or any that was made before.                                        *)
LEMMA OpensOn ==
  ASSUME NEW d, RowsFit(d), NEW k \in 4 .. Latest, Opens(d, k),
         NEW v \in 5 .. Latest, v <= k + 1, v - 1 \in d.versions, NEW tok, tok # Unset
  PROVE  Opens(Migrated(d, v, tok), IF v = k + 1 THEN v ELSE k)
<1> DEFINE r == Released[k]
           c == Made(d, v, tok)
           e == Migrated(d, v, tok)
           w == IF v = k + 1 THEN v ELSE k
<1>1. k \in 1 .. Latest /\ v \in 2 .. Latest BY DEF Latest
<1>2. Grown(r, k) BY <1>1, ReleasedGrows
<1>3. DOMAIN d = DOMAIN Empty /\ DOMAIN r = DOMAIN Empty /\ ~r.twins /\ ~d.twins /\ Within(r, d) /\ AtMost(r, k)
  BY <1>2 DEF RowsFit, IsFile, Grown, Opens, Tells
<1>4. Released[v] = Migrated(Released[v - 1], v, "simple") BY <1>1, ReleasedGrows
<1> HIDE DEF r
<1>5. e.rows = d.rows /\ Passes(d, e) /\ e.twins = d.twins /\ RowsFit(e) BY <1>1, MigratedRows
<1>6. /\ Within(Made(r, v, "simple"), c)
      /\ v <= k => Within(r, c)
      /\ v < 14 /\ "excerpt" \notin d.cols => "excerpt" \notin c.cols
  BY <1>1, <1>3, OnTop
<1>7. c.fts = IF v = 14 THEN FinalFts ELSE d.fts BY <1>3, FtsOf
<1>8. RowsFit(d) /\ DOMAIN c = DOMAIN Empty
  <2>1. v > 4 => \E u \in d.versions : u >= 4 BY DEF Latest
  <2>2. KeepsRows(d, c) BY <1>1, <2>1, MadeRows
  <2> HIDE DEF c
  <2> QED BY <2>2 DEF KeepsRows, IsFile
<1>9. e = Record(c, v) BY DEF Migrated
<1> HIDE DEF c, e
<1>10. e.tables = c.tables /\ e.cols = c.cols /\ e.unique = c.unique /\ e.fts = c.fts
  BY <1>8, <1>9, RecordSchema
<1>11. Within(Released[w], e)
  <2>1. CASE v = k + 1
    <3>1. Released[v] = Record(Made(r, v, "simple"), v) BY <1>4, <2>1 DEF r, Migrated
    <3>2. Grown(Released[v], v) BY <1>1, ReleasedGrows DEF Latest
    <3>3. DOMAIN Made(r, v, "simple") = DOMAIN Empty
      <4>1. KeepsRows(r, Made(r, v, "simple"))
        <5>1. v > 4 => \E u \in r.versions : u >= 4 BY <1>2 DEF Grown, r
        <5>2. "simple" # Unset BY UnsetAssumption
        <5> QED BY <1>1, <1>2, <5>1, <5>2, MadeRows DEF Grown, r
      <4> QED BY <4>1 DEF KeepsRows, IsFile
    <3> QED BY <1>6, <1>10, <2>1, <3>1, <3>3, RecordSchema DEF Within
  <2>2. CASE v # k + 1 BY <1>6, <1>10, <2>2 DEF Within, r, Latest
  <2> QED BY <2>1, <2>2
<1>12. w < 14 => "excerpt" \notin e.cols BY <1>6, <1>10 DEF Opens, Latest
<1>13. w < 15 => e.links \ e.odd \subseteq e.rows BY <1>5 DEF Opens, Passes, Latest
<1>14. w >= 14 => e.fts = FinalFts BY <1>7, <1>10 DEF Opens, Latest
<1> QED BY <1>3, <1>5, <1>11, <1>12, <1>13, <1>14 DEF Opens, Tells, e

LEMMA NotStuck ==
  ASSUME NEW d, NEW k \in 4 .. Latest - 1, Opens(d, k) PROVE ~Fails(d, k + 1)
<1>1. k = 15 => "derived_from" \in d.cols
  <2> SUFFICES ASSUME k = 15 PROVE "derived_from" \in d.cols OBVIOUS
  <2>1. AtLeast(Released[k], k) BY ReleasedGrows DEF Grown, Latest
  <2> QED BY <2>1 DEF AtLeast, Opens, Tells, Within
<1> QED BY <1>1 DEF Opens, Fails, Latest

------------------------------------------------------------------------------
(* The files that open.                                                      *)

LEMMA VersionAfter ==
  ASSUME NEW d, d.versions \subseteq 1 .. Latest, NEW e, NEW v \in 1 .. Latest, e.versions = d.versions \cup {v}
  PROVE  Version(e) = IF v > Version(d) THEN v ELSE Version(d)
<1>1. e.versions \subseteq 1 .. Latest /\ e.versions # {} OBVIOUS
<1>2. Version(e) \in d.versions \cup {v} /\ \A u \in d.versions \cup {v} : u <= Version(e)
  <2>1. Version(e) \in e.versions /\ \A u \in e.versions : u <= Version(e) BY <1>1, VersionIs
  <2> QED BY <2>1
<1>3. Version(d) \in d.versions \/ (d.versions = {} /\ Version(d) = 0) BY VersionIs
<1>4. \A u \in d.versions : u <= Version(d) BY VersionIs
<1>5. Version(d) \in Int /\ v \in Int /\ v > 0 /\ \A u \in d.versions : u \in Int BY <1>3 DEF Latest
<1> HIDE DEF Version
<1>6. CASE Version(e) = v BY <1>2, <1>3, <1>5, <1>6
<1>7. CASE Version(e) \in d.versions
  <2>1. Version(e) <= Version(d) /\ Version(d) <= Version(e) BY <1>2, <1>3, <1>4, <1>7
  <2>2. v <= Version(e) /\ Version(e) \in Int BY <1>2, <1>5, <1>7
  <2> QED BY <1>5, <2>1, <2>2
<1> QED BY <1>2, <1>6, <1>7

LEMMA OpenIsFinal ==
  ASSUME NEW d, Opens(d, Latest) PROVE HasFinal(d)
<1>1. Grown(Released[Latest], Latest) BY ReleasedGrows DEF Latest
<1>2. /\ FinalTables \subseteq Released[Latest].tables /\ FinalCols \subseteq Released[Latest].cols
      /\ Unique \subseteq Released[Latest].unique
  BY <1>1, AtLeastAll DEF Grown
<1> QED BY <1>2 DEF Opens, Tells, Within, HasFinal, Unique, Latest

(* A process that starts alone runs all that is left.                        *)
LEMMA RunsThrough ==
  ASSUME NEW d, RowsFit(d), NEW k \in 4 .. Latest, Version(d) = k, k \in d.versions, Opens(d, k)
  PROVE  IsFinal(Through(d, k, Latest))
<1> DEFINE Good(i) == LET t == Through(d, k, i)
                      IN RowsFit(t) /\ i \in t.versions /\ Version(t) = i /\ Opens(t, i)
<1>1. k \in 1 .. Latest BY DEF Latest
<1>2. Good(k) BY <1>1, ThroughIs
<1>3. ASSUME NEW i \in k + 1 .. Latest, Good(i - 1) PROVE Good(i)
  <2> DEFINE t == Through(d, k, i - 1)
             e == Migrated(t, i, "simple")
  <2>1. RowsFit(t) /\ i - 1 \in t.versions /\ Version(t) = i - 1 /\ Opens(t, i - 1) BY <1>3
  <2>2. Through(d, k, i) = After(t, i) BY <1>1, ThroughIs
  <2> HIDE DEF t
  <2>3. i - 1 \in 4 .. Latest - 1 /\ i \in 2 .. Latest /\ i \in 5 .. Latest /\ i - 1 \in 4 .. Latest /\ i = (i - 1) + 1
    BY DEF Latest
  <2>4. ~Fails(t, (i - 1) + 1) BY <2>1, <2>3, NotStuck
  <2>5. t # Empty BY <2>1 DEF Empty
  <2>6. Through(d, k, i) = e BY <2>2, <2>3, <2>4, <2>5 DEF After
  <2>7. "simple" # Unset BY UnsetAssumption
  <2>8. RowsFit(e) /\ e.versions = t.versions \cup {i} BY <2>1, <2>3, <2>7, MigratedRows
  <2>9. Opens(e, IF i = (i - 1) + 1 THEN i ELSE i - 1)
    <3>1. i <= (i - 1) + 1 BY <2>3
    <3> QED BY <2>1, <2>3, <2>7, <3>1, OpensOn
  <2>10. Version(e) = i
    <3>1. i \in 1 .. Latest /\ t.versions \subseteq 1 .. Latest BY <2>1, <2>3 DEF RowsFit, IsFile, Latest
    <3> HIDE DEF e
    <3> QED BY <2>1, <2>3, <2>8, <3>1, VersionAfter
  <2> HIDE DEF e
  <2>11. Opens(e, i) BY <2>3, <2>9
  <2> QED BY <2>6, <2>8, <2>10, <2>11
<1> HIDE DEF Good
<1>4. \A i \in k .. Latest : Good(i)
  <2> DEFINE bad == {i \in k .. Latest : ~Good(i)}
  <2> SUFFICES ASSUME bad # {} PROVE FALSE OBVIOUS
  <2>1. PICK i \in bad : \A n \in bad : i <= n
    <3>1. bad \subseteq Nat BY <1>1 DEF Latest
    <3> QED BY <3>1, Least
  <2>2. i \in k + 1 .. Latest /\ i - 1 \in k .. Latest BY <1>2, <2>1, <1>1 DEF Latest
  <2>3. i - 1 \notin bad BY <2>1, <2>2, <1>1 DEF Latest
  <2> QED BY <1>3, <2>1, <2>2, <2>3
<1>5. Good(Latest) BY <1>1, <1>4 DEF Latest
<1> QED BY <1>5, OpenIsFinal DEF Good, IsFinal, Latest

(* createFreshSchema makes what the migrations make, and more than its        *)
(* version says.                                                             *)
LEMMA FreshOpens ==
  ASSUME NEW d, IsFile(d), ~d.twins, NEW tok
  PROVE  LET e == Fresh(d, tok)
         IN e.versions = {FreshVersion} /\ Opens(e, FreshVersion) /\ Opens(e, Latest)
<1> DEFINE e == Fresh(d, tok)
<1>1. /\ e.versions = {FreshVersion} /\ e.tables = FinalTables /\ e.cols = FinalCols
      /\ e.fts = FinalFts /\ e.unique = Unique /\ e.twins = d.twins
  BY DEF Fresh, IsFile, Empty, Unique
<1> HIDE DEF e
<1>2. ASSUME NEW k \in {FreshVersion, Latest} PROVE Opens(e, k)
  <2>1. AtMost(Released[k], k) BY <1>2, ReleasedGrows DEF Grown, Latest, FreshVersion
  <2>2. Within(Released[k], e) BY <1>1, <1>2, <2>1 DEF Within, AtMost, Legacy, Latest, FreshVersion
  <2> QED BY <1>1, <1>2, <2>2 DEF Opens, Tells, Latest, FreshVersion
<1> QED BY <1>1, <1>2 DEF e

LEMMA RetokenizedOpens ==
  ASSUME NEW d, IsFile(d), NEW k \in {FreshVersion, Latest}, Opens(d, k), NEW tok
  PROVE  Opens(Retokenized(d, tok), k)
<1> DEFINE e == Retokenized(d, tok)
<1>1. /\ e.tables = d.tables /\ e.cols = d.cols /\ e.unique = d.unique /\ e.twins = d.twins
      /\ e.fts \in {d.fts, FinalFts}
  BY DEF Retokenized, Indexed, IsFile, Empty
<1> HIDE DEF e
<1> QED BY <1>1 DEF Opens, Tells, Within, Latest, FreshVersion, e

LEMMA AddedOpens ==
  ASSUME NEW d, IsFile(d), NEW k \in {FreshVersion, Latest}, Opens(d, k), NEW m, NEW tok
  PROVE  Opens(Added(d, m, tok), k)
<1> DEFINE e == Added(d, m, tok)
<1>1. /\ e.tables = d.tables /\ e.cols = d.cols /\ e.unique = d.unique /\ e.twins = d.twins /\ e.fts = d.fts
  BY DEF Added, IsFile, Empty
<1> HIDE DEF e
<1> QED BY <1>1 DEF Opens, Tells, Within, Latest, FreshVersion, e

LEMMA OpenInitially == FilesOpen /\ SchemaInit => OpenInv
<1> SUFFICES ASSUME FilesOpen, SchemaInit PROVE OpenInv OBVIOUS
<1>1. IsFile(db) /\ (IsNew(db) \/ (Version(db) >= 4 /\ Opens(db, Version(db)))) BY DEF FilesOpen, SchemaInit
<1>2. Version(db) \in 0 .. Latest BY <1>1, VersionIs DEF IsFile
<1> QED BY <1>1, <1>2 DEF OpenInv, SchemaInit, Latest

LEMMA OpenStep == SchemaInv /\ OpenInv /\ [SchemaNext]_schemaVars => OpenInv'
<1> SUFFICES ASSUME SchemaInv, OpenInv, [SchemaNext]_schemaVars PROVE OpenInv' OBVIOUS
<1>1. CASE UNCHANGED <<db, at, stage>>
  <2>1. db' = db /\ at' = at /\ stage' = stage BY <1>1
  <2> QED BY <2>1 DEF OpenInv
<1>2. /\ RowsFit(db) /\ IsFile(db) /\ at \in [Opener -> Nat] /\ db.versions \subseteq 1 .. Latest
      /\ stage \in [Opener -> {"down", "step", "check", "up", "failed"}]
  BY DEF SchemaInv, RowsFit, IsFile
<1>3. db.versions # {} => Version(db) \in 4 .. Latest /\ Opens(db, Version(db)) /\ Version(db) \in db.versions
  BY <1>2, VersionIs DEF OpenInv, IsNew
<1>4. (\E p \in Opener : stage[p] \in {"check", "up"})
         => Version(db) \in {FreshVersion, Latest} /\ Opens(db, Version(db)) /\ Opens(db, Latest)
  <2> SUFFICES ASSUME NEW p \in Opener, stage[p] \in {"check", "up"}
               PROVE  Version(db) \in {FreshVersion, Latest} /\ Opens(db, Version(db)) /\ Opens(db, Latest)
    OBVIOUS
  <2>1. {FreshVersion, Latest} \cap db.versions # {} BY DEF SchemaInv, CountsVersions
  <2>2. FreshVersion <= Version(db)
    <3>1. PICK v \in db.versions : v >= FreshVersion BY <2>1 DEF FreshVersion, Latest
    <3>2. v <= Version(db) /\ Version(db) \in 0 .. Latest /\ v \in 1 .. Latest BY <1>2, VersionIs
    <3> QED BY <3>1, <3>2 DEF FreshVersion, Latest
  <2>3. Opens(db, Latest) BY DEF OpenInv
  <2> QED BY <1>3, <2>1, <2>2, <2>3 DEF FreshVersion, Latest
<1>5. ASSUME NEW p \in Opener, Start(p) PROVE OpenInv'
  <2>1. /\ UNCHANGED db /\ at' = [at EXCEPT ![p] = Version(db)]
        /\ Goes(p, IF Version(db) >= Latest THEN "check" ELSE "step")
    BY <1>5 DEF Start
  <2>2. Version(db) = 0 \/ Version(db) >= 4 BY <1>2, VersionIs DEF OpenInv, IsNew, Latest
  <2>3. Version(db) >= Latest => Opens(db, Latest) BY <1>2, VersionIs DEF OpenInv, IsNew, Latest
  <2>4. (\E q \in Opener : stage'[q] \in {"check", "up"}) => Opens(db, Latest)
    BY <1>2, <2>1, <2>3 DEF OpenInv, Goes
  <2> QED BY <1>2, <2>1, <2>2, <2>4 DEF OpenInv
<1>6. ASSUME NEW p \in Opener, CreateFresh(p), db.tables = {} PROVE OpenInv'
  <2>1. db' = Fresh(db, Tokenizer[p]) /\ UNCHANGED at BY <1>6 DEF CreateFresh
  <2>2. IsNew(db)
    <3> SUFFICES ASSUME Version(db) \in 4 .. Latest, Opens(db, Version(db)) PROVE FALSE BY DEF OpenInv
    <3>1. AtLeast(Released[Version(db)], Version(db)) BY ReleasedGrows DEF Grown, Latest
    <3> QED BY <1>6, <3>1 DEF AtLeast, Opens, Tells, Within
  <2>3. db'.versions = {FreshVersion} /\ Opens(db', FreshVersion) /\ Opens(db', Latest)
    BY <1>2, <2>1, <2>2, FreshOpens DEF IsNew
  <2>4. Version(db') = FreshVersion
    <3>1. db'.versions \subseteq 1 .. Latest /\ db'.versions # {} BY <2>3 DEF Latest, FreshVersion
    <3>2. Version(db') \in db'.versions BY <3>1, VersionIs
    <3> QED BY <2>3, <3>2
  <2> QED BY <2>1, <2>3, <2>4 DEF OpenInv, Latest, FreshVersion
<1>7. ASSUME NEW p \in Opener, Migrate(p), ~Fails(db, NextVersion(p)) PROVE OpenInv'
  <2> DEFINE v == at[p] + 1
             k == Version(db)
  <2>1. /\ db' = Migrated(db, v, Tokenizer[p]) /\ at' = [at EXCEPT ![p] = v]
        /\ Goes(p, IF v >= Latest THEN "check" ELSE "step")
    BY <1>7 DEF Migrate, NextVersion
  <2>2. at[p] >= 4 /\ at[p] \in db.versions /\ at[p] < Latest
    BY <1>2, <1>7 DEF Migrate, OpenInv, SchemaInv, CountsVersions
  <2>3. v \in 5 .. Latest /\ v \in 1 .. Latest /\ v \in 2 .. Latest /\ v - 1 \in db.versions BY <1>2, <2>2 DEF Latest
  <2>4. k \in 4 .. Latest /\ Opens(db, k) BY <1>3, <2>2
  <2>5. at[p] <= k BY <1>2, <2>2, VersionIs
  <2>6. Tokenizer[p] # Unset BY UnsetAssumption
  <2>7. v <= k + 1 BY <1>2, <2>4, <2>5 DEF Latest
  <2> HIDE DEF v, k
  <2>8. Opens(db', IF v = k + 1 THEN v ELSE k) BY <1>2, <2>1, <2>3, <2>4, <2>6, <2>7, OpensOn
  <2>9. db'.versions = db.versions \cup {v} BY <1>2, <2>1, <2>3, <2>6, MigratedRows
  <2>10. Version(db') = IF v > k THEN v ELSE k BY <1>2, <2>3, <2>9, VersionAfter DEF k
  <2>11. Version(db') = IF v = k + 1 THEN v ELSE k BY <2>3, <2>4, <2>7, <2>10 DEF Latest
  <2>12. Version(db') \in 4 .. Latest BY <2>3, <2>4, <2>11 DEF Latest
  <2>13. \A q \in Opener : at'[q] = 0 \/ at'[q] >= 4 BY <1>2, <2>1, <2>3 DEF OpenInv, Latest
  <2>14. ASSUME NEW q \in Opener, stage'[q] \in {"check", "up"} PROVE Opens(db', Latest)
    <3>1. CASE v = Latest BY <2>4, <2>7, <2>8, <3>1 DEF Latest
    <3>2. CASE v # Latest
      <4>1. ~(v >= Latest) BY <2>3, <3>2 DEF Latest
      <4>2. stage[q] \in {"check", "up"} BY <1>2, <2>1, <2>14, <4>1 DEF Goes
      <4>3. Opens(db, Latest) BY <1>4, <4>2
      <4>4. v <= Latest + 1 /\ v # Latest + 1 /\ Latest \in 4 .. Latest BY <2>3 DEF Latest
      <4>5. Opens(db', IF v = Latest + 1 THEN v ELSE Latest)
        BY <1>2, <2>1, <2>3, <2>6, <4>3, <4>4, OpensOn
      <4> QED BY <4>4, <4>5
    <3> QED BY <3>1, <3>2
  <2> QED BY <2>8, <2>11, <2>12, <2>13, <2>14 DEF OpenInv
<1>8. ASSUME NEW p \in Opener, CheckTokenizer(p) PROVE OpenInv'
  <2>1. db' = Retokenized(db, Tokenizer[p]) /\ UNCHANGED at BY <1>8 DEF CheckTokenizer
  <2>2. Version(db) \in {FreshVersion, Latest} /\ Opens(db, Version(db)) /\ Opens(db, Latest)
    BY <1>4, <1>8 DEF CheckTokenizer
  <2>3. Opens(db', Version(db)) /\ Opens(db', Latest) BY <1>2, <2>1, <2>2, RetokenizedOpens
  <2>4. db'.versions = db.versions BY <1>2, <2>1 DEF Retokenized, Indexed, IsFile, Empty
  <2>5. Version(db') = Version(db) BY <2>4 DEF Version
  <2> QED BY <2>1, <2>2, <2>3, <2>5 DEF OpenInv, Latest, FreshVersion
<1>9. ASSUME NEW p \in Opener, NEW m \in Ident, Add(p, m) PROVE OpenInv'
  <2>1. db' = Added(db, m, Tokenizer[p]) /\ UNCHANGED <<at, stage>> BY <1>9 DEF Add, Added
  <2>2. Version(db) \in {FreshVersion, Latest} /\ Opens(db, Version(db)) /\ Opens(db, Latest)
    BY <1>4, <1>9 DEF Add
  <2>3. Opens(db', Version(db)) /\ Opens(db', Latest) BY <1>2, <2>1, <2>2, AddedOpens
  <2>4. db'.versions = db.versions BY <1>2, <2>1 DEF Added, IsFile, Empty
  <2>5. Version(db') = Version(db) BY <2>4 DEF Version
  <2> QED BY <2>1, <2>2, <2>3, <2>5 DEF OpenInv, Latest, FreshVersion
<1>10. ASSUME NEW p \in Opener,
              \/ Busy(p) \/ Die(p)
              \/ (CreateFresh(p) /\ db.tables # {}) \/ (Migrate(p) /\ Fails(db, NextVersion(p)))
       PROVE  OpenInv'
  <2>1. UNCHANGED <<db, at>> /\ (Goes(p, "failed") \/ Goes(p, "down"))
    BY <1>10 DEF Busy, Die, CreateFresh, Migrate
  <2>2. (\E q \in Opener : stage'[q] \in {"check", "up"}) => Opens(db, Latest)
    BY <1>2, <2>1 DEF OpenInv, Goes
  <2> QED BY <2>1, <2>2 DEF OpenInv
<1>11. CASE UNCHANGED schemaVars BY <1>1, <1>11 DEF schemaVars
<1> QED BY <1>5, <1>6, <1>7, <1>8, <1>9, <1>10, <1>11 DEF SchemaNext

(* OpenInv holds: the file is new, or has the schema of its version and       *)
(* nothing in it that a migration still left stops at.                       *)
THEOREM OpenInvariance == FilesFit /\ FilesOpen => (SchemaSpec => []OpenInv)
<1> SUFFICES ASSUME FilesFit, FilesOpen PROVE SchemaSpec => []OpenInv OBVIOUS
<1>1. SchemaInit => OpenInv BY OpenInitially
<1>2. SchemaSpec => []SchemaInv BY SchemaInvariance
<1> QED BY <1>1, <1>2, OpenStep, PTL DEF SchemaSpec

(* schema_version tells the schema: runMigrationsFrom and createFreshSchema   *)
(* have made what the releases up to that version made, in any interleaving. *)
THEOREM VersionTells == FilesFit /\ FilesOpen => (SchemaSpec => []VersionTellsSchema)
<1> SUFFICES ASSUME FilesFit, FilesOpen PROVE SchemaSpec => []VersionTellsSchema OBVIOUS
<1>1. SchemaInv /\ OpenInv => VersionTellsSchema
  <2> SUFFICES ASSUME SchemaInv, OpenInv, Version(db) \in 1 .. Latest PROVE Within(Released[Version(db)], db)
    BY DEF VersionTellsSchema
  <2>1. db.versions \subseteq 1 .. Latest BY DEF SchemaInv, RowsFit, IsFile
  <2>2. ~IsNew(db) BY <2>1, VersionIs DEF IsNew
  <2> QED BY <2>2 DEF OpenInv, Opens, Tells
<1> QED BY <1>1, SchemaInvariance, OpenInvariance, PTL

(* A crash or a failed transaction never leaves a file that the next start   *)
(* could not bring to the final schema.                                      *)
THEOREM FilesAlwaysOpen == FilesFit /\ FilesOpen => (SchemaSpec => []AlwaysOpens)
<1> SUFFICES ASSUME FilesFit, FilesOpen PROVE SchemaSpec => []AlwaysOpens OBVIOUS
<1>1. SchemaInv /\ OpenInv => AlwaysOpens
  <2> SUFFICES ASSUME SchemaInv, OpenInv PROVE AlwaysOpens OBVIOUS
  <2>1. RowsFit(db) /\ db.versions \subseteq 1 .. Latest BY DEF SchemaInv, RowsFit, IsFile
  <2>2. CASE IsNew(db) BY <2>1, <2>2, VersionIs DEF IsNew, AlwaysOpens
  <2>3. CASE ~IsNew(db)
    <3>1. Version(db) \in 4 .. Latest /\ Opens(db, Version(db)) BY <2>3 DEF OpenInv
    <3>2. Version(db) \in db.versions BY <2>1, <3>1, VersionIs
    <3>3. CASE Version(db) >= Latest
      <4>1. Version(db) = Latest BY <3>1, <3>3 DEF Latest
      <4> QED BY <3>1, <3>3, <4>1, OpenIsFinal DEF AlwaysOpens, IsFinal, Latest
    <3>4. CASE ~(Version(db) >= Latest)
      <4>1. IsFinal(Through(db, Version(db), Latest)) BY <2>1, <3>1, <3>2, RunsThrough
      <4>2. Version(db) # 0 BY <3>1
      <4> QED BY <3>4, <4>1, <4>2 DEF AlwaysOpens
    <3> QED BY <3>3, <3>4
  <2> QED BY <2>2, <2>3
<1> QED BY <1>1, SchemaInvariance, OpenInvariance, PTL

(* Whoever is up has all that the migrations make, also when it came up on    *)
(* the schema of createFreshSchema, whose version is one short, and while     *)
(* others still run the migrations they counted.                             *)
THEOREM UpIsFinal == FilesFit /\ FilesOpen => (SchemaSpec => []UpMeansFinal)
<1> SUFFICES ASSUME FilesFit, FilesOpen PROVE SchemaSpec => []UpMeansFinal OBVIOUS
<1>1. OpenInv => UpMeansFinal BY OpenIsFinal DEF OpenInv, UpMeansFinal
<1> QED BY <1>1, OpenInvariance, PTL
==============================================================================
