----------------------------- MODULE MemoryStore -----------------------------
(***************************************************************************)
(* The life of memories (internal/memory Manager over internal/store):     *)
(* Create with its deduplication and best-effort side effects, Update,     *)
(* Delete, soft deletion, restoration, expiry and purging, with the four   *)
(* places a memory leaves traces in: its row, the full-text index, the     *)
(* vector store and the memory_count of its context.                       *)
(*                                                                         *)
(* A store method is one SQLite transaction, hence one action.  The Manager*)
(* calls several of them, holding nothing in between; requests of all HTTP *)
(* and MCP clients and background jobs of both processes run concurrently. *)
(* Content stands for normalised content, and for its own hash.            *)
(***************************************************************************)
EXTENDS Naturals, FiniteSets

CONSTANTS
    Memory, Content, Context,
    Proc,         \* concurrent requests and background jobs
    Ops,          \* the operations that occur
    Segmented,    \* does the tokenizer split the text further than FTS5 (CJK)?
    VectorDedup,  \* Dedup.VectorEnabled
    Faults,       \* may best-effort steps fail and processes die?
    MaxCount,     \* bound on memory_count beyond which no memory changes context
    None

AllOps == {"create", "rewrite", "update", "move", "delete", "softdelete", "restore", "purge"}

ASSUME OpsAssumption  == Ops \subseteq AllOps
ASSUME FlagAssumption == {Segmented, VectorDedup, Faults} \subseteq BOOLEAN
ASSUME CountAssumption == MaxCount \in Nat
ASSUME NoneAssumption == None \notin Memory \cup Content \cup Context

VARIABLES
    row,     \* table memories; hash is content_hash, never rewritten by Update
    fts,     \* memories_fts: <<m, c>> when words of content c lead to row m
    vec,     \* the vector store: the content embedded for m, or None
    count,   \* contexts.memory_count
    pc, job, \* each process: where it is, and its local variables
    misled,  \* history: how deduplication has misled a Create
    refused  \* history: operations the unique index on content_hash refused

rowVars == <<row, fts>>
vars    == <<row, fts, vec, count, pc, job, misled, refused>>

Status == {"absent", "live", "deleted", "purged"}
NoJob  == [op |-> "none", mem |-> None, content |-> None, ctx |-> None, old |-> None]
PC     == {"idle", "hash", "embed", "insert", "write", "trash", "uncount", "count",
           "vector", "excerpt", "unvector"}

TypeOK ==
    /\ row \in [Memory -> [status : Status, content : Content \cup {None},
                           hash : Content \cup {None}, ctx : Context \cup {None}]]
    /\ fts \subseteq Memory \X Content
    /\ vec \in [Memory -> Content \cup {None}]
    /\ count \in [Context -> Nat]
    /\ pc \in [Proc -> PC]
    /\ job \in [Proc -> [op : {"create", "rewrite", "update", "delete", "none"}, mem : Memory \cup {None}, content : Content \cup {None},
                         ctx : Context \cup {None}, old : Context \cup {None}]]
    /\ misled \subseteq {"content", "deleted"}
    /\ refused \subseteq {"create", "restore"}
    /\ \A m \in Memory : row[m].status \in {"live", "deleted"} => row[m].content # None

Init ==
    /\ row = [m \in Memory |-> [status |-> "absent", content |-> None,
                                hash |-> None, ctx |-> None]]
    /\ fts = {}
    /\ vec = [m \in Memory |-> None]
    /\ count = [x \in Context |-> 0]
    /\ pc = [p \in Proc |-> "idle"]
    /\ job = [p \in Proc |-> NoJob]
    /\ misled = {}
    /\ refused = {}

------------------------------------------------------------------------------
(* The store.                                                               *)

Absent    == {m \in Memory : row[m].status = "absent"}
Live      == {m \in Memory : row[m].status = "live"}
Deleted   == {m \in Memory : row[m].status = "deleted"}
TakenBy(c) == {m \in Live : row[m].hash = c}
Stored(m)  == row[m].status \in {"live", "deleted"}

Words(S) == {<<m, row[m].content>> : m \in S}

\* deleteFTS5ByRowIDTx takes out the words of the text as it stands in the row,
\* which are the words that syncFTS5Tx put in unless the tokenizer split them.
Unindexed(S) == IF Segmented THEN {} ELSE Words(S)

SetStatus(S, s) == [m \in Memory |-> IF m \in S THEN [row[m] EXCEPT !.status = s] ELSE row[m]]

StoreUpdate_KeepsWords(m, c, x) ==
    /\ row' = [row EXCEPT ![m] = [@ EXCEPT !.content = c, !.ctx = x]]
    /\ fts' = fts \cup {<<m, c>>}

StoreUpdate_Revives(m, c, x) ==
    /\ row' = [row EXCEPT ![m] = [@ EXCEPT !.status = "live", !.content = c, !.ctx = x]]
    /\ fts' = (fts \ Unindexed({m})) \cup {<<m, c>>}

\* SQLiteMemoryStore.Update: every column but deleted_at and content_hash, of a
\* live or a soft-deleted row.
StoreUpdate(m, c, x) ==
    /\ row' = [row EXCEPT ![m] = [@ EXCEPT !.content = c, !.ctx = x]]
    /\ fts' = (fts \ Unindexed({m})) \cup {<<m, c>>}

\* SoftDelete, SoftDeleteBySourceRef, SoftDeleteByDocumentID, CleanupExpired
StoreTrash(S) ==
    /\ S # {} /\ S \subseteq Live
    /\ row' = SetStatus(S, "deleted")
    /\ fts' = fts \ Unindexed(S)

Clashes_None(S) == {}

\* Rows of S that the partial unique index on content_hash refuses to revive.
Clashes(S) == {m \in S : \E n \in (S \cup Live) \ {m} : row[n].hash = row[m].hash}

StoreRestore_NoIndex(S, T) ==
    /\ S # {} /\ S \subseteq Deleted /\ T \subseteq Live
    /\ Clashes(S) = {}
    /\ row' = SetStatus(S, "live")
    /\ UNCHANGED <<fts, refused>>

\* Restore, and RestoreBySourceRef, which indexes again live rows T as well.
StoreRestore(S, T) ==
    /\ S # {} /\ S \subseteq Deleted /\ T \subseteq Live
    /\ IF Clashes(S) = {}
       THEN /\ row' = SetStatus(S, "live")
            /\ fts' = fts \cup Words(S \cup T)
            /\ UNCHANGED refused
       ELSE /\ refused' = refused \cup {"restore"}
            /\ UNCHANGED rowVars

------------------------------------------------------------------------------
(* Manager.Create.                                                          *)

Goto(p, l) == pc' = [pc EXCEPT ![p] = l]
Done(p) ==
    /\ Goto(p, "idle")
    /\ job' = [job EXCEPT ![p] = NoJob]
Leave(p, l) == IF l = "idle" THEN Done(p) ELSE Goto(p, l) /\ UNCHANGED job

Create(p) ==
    /\ "create" \in Ops
    /\ pc[p] = "idle"
    /\ Cardinality({q \in Proc : pc[q] \in {"hash", "embed", "insert"}}) < Cardinality(Absent)
    /\ \E c \in Content, x \in Context \cup {None} :
          job' = [job EXCEPT ![p] = [NoJob EXCEPT !.op = "create", !.content = c, !.ctx = x]]
    /\ Goto(p, "hash")
    /\ UNCHANGED <<rowVars, vec, count, misled, refused>>

\* The existing memory is returned instead of a new one; reinforcing it, which
\* does nothing to a deleted row, changes none of the state modelled here.
Answer(p, m) ==
    /\ misled' = misled
         \cup (IF row[m].content # job[p].content THEN {"content"} ELSE {})
         \cup (IF row[m].status # "live" THEN {"deleted"} ELSE {})
    /\ Done(p)

\* dedupCheck, first half: GetByContentHash.  An error counts as no duplicate.
HashDedup(p) ==
    /\ pc[p] = "hash"
    /\ \/ \E m \in TakenBy(job[p].content) : Answer(p, m)
       \/ /\ TakenBy(job[p].content) = {} \/ Faults
          /\ Goto(p, "embed")
          /\ UNCHANGED <<job, misled>>
    /\ UNCHANGED <<rowVars, vec, count, refused>>

\* dedupCheck, second half: the nearest vector, which carries its own copy of
\* the memory.  A failed search counts as no duplicate.
VectorDedupCheck(p) ==
    /\ pc[p] = "embed"
    /\ LET near == {m \in Memory : VectorDedup /\ vec[m] = job[p].content} IN
       \/ \E m \in near : Answer(p, m)
       \/ /\ near = {} \/ Faults
          /\ Goto(p, "insert")
          /\ UNCHANGED <<job, misled>>
    /\ UNCHANGED <<rowVars, vec, count, refused>>

\* SQLiteMemoryStore.Create: row and index in one transaction, under the
\* unique index on content_hash.
Insert(p) ==
    /\ pc[p] = "insert"
    /\ LET c == job[p].content IN
       IF TakenBy(c) = {}
       THEN \E m \in Absent :
               /\ row' = [row EXCEPT ![m] = [status |-> "live", content |-> c,
                                             hash |-> c, ctx |-> job[p].ctx]]
               /\ fts' = fts \cup {<<m, c>>}
               /\ job' = [job EXCEPT ![p].mem = m]
               /\ Goto(p, IF job[p].ctx = None THEN "vector" ELSE "count")
               /\ UNCHANGED refused
       ELSE /\ refused' = refused \cup {"create"}
            /\ Done(p)
            /\ UNCHANGED rowVars
    /\ UNCHANGED <<vec, count, misled>>

\* handleContextCount, and the increment at the end of syncContextCountOnUpdate.
Count(p) ==
    /\ pc[p] = "count"
    /\ \/ count' = [count EXCEPT ![job[p].ctx] = @ + 1]
       \/ Faults /\ UNCHANGED count
    /\ Leave(p, IF job[p].op = "rewrite" THEN "idle" ELSE "vector")
    /\ UNCHANGED <<rowVars, vec, misled, refused>>

\* handleVectorWrite and handleVectorUpdate; an error is logged, no more.
WriteVector(p) ==
    /\ pc[p] = "vector"
    /\ \/ vec' = [vec EXCEPT ![job[p].mem] = job[p].content]
       \/ Faults /\ UNCHANGED vec
    /\ Leave(p, IF job[p].op = "create" THEN "excerpt" ELSE "idle")
    /\ UNCHANGED <<rowVars, count, misled, refused>>

\* handleExcerptGeneration: when an excerpt is made, the memory created a while
\* ago is written again, whole.
WriteExcerpt(p) ==
    /\ pc[p] = "excerpt"
    /\ \/ /\ Stored(job[p].mem)
          /\ StoreUpdate(job[p].mem, job[p].content, job[p].ctx)
       \/ UNCHANGED rowVars
    /\ Done(p)
    /\ UNCHANGED <<vec, count, misled, refused>>

------------------------------------------------------------------------------
(* Manager.Update.  With no new content ("rewrite") it is also what the jobs *)
(* do that read a memory and write it back whole: checkCrystallization,      *)
(* asyncGenerateExcerpt, excerpt backfill, tier and class promotion.         *)

Read(p) ==
    /\ pc[p] = "idle"
    /\ \E m \in Live, o \in Ops \cap {"rewrite", "update"}, c \in Content,
          x \in Context \cup {None} :
          /\ o = "rewrite" => c = row[m].content
          /\ x # row[m].ctx => "move" \in Ops /\ \A y \in Context : count[y] < MaxCount
          /\ job' = [job EXCEPT ![p] = [op |-> o, mem |-> m, content |-> c, ctx |-> x,
                                        old |-> row[m].ctx]]
    /\ Goto(p, "write")
    /\ UNCHANGED <<rowVars, vec, count, misled, refused>>

\* What syncContextCountOnUpdate and handleVectorUpdate have to do.
AfterWrite(j) ==
    IF j.ctx # j.old /\ j.old # None THEN "uncount"
    ELSE IF j.ctx # j.old THEN "count"
    ELSE IF j.op = "rewrite" THEN "idle" ELSE "vector"

Write(p) ==
    /\ pc[p] = "write"
    /\ IF Stored(job[p].mem)
       THEN /\ StoreUpdate(job[p].mem, job[p].content, job[p].ctx)
            /\ Leave(p, AfterWrite(job[p]))
       ELSE Done(p) /\ UNCHANGED rowVars
    /\ UNCHANGED <<vec, count, misled, refused>>

\* DecrementMemoryCount, in syncContextCountOnUpdate and in Delete.
Uncount(p) ==
    /\ pc[p] = "uncount"
    /\ \/ count' = [count EXCEPT ![job[p].old] = IF @ = 0 THEN 0 ELSE @ - 1]
       \/ Faults /\ UNCHANGED count
    /\ Leave(p, IF job[p].op = "delete" THEN "unvector"
                ELSE IF job[p].ctx # None THEN "count"
                ELSE IF job[p].op = "rewrite" THEN "idle" ELSE "vector")
    /\ UNCHANGED <<rowVars, vec, misled, refused>>

------------------------------------------------------------------------------
(* Manager.Delete, and the operations that are one store transaction.       *)

Delete(p) ==
    /\ "delete" \in Ops
    /\ pc[p] = "idle"
    /\ \E m \in Live :
          job' = [job EXCEPT ![p] = [NoJob EXCEPT !.op = "delete", !.mem = m,
                                                  !.old = row[m].ctx]]
    /\ Goto(p, "trash")
    /\ UNCHANGED <<rowVars, vec, count, misled, refused>>

Trash_Again(p) ==
    /\ pc[p] = "trash"
    /\ Stored(job[p].mem)
    /\ row' = SetStatus({job[p].mem}, "deleted")
    /\ fts' = fts \ Unindexed({job[p].mem})
    /\ Leave(p, IF job[p].old # None THEN "uncount" ELSE "unvector")
    /\ UNCHANGED <<vec, count, misled, refused>>

\* A concurrent deletion leaves no row to delete: the request fails.
Trash(p) ==
    /\ pc[p] = "trash"
    /\ IF job[p].mem \in Live
       THEN /\ StoreTrash({job[p].mem})
            /\ Leave(p, IF job[p].old # None THEN "uncount" ELSE "unvector")
       ELSE Done(p) /\ UNCHANGED rowVars
    /\ UNCHANGED <<vec, count, misled, refused>>

DeleteVector(p) ==
    /\ pc[p] = "unvector"
    /\ \/ vec' = [vec EXCEPT ![job[p].mem] = None]
       \/ Faults /\ UNCHANGED vec
    /\ Done(p)
    /\ UNCHANGED <<rowVars, count, misled, refused>>

\* Manager.SoftDelete and the deletions by source, by document and by expiry.
SoftDelete ==
    /\ "softdelete" \in Ops
    /\ \E S \in SUBSET Live : StoreTrash(S)
    /\ UNCHANGED <<vec, count, pc, job, misled, refused>>

Restore ==
    /\ "restore" \in Ops
    /\ \E S \in SUBSET Deleted, T \in SUBSET Live : StoreRestore(S, T)
    /\ UNCHANGED <<vec, count, pc, job, misled>>

PurgeDeleted ==
    /\ "purge" \in Ops
    /\ \E S \in SUBSET Deleted \ {{}} :
          /\ row' = SetStatus(S, "purged")
          /\ fts' = fts \ Unindexed(S)
    /\ UNCHANGED <<vec, count, pc, job, misled, refused>>

\* The process dies, or the request is cancelled, between two calls.
Crash(p) ==
    /\ Faults
    /\ pc[p] # "idle"
    /\ Done(p)
    /\ UNCHANGED <<rowVars, vec, count, misled, refused>>

Next ==
    \/ \E p \in Proc :
          \/ Create(p) \/ HashDedup(p) \/ VectorDedupCheck(p) \/ Insert(p)
          \/ Count(p) \/ WriteVector(p) \/ WriteExcerpt(p)
          \/ Read(p) \/ Write(p) \/ Uncount(p)
          \/ Delete(p) \/ Trash(p) \/ DeleteVector(p) \/ Crash(p)
    \/ SoftDelete \/ Restore \/ PurgeDeleted

Spec == Init /\ [][Next]_vars

------------------------------------------------------------------------------
(* Properties.                                                              *)

\* No two live memories have the same content hash, whatever mixture of
\* creations and restorations runs (idx_memories_content_hash_unique).
UniqueHash == \A m, n \in Live : row[m].hash = row[n].hash => m = n

\* Every live memory can be found by the words it has now, through updates of
\* deleted rows, restorations and late whole-row writes; and, unless the
\* tokenizer splits words, by no others.
LiveIsSearchable == Words(Live) \subseteq fts
NoStaleWords     ==
    \A m \in Live, c \in Content : <<m, c>> \in fts => c = row[m].content

\* What a running request holds: the memory it is about, and its content unless
\* it deletes.
JobsHold ==
    \A p \in Proc :
       /\ pc[p] \notin {"idle", "hash", "embed", "insert"} => job[p].mem \in Memory
       /\ job[p].op \notin {"none", "delete"} => job[p].content \in Content
       /\ pc[p] \in {"hash", "embed", "insert", "excerpt"} => job[p].op = "create"
       /\ pc[p] = "write" => job[p].op \in {"rewrite", "update"}

\* Unless the tokenizer splits words, the index holds no words but the present
\* ones of the rows there are, deleted ones included.
IndexHoldsRows == ~Segmented => fts \subseteq Words({m \in Memory : Stored(m)})

\* The inductive invariant: with it every property above, and
\* DeletedStaysDeleted, is preserved by each step (MemoryStoreProofs).
IInv == TypeOK /\ JobsHold /\ UniqueHash /\ LiveIsSearchable /\ IndexHoldsRows

\* A deleted memory comes back only by being restored and a purged one never
\* does, although requests that read it while it was live still write it whole.
DeletedStaysDeleted ==
    [][/\ \A m \in Memory : row[m].status = "deleted" /\ row'[m].status = "live" => Restore
       /\ \A m \in Memory : row[m].status = "purged" => row'[m].status = "purged"]_vars

\* memory_count, together with the increments and decrements that running
\* requests still have to make, never falls below the number of live memories:
\* in particular two deletions of one memory do not both count.
NeverUndercounts ==
    \A x \in Context :
       count[x] + Cardinality({p \in Proc : pc[p] = "count" /\ job[p].ctx = x})
         >= Cardinality({m \in Live : row[m].ctx = x})
            + Cardinality({p \in Proc : pc[p] = "uncount" /\ job[p].old = x})

\* Why, without faults, moves and restores: a request under way holds the context
\* that the row of its memory has, the one it will count or discount.
HeldAsStored ==
    \A p \in Proc : pc[p] \notin {"idle", "hash", "embed", "insert"} =>
       /\ row[job[p].mem].status # "absent"
       /\ job[p].op # "delete" => row[job[p].mem].ctx = job[p].ctx
       /\ pc[p] = "write" => job[p].ctx = job[p].old
       /\ pc[p] = "trash" => row[job[p].mem].ctx = job[p].old

CountInv == IInv /\ HeldAsStored /\ NeverUndercounts

\* memory_count is maintained: with nothing running, it is the number of live
\* memories of the context.  A soft deletion breaks it (see README.md, "Findings").
CountMaintained ==
    (\A p \in Proc : pc[p] = "idle") =>
       \A x \in Context : count[x] = Cardinality({m \in Live : row[m].ctx = x})

\* What the documentation says of the store (see README.md, "Findings"); runs
\* show where the code does otherwise.

\* Writing content is answered with an existing memory only if it has the same.
DedupFindsSameContent == "content" \notin misled

\* Writing content that exists reinforces it: the write is not refused.
DuplicateNotRefused == "create" \notin refused

\* Restoring a memory whose hash is taken merges it: it is not refused.
RestoreNotRefused == "restore" \notin refused

\* The memory that deduplication answers with exists.
DedupFindsLiveMemory == "deleted" \notin misled
==============================================================================
