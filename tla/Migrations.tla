------------------------------ MODULE Migrations ------------------------------
(***************************************************************************)
(* The schema of the SQLite database (store/sqlite_migration*.go,          *)
(* sqlite_schema.go): processes that start on one file, each reading its   *)
(* version once and then running the migrations from there, one            *)
(* transaction each, and the change of tokenizer that follows.  Processes  *)
(* crash, fail and start again; one that is up adds memories.              *)
(*                                                                         *)
(* Of the schema there are the tables, the columns that a migration looks  *)
(* for, renames or drops, one name for the others it adds, the columns of  *)
(* the text index, and the unique indexes.  Of the rows there are those    *)
(* that a migration moves or may lose.                                     *)
(***************************************************************************)
EXTENDS Integers, FiniteSets, FiniteSetsExt

CONSTANTS
    Opener,      \* processes
    Ident,       \* memories
    Session,
    Databases,   \* what the file may hold at the start
    Tokenizer,   \* the tokenizer of each process
    MaxMishaps,  \* bound on crashes and busy transactions
    Unset

Latest == 28

\* The version that createFreshSchema records.
FreshVersion == 27

ASSUME IdentAssumption == Ident \subseteq Nat /\ IsFiniteSet(Ident)
ASSUME UnsetAssumption == Unset \notin {"raw", "simple"} /\ \A p \in Opener : Tokenizer[p] # Unset

VARIABLES
    db,          \* the file
    first,       \* history: what it held at the start
    stage,       \* each process: down, step, check, up, failed
    at,          \* the version a process has come to, in its own count
    mishaps

schemaVars == <<db, first, stage, at, mishaps>>

\* The file of a new installation.
Empty == [versions |-> {}, tables |-> {}, cols |-> {}, fts |-> {}, unique |-> {}, tok |-> Unset,
          rows |-> {}, deleted |-> {}, text |-> [m \in Ident |-> m], hashed |-> {}, index |-> [m \in Ident |-> Unset],
          links |-> {}, odd |-> {}, json |-> {}, derived |-> {}, sessions |-> {}, marks |-> {}, twins |-> FALSE]

Living(d)  == d.rows \ d.deleted
Version(d) == IF d.versions = {} THEN 0 ELSE Max(d.versions)

------------------------------------------------------------------------------
(* The migrations: the database that each leaves.                           *)

Record(d, v)      == [d EXCEPT !.versions = @ \cup {v}]
WithTables(d, T)  == [d EXCEPT !.tables = @ \cup T]
WithCols(d, C)    == [d EXCEPT !.cols = @ \cup C]
Indexed(d, ms, t) == [d EXCEPT !.index = [m \in Ident |-> IF m \in ms THEN t ELSE Unset]]

V1(d) == [WithTables(d, {"schema_version", "memories"}) EXCEPT
             !.cols = @ \cup {"embedding_id"}, !.fts = {"content"}, !.index = [m \in Ident |-> IF m \in d.rows THEN "raw" ELSE Unset]]

\* A column that was renamed since is added again.
V2(d) == LET tables == {"contexts", "tags", "memory_tags", "entities", "entity_relations", "memory_entities", "documents"}
             new    == IF "contexts" \in d.tables THEN {} ELSE {"contexts.kind"}
         IN [Indexed(WithCols(WithTables(d, tables), {"layers", "abstract"} \cup new), d.rows, "raw") EXCEPT
                !.fts = {"content", "abstract", "summary"}]

V3(d) == WithCols(d, {"tier"})

\* Of the memories with one text, the first keeps the hash.
V4(d, tok) ==
    LET lacking == {m \in Living(d) \ d.hashed : \A n \in Living(d) \cap d.hashed : d.text[n] # d.text[m]}
        firsts  == {m \in lacking : \A n \in lacking : d.text[n] = d.text[m] => m <= n}
    IN [Indexed(WithCols(WithTables(d, {"meta"}), {"hash"}), Living(d), tok) EXCEPT
           !.unique = @ \cup {"memories"}, !.tok = tok, !.fts = {"content", "abstract", "summary"},
           !.hashed = @ \cup firsts]

V5(d)  == WithCols(d, {"consolidated"})
V6(d)  == WithCols(d, {"owner"})
V7(d)  == d
V8(d)  == WithTables(d, {"async_tasks"})
V9(d)  == d

\* With two documents of one hash the index is not made, and nobody is told.
V10(d) == [WithCols(d, {"documents.stage"}) EXCEPT !.unique = IF d.twins THEN @ ELSE @ \cup {"documents"}]

V11(d) == d
V12(d) == WithCols(d, {"class", "derived_from"})
V13(d) == WithCols(d, {"contexts.mission"})

V14_NoRebuild(d) ==
    LET new == {c \in {"excerpt"} : "abstract" \in d.cols} \cup {c \in {"contexts.context_type"} : "contexts.kind" \in d.cols}
    IN [d EXCEPT !.cols = (@ \ {"abstract", "contexts.kind", "embedding_id"}) \cup new,
                 !.fts = {"content", "excerpt", "summary"}, !.index = [m \in Ident |-> Unset]]

\* The index is rebuilt from the rows as they are, without the tokenizer.
V14(d) ==
    LET new == {c \in {"excerpt"} : "abstract" \in d.cols} \cup {c \in {"contexts.context_type"} : "contexts.kind" \in d.cols}
    IN [Indexed(d, d.rows, "raw") EXCEPT
           !.cols = (@ \ {"abstract", "contexts.kind", "embedding_id"}) \cup new,
           !.fts = {"content", "excerpt", "summary"}]

\* Copied with INSERT OR IGNORE: an odd row, of a role, a weight or with ends that the
\* new CHECKs forbid, goes with the old table.
V15(d) == [WithCols(d, {"memory_tags.fk", "memory_entities.fk", "entity_relations.fk"}) EXCEPT
              !.links = IF "memory_tags.fk" \in d.cols THEN @ ELSE @ \ d.odd]

\* Sources that are gone are left out.
V16(d) == [WithTables(d, {"memory_derivations"}) EXCEPT
              !.derived = @ \cup {p \in d.json : {p[1], p[2]} \subseteq d.rows}, !.json = {},
              !.cols = @ \ {"derived_from"}]

V17(d) == d
V18(d) == WithTables(d, {"sessions"})
V19(d) == WithTables(d, {"session_finalize_state"})
V20(d) == WithTables(d, {"transcript_cursors"})
V21(d) == [WithTables(d, {"idempotency_keys"}) EXCEPT !.unique = @ \cup {"idempotency_keys"}]

V22_DropsFirst(d) == [WithCols(d, {"session_finalize_state.fk", "transcript_cursors.fk"}) EXCEPT !.marks = {}]

\* Copied in one statement: a row without its session stops it, and the old table
\* is dropped all the same.
V22(d) == [WithCols(d, {"session_finalize_state.fk", "transcript_cursors.fk"}) EXCEPT
              !.marks = IF @ \subseteq d.sessions THEN @ ELSE {}]

V23(d) == WithCols(d, {"candidate_for"})
V24(d) == WithTables(d, {"scope_policies"})
V25(d) == d
V26(d) == WithCols(d, {"entity_relations.mention_count", "entities.deleted_at"})
V27(d) == WithCols(WithTables(d, {"entity_candidates"}), {"memory_entities.confidence"})
V28(d) == WithCols(d, {"entity_candidates.entity_type"})

\* A statement of the migration fails, and the transaction is rolled back: a column
\* it reads is not there, one it renames to is, a row that is inserted has no parent.
Fails(d, v) ==
    \/ v = 4  /\ "abstract" \notin d.cols
    \/ v = 14 /\ {"abstract", "excerpt"} \subseteq d.cols
    \/ v = 15 /\ "memory_tags.fk" \notin d.cols /\ ~(d.links \ d.odd \subseteq d.rows)
    \/ v = 16 /\ "derived_from" \notin d.cols

Made(d, v, tok) ==
    CASE v = 2  -> V2(d)  [] v = 3  -> V3(d)  [] v = 4  -> V4(d, tok) [] v = 5  -> V5(d)  [] v = 6  -> V6(d)
      [] v = 7  -> V7(d)  [] v = 8  -> V8(d)  [] v = 9  -> V9(d)  [] v = 10 -> V10(d) [] v = 11 -> V11(d)
      [] v = 12 -> V12(d) [] v = 13 -> V13(d) [] v = 14 -> V14(d) [] v = 15 -> V15(d) [] v = 16 -> V16(d)
      [] v = 17 -> V17(d) [] v = 18 -> V18(d) [] v = 19 -> V19(d) [] v = 20 -> V20(d) [] v = 21 -> V21(d)
      [] v = 22 -> V22(d) [] v = 23 -> V23(d) [] v = 24 -> V24(d) [] v = 25 -> V25(d) [] v = 26 -> V26(d)
      [] v = 27 -> V27(d) [] v = 28 -> V28(d)

Migrated(d, v, tok) == Record(Made(d, v, tok), v)

FinalTables == {"schema_version", "memories", "contexts", "tags", "memory_tags", "entities", "entity_relations",
                "memory_entities", "documents", "meta", "async_tasks", "memory_derivations", "sessions",
                "session_finalize_state", "transcript_cursors", "idempotency_keys", "scope_policies",
                "entity_candidates"}
FinalCols   == {"layers", "excerpt", "tier", "hash", "consolidated", "owner", "class", "candidate_for",
                "contexts.context_type", "contexts.mission", "documents.stage", "memory_tags.fk", "memory_entities.fk",
                "entity_relations.fk", "session_finalize_state.fk", "transcript_cursors.fk",
                "entity_relations.mention_count", "entities.deleted_at", "memory_entities.confidence",
                "entity_candidates.entity_type"}
FinalFts    == {"content", "excerpt", "summary"}

Fresh_NoVersion(d, tok) ==
    [d EXCEPT !.tables = FinalTables, !.cols = FinalCols, !.fts = FinalFts,
              !.unique = {"memories", "documents", "idempotency_keys"}, !.tok = tok]

\* createFreshSchema: all that the migrations make, at the version before the latest.
Fresh(d, tok) ==
    [d EXCEPT !.versions = {FreshVersion}, !.tables = FinalTables, !.cols = FinalCols, !.fts = FinalFts,
              !.unique = {"memories", "documents", "idempotency_keys"}, !.tok = tok]

\* checkTokenizerChange.
Retokenized(d, tok) ==
    IF d.tok \in {Unset, tok} THEN d
    ELSE [Indexed(d, Living(d), tok) EXCEPT !.fts = FinalFts, !.tok = tok]

\* The migration to v after those before it; Empty where one of them fails.
After(d, v) == IF d = Empty \/ Fails(d, v) THEN Empty ELSE Migrated(d, v, "simple")

\* The migrations v+1 to w, one after the other.
Through(d, v, w) ==
    LET made[i \in v .. Latest] == IF i = v THEN d ELSE After(made[i - 1], i)
    IN made[w]

\* The schema that a release at version v made, with no rows in it.
Released == [v \in 1 .. Latest |-> Through(Record(V1(Empty), 1), 1, v)]

------------------------------------------------------------------------------
(* Processes.                                                               *)

SchemaInit ==
    /\ db \in Databases /\ first = db
    /\ stage = [p \in Opener |-> "down"] /\ at = [p \in Opener |-> 0]
    /\ mishaps = 0

Goes(p, to)  == stage' = [stage EXCEPT ![p] = to]
Rivals(p)    == \E q \in Opener \ {p} : stage[q] \in {"step", "check", "up"}
IsRunning(p) == stage[p] \notin {"down", "failed"}

NextVersion_Skips(p) == at[p] + 2

NextVersion(p) == at[p] + 1

\* getCurrentVersion, in no transaction.
Start(p) ==
    /\ ~IsRunning(p)
    /\ at' = [at EXCEPT ![p] = Version(db)]
    /\ Goes(p, IF Version(db) >= Latest THEN "check" ELSE "step")
    /\ UNCHANGED <<db, first, mishaps>>

CreateFresh(p) ==
    /\ stage[p] = "step" /\ at[p] = 0
    /\ IF db.tables = {}
       THEN db' = Fresh(db, Tokenizer[p]) /\ Goes(p, "check")
       ELSE Goes(p, "failed") /\ UNCHANGED db
    /\ UNCHANGED <<first, at, mishaps>>

Migrate(p) ==
    LET v == NextVersion(p) IN
    /\ stage[p] = "step" /\ at[p] > 0
    /\ IF Fails(db, v)
       THEN Goes(p, "failed") /\ UNCHANGED <<db, at>>
       ELSE /\ db' = Migrated(db, v, Tokenizer[p])
            /\ at' = [at EXCEPT ![p] = v]
            /\ Goes(p, IF v >= Latest THEN "check" ELSE "step")
    /\ UNCHANGED <<first, mishaps>>

\* The write lock, or a snapshot that another process has left behind.
Busy(p) ==
    /\ stage[p] \in {"step", "check"} /\ Rivals(p) /\ mishaps < MaxMishaps
    /\ Goes(p, "failed") /\ mishaps' = mishaps + 1
    /\ UNCHANGED <<db, first, at>>

CheckTokenizer(p) ==
    /\ stage[p] = "check"
    /\ db' = Retokenized(db, Tokenizer[p]) /\ Goes(p, "up")
    /\ UNCHANGED <<first, at, mishaps>>

Die(p) ==
    /\ IsRunning(p) /\ mishaps < MaxMishaps
    /\ Goes(p, "down") /\ mishaps' = mishaps + 1
    /\ UNCHANGED <<db, first, at>>

\* A row and its words, in one transaction; not without the columns of the index.
Add(p, m) ==
    /\ stage[p] = "up" /\ m \notin db.rows
    /\ FinalFts = db.fts /\ FinalCols \subseteq db.cols
    /\ \A n \in Living(db) \cap db.hashed : db.text[n] # db.text[m]
    /\ db' = [db EXCEPT !.rows = @ \cup {m}, !.hashed = @ \cup {m}, !.index[m] = Tokenizer[p]]
    /\ UNCHANGED <<first, stage, at, mishaps>>

SchemaNext ==
    \E p \in Opener :
       \/ Start(p) \/ CreateFresh(p) \/ Migrate(p) \/ Busy(p) \/ CheckTokenizer(p) \/ Die(p)
       \/ \E m \in Ident : Add(p, m)

SchemaSpec == SchemaInit /\ [][SchemaNext]_schemaVars

------------------------------------------------------------------------------
(* Properties.                                                              *)

HasFinal(d) ==
    /\ FinalTables \subseteq d.tables /\ FinalCols \subseteq d.cols
    /\ d.fts = FinalFts /\ {"memories", "documents", "idempotency_keys"} \subseteq d.unique

IsFinal(d) == Version(d) >= Latest /\ HasFinal(d)

Within(c, d) == c.tables \subseteq d.tables /\ c.cols \subseteq d.cols /\ c.unique \subseteq d.unique

\* Whoever is up has all that the migrations make, whatever version the file came from
\* and also when createFreshSchema made it, one version short of the latest; and also
\* while another process still runs the migrations it counted when it started.
UpMeansFinal == (\E p \in Opener : stage[p] = "up") => HasFinal(db)

\* Whatever was left of the migrations by crashes and failed transactions, or by
\* createFreshSchema, a process that starts alone now gets to the final schema.
AlwaysOpens ==
    IF Version(db) = 0 THEN db.tables = {}
    ELSE IsFinal(IF Version(db) >= Latest THEN db ELSE Through(db, Version(db), Latest))

\* The highest version recorded tells what is there: what the migrations up to it
\* make, whichever process recorded it, and also when createFreshSchema did.
VersionTellsSchema == Version(db) \in 1 .. Latest => Within(Released[Version(db)], db)

\* Links whose rows are there and that the CHECKs allow, markers if none is without its
\* session, and derivations get through every migration, whoever runs it again.  (See
\* LinksSurvive and MarkersSurvive for the others.)
RowsSurvive ==
    /\ first.rows \subseteq db.rows
    /\ (first.links \cap first.rows) \ first.odd \subseteq db.links
    /\ first.marks \subseteq first.sessions => first.marks \subseteq db.marks
    /\ {p \in first.json : {p[1], p[2]} \subseteq first.rows} \subseteq db.json \cup db.derived

\* Once it is open, every live memory has its words in the index, and one memory of
\* each live text has the hash that a second one is refused by.
LiveIsIndexed ==
    (\E p \in Opener : stage[p] = "up") =>
       \A m \in Living(db) :
          /\ db.index[m] # Unset
          /\ Cardinality({n \in Living(db) \cap db.hashed : db.text[n] = db.text[m]}) = 1

------------------------------------------------------------------------------
(* What a file that is opened must be for the theorems, and the invariant   *)
(* they follow from.                                                        *)

IsFile(d) ==
    /\ DOMAIN d = DOMAIN Empty /\ DOMAIN d.index = Ident
    /\ d.versions \subseteq 1 .. Latest
    /\ d.rows \subseteq Ident /\ d.deleted \subseteq d.rows

\* One live memory of each text, at most, has the hash, and from V4 on one has.
HashesFit(d) ==
    /\ \A m, n \in Living(d) \cap d.hashed : d.text[m] = d.text[n] => m = n
    /\ (\E v \in d.versions : v >= 4) => \A m \in Living(d) : \E n \in Living(d) \cap d.hashed : d.text[n] = d.text[m]

IsIndexed(d) == \A m \in Living(d) : d.index[m] # Unset

RowsFit(d) ==
    /\ IsFile(d) /\ HashesFit(d) /\ IsIndexed(d)
    /\ d.tables = {} => d.versions = {} /\ d.rows = {}

FilesFit == \A d \in Databases : RowsFit(d)

\* It has what a release at that version made, and no two documents of one hash.
Tells(d, k) == Within(Released[k], d) /\ ~d.twins

\* And nothing in it stops a migration that is left.
Opens(d, k) ==
    /\ Tells(d, k)
    /\ k < 14 => "excerpt" \notin d.cols
    /\ k < 15 => d.links \ d.odd \subseteq d.rows
    /\ k >= 14 => d.fts = FinalFts

IsNew(d) == d.versions = {} /\ d.tables = {} /\ d.rows = {} /\ ~d.twins

\* New ones, and those of releases from version 4 on.
FilesOpen == \A d \in Databases : IsFile(d) /\ (IsNew(d) \/ (Version(d) >= 4 /\ Opens(d, Version(d))))

\* Fit links and markers of d are in e, and e has no others.
Passes(d, e) ==
    /\ e.odd = d.odd /\ e.links \subseteq d.links /\ d.links \ d.odd \subseteq e.links
    /\ e.sessions = d.sessions /\ e.marks \subseteq d.marks
    /\ d.marks \subseteq d.sessions => e.marks = d.marks

\* What no migration takes away.
Lasting ==
    /\ first.rows \subseteq db.rows /\ Passes(first, db)
    /\ db.json \subseteq first.json
    /\ first.json \cup first.derived \subseteq db.json \cup db.derived
                                        \cup {p \in first.json : ~({p[1], p[2]} \subseteq first.rows)}

\* A process is at a version that was recorded, and done only when the latest is, or
\* the one of a fresh schema.
CountsVersions ==
    \A p \in Opener :
       /\ at[p] \in 0 .. Latest
       /\ stage[p] = "step" => at[p] < Latest /\ (at[p] > 0 => at[p] \in db.versions)
       /\ stage[p] \in {"check", "up"} => {FreshVersion, Latest} \cap db.versions # {}

\* Rows, hashes and words fit, nothing is lost, and processes count what is recorded.
SchemaInv ==
    /\ stage \in [Opener -> {"down", "step", "check", "up", "failed"}]
    /\ at \in [Opener -> Nat]
    /\ RowsFit(db) /\ Lasting /\ CountsVersions

\* The file is new, or it has the schema of its version and opens from there, and it
\* has the latest one if a process is done; and no process is at a version before the
\* fourth.
OpenInv ==
    /\ IsNew(db) \/ (Version(db) \in 4 .. Latest /\ Opens(db, Version(db)))
    /\ (\E p \in Opener : stage[p] \in {"check", "up"}) => Opens(db, Latest)
    /\ \A p \in Opener : at[p] = 0 \/ at[p] >= 4

------------------------------------------------------------------------------
(* What is said of the code (see README.md, "Findings").                    *)

\* Said of Migrate (sqlite_migration.go:37): the tokenizer cuts the words of the index
\* from V4 on; meta tells which one it is.
IndexIsTokenized ==
    (\E p \in Opener : stage[p] = "up") => \A m \in Living(db) : db.index[m] \in {Unset, db.tok}

\* Said of migrateV1ToV2 (sqlite_migration_v0_v4.go:78): a database of an old release,
\* without schema_version, can be upgraded.
OldReleaseOpens == db.tables # {} => Version(db) > 0

\* Logged by Migrate (sqlite_migration.go:58): the fresh schema was created at
\* latestVersion.
FreshIsLatest == (\E p \in Opener : stage[p] = "up") => Version(db) = Latest

\* Written for by CreateRelation and UpsertRelation (sqlite_graph.go:210, 585), and read by
\* every query of relations: the column of the memory that a relation comes from.
RelationsFit == (\E p \in Opener : stage[p] = "up") => "entity_relations.source_memory_id" \in db.cols

\* Said of migrateV14ToV15 (sqlite_migration_v12_v16.go:133): it adds foreign keys and
\* CHECKs to the tables of links.
LinksSurvive == first.links \cap first.rows \subseteq db.links

\* Said of migrateV21ToV22 (sqlite_migration_v21_v25.go:12): the tables of sessions are
\* built anew with foreign keys.
MarkersSurvive == first.marks \cap first.sessions \subseteq db.marks

\* A process that starts while another one does gets up.
NobodyFails == \A p \in Opener : stage[p] # "failed"
==============================================================================
