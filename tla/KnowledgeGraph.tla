---------------------------- MODULE KnowledgeGraph ----------------------------
(***************************************************************************)
(* The knowledge graph: how names found in memories become candidates,    *)
(* entities, links and relations (memory/extractor.go, entity_resolver.go, *)
(* store/sqlite_graph.go, sqlite_candidate.go), and how the heartbeat      *)
(* promotes and cleans (heartbeat/), beside clients (api/graph_handler.go).*)
(*                                                                         *)
(* An SQL statement or a transaction is one step.  Between two of them a   *)
(* job holds names, ids and copies that others may have made stale; before *)
(* most of them it has waited for a language model.  Metadata, types,      *)
(* weights and confidence are left out; a relation is its two ends.  Its   *)
(* column source_memory_id, which no migration makes (RelationsFit in      *)
(* Migrations), is taken to be there.                                      *)
(***************************************************************************)
EXTENDS Naturals, FiniteSets, Sequences, SequencesExt, FiniteSetsExt, Functions

CONSTANTS
    Memory, Entity, Name, Scope,
    Fold,        \* a name without its case
    Text,        \* the names that a memory mentions
    Home,        \* the scope of a memory
    Proc,        \* concurrent requests, tasks and jobs
    Duties,      \* which of the jobs each may be: a choice, made at the start
    MinHits,     \* Heartbeat.CandidatePromoteMinHits
    MinMentions, \* relations with fewer mentions get stale: 3 in the code
    Queued,      \* is there a task queue for relations?
    Faults,      \* may processes die?
    MaxTasks,    \* bound on the tasks that are queued at a time
    MaxAsserted, \* bound on the links and relations that clients make
    None

AllJobs == {"extract", "backfill", "relations", "resolve", "promote", "clean",
            "sweep", "edit", "create", "delete", "links", "memories", "age"}

Parameters ==
    /\ IsFiniteSet(Memory)
    /\ Fold \in [Name -> Name]
    /\ Text \in [Memory -> SUBSET Name]
    /\ Home \in [Memory -> Scope]
    /\ Duties \subseteq [Proc -> SUBSET AllJobs]
    /\ MinHits \in Nat \ {0} /\ MinMentions \in Nat \ {0}
    /\ {MaxTasks, MaxAsserted} \subseteq Nat
    /\ {Queued, Faults} \subseteq BOOLEAN
    /\ None \notin Memory \cup Entity \cup Name \cup Scope

VARIABLES
    mem,      \* table memories: deleted_at
    ent,      \* table entities
    cand,     \* table entity_candidates
    link,     \* table memory_entities
    rel,      \* table entity_relations
    tasks,    \* queued relation_extract tasks
    duty,     \* the jobs of each process
    pc, job,  \* each process: where it is, and its local variables
    called,   \* history: the names an entity has had or was matched with
    asserted, \* history: links and relations that clients made themselves
    foreign   \* history: links that a backfill made

tables == <<mem, ent, cand, link, rel, tasks>>
vars   == <<tables, duty, pc, job, called, asserted, foreign>>

NoRow == [status |-> "free", name |-> None, scope |-> None, old |-> FALSE]
EntityRow == [status : {"free", "live", "soft", "gone"}, name : Name \cup {None},
              scope : Scope \cup {None}, old : BOOLEAN]

\* hits and mentions are only compared with thresholds: they stop there.
NoCandidate == [hits |-> 0, mems |-> {}]
Candidate   == [hits : 0..MinHits, mems : SUBSET (Memory \cup {None})]
Relation    == [count : 1..MinMentions, old : BOOLEAN]

\* mem, scope: what a request is about, None for every scope; todo: what is
\* left to do; rest: the further answers of a batch; at: the item at hand;
\* ids: entityIDMap.
NoJob == [mem |-> None, scope |-> None, todo |-> {}, rest |-> {}, at |-> <<>>, ids |-> {}]

Init ==
    /\ mem = [m \in Memory |-> "live"]
    /\ ent = [e \in Entity |-> NoRow]
    /\ cand = [c \in Name \X (Scope \cup {None}) |-> NoCandidate]
    /\ link = {}
    /\ rel = [r \in {} |-> None]
    /\ tasks = {}
    /\ duty \in Duties
    /\ pc = [p \in Proc |-> "idle"]
    /\ job = [p \in Proc |-> NoJob]
    /\ called = [e \in Entity |-> {}]
    /\ asserted = {}
    /\ foreign = {}

------------------------------------------------------------------------------
(* The store.                                                               *)

Live      == {e \in Entity : ent[e].status = "live"}
Stored    == {e \in Entity : ent[e].status \in {"live", "soft"}}
Free      == {e \in Entity : ent[e].status = "free"}
IsTaken(n, s) == \E e \in Stored : ent[e].name = n /\ ent[e].scope = s

InScope(e, s) == s = None \/ ent[e].scope = s

\* FindEntitiesByName ignores case, and the scope if it is given none.
Find_AnyScope(n, s) == {e \in Live : Fold[ent[e].name] = Fold[n]}
Find(n, s)          == {e \in Live : Fold[ent[e].name] = Fold[n] /\ InScope(e, s)}
List(s)             == {e \in Live : InScope(e, s)}

InsertEntity(e, n, s) ==
    /\ e \in Free
    /\ ent' = [ent EXCEPT ![e] = [status |-> "live", name |-> n, scope |-> s, old |-> FALSE]]
    /\ called' = [called EXCEPT ![e] = {n}]

CanLink(m, e) == mem[m] # "gone" /\ e \in Stored   \* the foreign keys

\* CreateMemoryEntity: a failure is logged and left.
Link(m, e) == link' = IF CanLink(m, e) THEN link \cup {<<m, e>>} ELSE link

Mentioned(r) ==
    [q \in DOMAIN rel \cup {r} |->
        IF q # r THEN rel[q]
        ELSE [count |-> IF r \in DOMAIN rel THEN Min({rel[r].count + 1, MinMentions}) ELSE 1,
              old |-> FALSE]]
CanRelate(r) == {r[1], r[2]} \subseteq Stored /\ r[1] # r[2]   \* keys and CHECK

\* UpsertRelation: inserted, or counted, in one statement.
Upsert(r) == rel' = IF CanRelate(r) THEN Mentioned(r) ELSE rel

\* What the cascades leave when the rows S of entities go.
WithoutEntities(S) ==
    /\ link' = {l \in link : l[2] \notin S}
    /\ rel' = Restrict(rel, {r \in DOMAIN rel : r[1] \notin S /\ r[2] \notin S})

Goto(p, l, j) ==
    /\ pc' = [pc EXCEPT ![p] = l]
    /\ job' = [job EXCEPT ![p] = j]
Begin(p, kind, l, j) == kind \in duty[p] /\ pc[p] = "idle" /\ Goto(p, l, j)
At(p, l)             == pc[p] = l
Drop(p, x)           == [job[p] EXCEPT !.todo = @ \ {x}, !.at = <<>>]

------------------------------------------------------------------------------
(* Extraction: Extractor.Extract, ExtractBatch, ExtractRelations.           *)

\* What the model answers, parsed, filtered and cut: some of what the text
\* mentions, if anything.
Understood(m) == (SUBSET Text[m]) \ {{}}

Extract(p) ==
    \E m \in Memory : \E names \in Understood(m) :
       /\ mem[m] = "live" /\ Cardinality(tasks) < MaxTasks
       /\ Begin(p, "extract", "names", [NoJob EXCEPT !.mem = m, !.scope = Home[m], !.todo = names])
       /\ UNCHANGED <<tables, called, asserted, foreign>>

\* callBatchLLM: names for some of the items, by their index.
Answers(items) ==
    {{[index |-> i, names |-> f[i]] : i \in DOMAIN f} :
        f \in {g \in UNION {[I -> SUBSET Name] : I \in SUBSET (1..Len(items))} :
                  \A i \in DOMAIN g : g[i] \in Understood(items[i])}}

Merged_NoOffset(out1, out2, mid) == out1 \cup out2

\* The second half of a batch that was split counts from its own start.
Merged(out1, out2, mid) == out1 \cup {[a EXCEPT !.index = @ + mid] : a \in out2}

\* callBatchLLMWithRetry: the batch as a whole, or in halves, of which one may
\* fail.
BatchAnswers(items) ==
    LET mid == Len(items) \div 2 IN
    Answers(items) \cup {Merged(o1, o2, mid) : o1 \in Answers(SubSeq(items, 1, mid)),
                                               o2 \in Answers(SubSeq(items, mid + 1, Len(items)))}

\* BulkExtractor.Run: memories without links, in a batch without a scope.
Backfill(p) ==
    LET missing == {m \in Memory : mem[m] = "live" /\ \A l \in link : l[1] # m}
        items   == SetToSeq(missing)
    IN /\ "backfill" \in duty[p] /\ pc[p] = "idle"
       /\ \E out \in BatchAnswers(items) \ {{}} : Begin(p, "backfill", "batch",
             [NoJob EXCEPT !.rest = {<<items[a.index], a.names>> : a \in out}])
       /\ UNCHANGED <<tables, called, asserted, foreign>>

NextItem_KeepsMap(p, r) == [job[p] EXCEPT !.mem = r[1], !.todo = r[2], !.rest = @ \ {r}]

\* The map of ids is new for each item.
NextItem(p, r) == [NoJob EXCEPT !.mem = r[1], !.todo = r[2], !.rest = job[p].rest \ {r}]

Item(p) ==
    /\ At(p, "batch")
    /\ IF job[p].rest = {} THEN Goto(p, "idle", NoJob)
       ELSE \E r \in job[p].rest : Goto(p, "names", NextItem(p, r))
    /\ UNCHANGED <<tables, called, asserted, foreign>>

\* resolveEntity: an entity of that name, or one that the model says is the
\* same, or a new candidate.
ResolveName(p) ==
    \E n \in job[p].todo :
       /\ At(p, "names")
       /\ LET found == Find(n, job[p].scope) IN
          \/ \E e \in found : /\ Goto(p, "link", [job[p] EXCEPT !.at = <<n, e>>])
                              /\ UNCHANGED called
          \/ \E e \in List(job[p].scope) :
                /\ found = {}
                /\ Goto(p, "link", [job[p] EXCEPT !.at = <<n, e>>])
                /\ called' = [called EXCEPT ![e] = @ \cup {n}]
          \/ /\ found = {}
             /\ Goto(p, "candidate", [job[p] EXCEPT !.at = <<n, "names">>])
             /\ UNCHANGED called
       /\ UNCHANGED <<tables, asserted, foreign>>

IsBatch(p) == job[p].scope = None

LinkName(p) ==
    LET j == job[p] IN
    /\ At(p, "link")
    /\ Link(j.mem, j.at[2])
    /\ foreign' = IF IsBatch(p) THEN foreign \cup {<<j.mem, j.at[2]>>} ELSE foreign
    /\ Goto(p, "names", [Drop(p, j.at[1]) EXCEPT !.ids = @ \cup {j.at}])
    /\ UNCHANGED <<mem, ent, cand, rel, tasks, called, asserted>>

\* A batch asks for a candidate of no scope and names no memory.
Mentioner(p)    == IF IsBatch(p) THEN None ELSE job[p].mem
CandidateKey(p) == <<job[p].at[1], job[p].scope>>

\* UpsertCandidate is an UPDATE and, if it found no row, an INSERT; then on to
\* where the name was looked up.
UpdateCandidate(p) ==
    LET c == CandidateKey(p) IN
    /\ At(p, "candidate")
    /\ IF cand[c].hits > 0
       THEN /\ cand' = [cand EXCEPT ![c] = [hits |-> Min({@.hits + 1, MinHits}),
                                            mems |-> @.mems \cup {Mentioner(p)}]]
            /\ Goto(p, job[p].at[2], Drop(p, job[p].at[1]))
       ELSE /\ Goto(p, "insert", job[p])
            /\ UNCHANGED cand
    /\ UNCHANGED <<mem, ent, link, rel, tasks, called, asserted, foreign>>

InsertCandidate(p) ==
    LET c == CandidateKey(p) IN
    /\ At(p, "insert")
    /\ cand' = IF cand[c].hits > 0 THEN cand
               ELSE [cand EXCEPT ![c] = [hits |-> 1, mems |-> {Mentioner(p)}]]
    /\ Goto(p, job[p].at[2], Drop(p, job[p].at[1]))
    /\ UNCHANGED <<mem, ent, link, rel, tasks, called, asserted, foreign>>

Pairs(ids) == {<<a[2], b[2]>> : a \in ids, b \in ids} \ {<<a[2], a[2]>> : a \in ids}

\* The end of an item: relations between what it names are asked for, in a
\* task if there is a queue; a batch has them in its answer.
Named(p) ==
    LET j == job[p] IN
    /\ At(p, "names") /\ j.todo = {}
    /\ IF Cardinality(j.ids) >= 2 /\ Queued /\ ~IsBatch(p)
       THEN /\ tasks' = tasks \cup {[mem |-> j.mem, ids |-> j.ids]}
            /\ Goto(p, "idle", NoJob)
       ELSE /\ \E rels \in SUBSET Pairs(j.ids) : Goto(p, "relate", [j EXCEPT !.todo = rels])
            /\ UNCHANGED tasks
    /\ UNCHANGED <<mem, ent, cand, link, rel, called, asserted, foreign>>

\* resolveRelation, for each relation of the answer.
Relate(p) ==
    /\ At(p, "relate")
    /\ IF job[p].todo = {}
       THEN Goto(p, IF IsBatch(p) THEN "batch" ELSE "idle",
                 IF IsBatch(p) THEN job[p] ELSE NoJob) /\ UNCHANGED rel
       ELSE \E r \in job[p].todo : Upsert(r) /\ Goto(p, "relate", Drop(p, r))
    /\ UNCHANGED <<mem, ent, cand, link, tasks, called, asserted, foreign>>

\* The relation_extract task, with ids from when it was queued.  It may be
\* delivered again.
RelationTask(p) ==
    \E t \in tasks, again \in BOOLEAN :
       /\ (again => Faults)
       /\ \E rels \in SUBSET Pairs(t.ids) :
             Begin(p, "relations", "relate", [NoJob EXCEPT !.mem = t.mem, !.scope = Home[t.mem],
                                                           !.todo = rels])
       /\ tasks' = IF again THEN tasks ELSE tasks \ {t}
       /\ UNCHANGED <<mem, ent, cand, link, rel, called, asserted, foreign>>

------------------------------------------------------------------------------
(* EntityResolver: names are terms of the text; no model is asked.          *)

Resolve(p) ==
    \E m \in Memory :
       /\ mem[m] = "live"
       /\ Begin(p, "resolve", "terms", [NoJob EXCEPT !.mem = m, !.scope = Home[m], !.todo = Text[m]])
       /\ UNCHANGED <<tables, called, asserted, foreign>>

\* ResolveLayer1, then the links of writeAssociations.
ResolveTerm(p) ==
    LET j == job[p] IN
    /\ At(p, "terms")
    /\ \/ /\ j.todo = {}
          /\ Goto(p, "associate", [j EXCEPT !.todo = {a[2] : a \in j.ids}])
       \/ \E n \in j.todo :
             LET found == Find(n, j.scope) IN
             \/ \E e \in found : Goto(p, "terms", [Drop(p, n) EXCEPT !.ids = @ \cup {<<n, e>>}])
             \/ found = {} /\ Goto(p, "candidate", [j EXCEPT !.at = <<n, "terms">>])
    /\ UNCHANGED <<tables, called, asserted, foreign>>

\* An entity is one association, whatever names led to it; a pair comes up
\* once, in the order of a Go map.
Associate(p) ==
    LET j == job[p] IN
    /\ At(p, "associate")
    /\ IF j.todo # {}
       THEN \E e \in j.todo : Link(j.mem, e) /\ Goto(p, "associate", Drop(p, e))
       ELSE \E rels \in SUBSET Pairs(j.ids) :
               /\ \A a, b \in {i[2] : i \in j.ids} :
                     a # b => (<<a, b>> \in rels <=> <<b, a>> \notin rels)
               /\ Goto(p, "stats", [j EXCEPT !.todo = rels])
               /\ UNCHANGED link
    /\ UNCHANGED <<mem, ent, cand, rel, tasks, called, asserted, foreign>>

\* UpdateRelationStats is an UPDATE and, if it found no row, an INSERT.
UpdateStats(p) ==
    LET j == job[p] IN
    /\ At(p, "stats")
    /\ IF j.todo = {} THEN Goto(p, "idle", NoJob) /\ UNCHANGED rel
       ELSE \E r \in j.todo :
               IF r \in DOMAIN rel THEN rel' = Mentioned(r) /\ Goto(p, "stats", Drop(p, r))
               ELSE Goto(p, "relation", [j EXCEPT !.at = r]) /\ UNCHANGED rel
    /\ UNCHANGED <<mem, ent, cand, link, tasks, called, asserted, foreign>>

\* CreateRelation fails if there is one by now.
InsertRelation(p) ==
    LET r == job[p].at IN
    /\ At(p, "relation")
    /\ rel' = IF r \notin DOMAIN rel /\ CanRelate(r) THEN Mentioned(r) ELSE rel
    /\ Goto(p, "stats", Drop(p, r))
    /\ UNCHANGED <<mem, ent, cand, link, tasks, called, asserted, foreign>>

------------------------------------------------------------------------------
(* The heartbeat.                                                           *)

\* runCandidatePromotion: ListPromotable copies the candidates.
Promote(p) ==
    LET ready == {c \in DOMAIN cand : cand[c].hits >= MinHits} IN
    /\ ready # {}
    /\ Begin(p, "promote", "promote",
             [NoJob EXCEPT !.rest = {[key |-> c, mems |-> cand[c].mems] : c \in ready}])
    /\ UNCHANGED <<tables, called, asserted, foreign>>

\* CreateEntity: if the name is taken, the candidate is left as it is.
PromoteOne(p) ==
    /\ At(p, "promote")
    /\ IF job[p].rest = {} THEN Goto(p, "idle", NoJob) /\ UNCHANGED <<ent, called>>
       ELSE \E c \in job[p].rest :
          LET left == [NoJob EXCEPT !.rest = job[p].rest \ {c}] IN
          IF IsTaken(c.key[1], c.key[2])
          THEN Goto(p, "promote", left) /\ UNCHANGED <<ent, called>>
          ELSE \E e \in Free :
                  /\ InsertEntity(e, c.key[1], c.key[2])
                  /\ Goto(p, "mentions", [left EXCEPT !.at = <<c.key, e>>, !.todo = c.mems])
    /\ UNCHANGED <<mem, cand, link, rel, tasks, asserted, foreign>>

\* The links of the memories in the copy, then DeleteCandidate.
LinkMentions(p) ==
    LET j == job[p] IN
    /\ At(p, "mentions")
    /\ IF j.todo # {}
       THEN \E m \in j.todo :
               /\ IF m = None THEN UNCHANGED link ELSE Link(m, j.at[2])
               /\ Goto(p, "mentions", [j EXCEPT !.todo = @ \ {m}])
               /\ UNCHANGED cand
       ELSE /\ cand' = [cand EXCEPT ![j.at[1]] = NoCandidate]
            /\ Goto(p, "promote", [j EXCEPT !.at = <<>>])
            /\ UNCHANGED link
    /\ UNCHANGED <<mem, ent, rel, tasks, called, asserted, foreign>>

Purged(S) == [e \in Entity |-> IF e \in S THEN [NoRow EXCEPT !.status = "gone"] ELSE ent[e]]

Orphans == {e \in Live : /\ \A l \in link : l[2] # e
                         /\ \A r \in DOMAIN rel : e \notin {r[1], r[2]}}

\* runRelationCleanup: three statements.
Clean(p) ==
    /\ Begin(p, "clean", "orphans", NoJob)
    /\ rel' = Restrict(rel, {r \in DOMAIN rel : rel[r].count >= MinMentions \/ ~rel[r].old})
    /\ UNCHANGED <<mem, ent, cand, link, tasks, called, asserted, foreign>>

CleanupOrphans(p) ==
    /\ At(p, "orphans") /\ Goto(p, "purge", NoJob)
    /\ ent' = [e \in Entity |-> IF e \in Orphans THEN [ent[e] EXCEPT !.status = "soft"] ELSE ent[e]]
    /\ UNCHANGED <<mem, cand, link, rel, tasks, called, asserted, foreign>>

PurgeDeleted(p) ==
    LET S == {e \in Entity : ent[e].status = "soft" /\ ent[e].old} IN
    /\ At(p, "purge") /\ Goto(p, "idle", NoJob)
    /\ ent' = Purged(S) /\ WithoutEntities(S)
    /\ UNCHANGED <<mem, cand, tasks, called, asserted, foreign>>

\* runOrphanCleanup: GetEntityMemories lists the live memories of an entity,
\* each is read again, and unlinked if it is gone by then.
LinksListed(e) == {l \in link : l[2] = e /\ mem[l[1]] = "live"}

Sweep(p) ==
    /\ Begin(p, "sweep", "sweep", [NoJob EXCEPT !.todo = Live])
    /\ UNCHANGED <<tables, called, asserted, foreign>>

SweepEntity(p) ==
    /\ At(p, "sweep")
    /\ IF job[p].todo = {} THEN Goto(p, "idle", NoJob)
       ELSE \E e \in job[p].todo : Goto(p, "check", [Drop(p, e) EXCEPT !.rest = LinksListed(e)])
    /\ UNCHANGED <<tables, called, asserted, foreign>>

CheckLink(p) ==
    /\ At(p, "check")
    /\ IF job[p].rest = {} THEN Goto(p, "sweep", job[p])
       ELSE \E l \in job[p].rest :
               Goto(p, IF mem[l[1]] = "live" THEN "check" ELSE "unlink",
                    [job[p] EXCEPT !.rest = @ \ {l}, !.at = l])
    /\ UNCHANGED <<tables, called, asserted, foreign>>

Unlink(p) ==
    /\ At(p, "unlink") /\ Goto(p, "check", job[p])
    /\ link' = link \ {job[p].at}
    /\ UNCHANGED <<mem, ent, cand, rel, tasks, called, asserted, foreign>>

\* 90 days for relations, 30 for deleted entities; no request takes that long.
Age(p) ==
    /\ "age" \in duty[p] /\ \A q \in Proc : pc[q] = "idle"
    /\ ent' = [e \in Entity |-> [ent[e] EXCEPT !.old = ent[e].status = "soft"]]
    /\ rel' = [r \in DOMAIN rel |-> [rel[r] EXCEPT !.old = TRUE]]
    /\ UNCHANGED <<mem, cand, link, tasks, pc, job, called, asserted, foreign>>

------------------------------------------------------------------------------
(* Clients: GraphHandler, over GraphManager.  The read that precedes each   *)
(* for its scope is one with the write here: the write checks for itself.   *)

CreateEntity ==
    \E n \in Name, s \in Scope, e \in Free :
       /\ ~IsTaken(n, s)
       /\ InsertEntity(e, n, s)
       /\ UNCHANGED <<mem, cand, link, rel, tasks, asserted>>

\* Relations and links go with the entity, in one transaction.
DeleteEntity ==
    \E e \in Live :
       /\ ent' = Purged({e}) /\ WithoutEntities({e})
       /\ UNCHANGED <<mem, cand, tasks, called, asserted>>

CreateRelation ==
    \E r \in Live \X Entity :
       /\ CanRelate(r) /\ r \notin DOMAIN rel /\ Cardinality(asserted) < MaxAsserted
       /\ rel' = Mentioned(r)
       /\ asserted' = asserted \cup {r}
       /\ UNCHANGED <<mem, ent, cand, link, tasks, called>>

DeleteRelation ==
    \E r \in DOMAIN rel :
       /\ r[1] \in Live
       /\ rel' = Restrict(rel, DOMAIN rel \ {r})
       /\ UNCHANGED <<mem, ent, cand, link, tasks, called, asserted>>

CreateLink ==
    \E m \in Memory, e \in Live :
       /\ CanLink(m, e) /\ <<m, e>> \notin link /\ Cardinality(asserted) < MaxAsserted
       /\ link' = link \cup {<<m, e>>}
       /\ asserted' = asserted \cup {<<m, e>>}
       /\ UNCHANGED <<mem, ent, cand, rel, tasks, called>>

DeleteLink ==
    \E l \in link :
       /\ l[2] \in Live
       /\ link' = link \ {l}
       /\ UNCHANGED <<mem, ent, cand, rel, tasks, called, asserted>>

\* The memories themselves: deleted, restored, and removed for good.
ChangeMemory ==
    \E m \in Memory :
       /\ \/ mem[m] = "live"    /\ mem' = [mem EXCEPT ![m] = "deleted"] /\ UNCHANGED link
          \/ mem[m] = "deleted" /\ mem' = [mem EXCEPT ![m] = "live"]    /\ UNCHANGED link
          \/ mem[m] # "gone"    /\ mem' = [mem EXCEPT ![m] = "gone"]
                                /\ link' = {l \in link : l[1] # m}
       /\ UNCHANGED <<ent, cand, rel, tasks, called, asserted>>

Client(p) ==
    /\ pc[p] = "idle"
    /\ \/ "create" \in duty[p] /\ CreateEntity
       \/ "delete" \in duty[p] /\ DeleteEntity
       \/ /\ "links" \in duty[p]
          /\ CreateRelation \/ DeleteRelation \/ CreateLink \/ DeleteLink
       \/ "memories" \in duty[p] /\ ChangeMemory
    /\ UNCHANGED <<pc, job, foreign>>

\* GraphManager.UpdateEntity reads the entity and writes its name back, the
\* new one if the request has one.
Edit(p) ==
    \E e \in Live, n \in Name :
       /\ Begin(p, "edit", "edit", [NoJob EXCEPT !.at = <<n, e>>])
       /\ UNCHANGED <<tables, called, asserted, foreign>>

WriteEntity(p) ==
    LET n == job[p].at[1]
        e == job[p].at[2]
    IN /\ At(p, "edit") /\ Goto(p, "idle", NoJob)
       /\ IF e \in Stored /\ \A d \in Stored \ {e} : ~(ent[d].name = n /\ ent[d].scope = ent[e].scope)
          THEN /\ ent' = [ent EXCEPT ![e].name = n]
               /\ called' = [called EXCEPT ![e] = @ \cup {n}]
          ELSE UNCHANGED <<ent, called>>
       /\ UNCHANGED <<mem, cand, link, rel, tasks, asserted, foreign>>

\* A process dies, or its request times out.
Crash(p) ==
    /\ Faults /\ pc[p] # "idle"
    /\ Goto(p, "idle", NoJob)
    /\ UNCHANGED <<tables, called, asserted, foreign>>

Step(p) ==
    \/ Extract(p) \/ Backfill(p) \/ Item(p) \/ ResolveName(p) \/ LinkName(p)
    \/ UpdateCandidate(p) \/ InsertCandidate(p) \/ Named(p) \/ Relate(p) \/ RelationTask(p)
    \/ Resolve(p) \/ ResolveTerm(p) \/ Associate(p) \/ UpdateStats(p) \/ InsertRelation(p)
    \/ Promote(p) \/ PromoteOne(p) \/ LinkMentions(p)
    \/ Clean(p) \/ CleanupOrphans(p) \/ PurgeDeleted(p)
    \/ Sweep(p) \/ SweepEntity(p) \/ CheckLink(p) \/ Unlink(p)
    \/ Edit(p) \/ WriteEntity(p) \/ Client(p) \/ Crash(p) \/ Age(p)

Next == (\E p \in Proc : Step(p)) /\ UNCHANGED duty

Spec == Init /\ [][Next]_vars

------------------------------------------------------------------------------
(* What the graph says is what the memories say.                            *)

Names(e) == {Fold[n] : n \in called[e]}
Mentions(m, e) == \E n \in Text[m] : Fold[n] \in Names(e)

\* A memory is linked to an entity only if its text mentions it, by a name the
\* entity has had or one that a model took for it: answers of batches, split or
\* not, and ids kept across calls are put down to the right memory.
LinksAreMentions == \A l \in link : l \in asserted \/ Mentions(l[1], l[2])

\* A relation that no client made joins two entities that one memory mentions.
RelationsAreGrounded ==
    \A r \in DOMAIN rel :
       r \in asserted \/ \E m \in Memory : Mentions(m, r[1]) /\ Mentions(m, r[2])

\* Links stay in the scope of the memory, or lead to an entity of no scope,
\* unless a client or a backfill made them: a backfill names no scope, and the
\* lookup then takes an entity of any.
LinksStayInScope ==
    \A l \in link : \/ l \in asserted \cup foreign
                    \/ ent[l[2]].scope \in {Home[l[1]], None}

\* runOrphanCleanup says that it removes links to deleted memories: when a
\* sweep ends, alone, there are none.  It lists only live ones.
OrphansAreCleaned ==
    [][\A p \in Proc : (SweepEntity(p) /\ pc'[p] = "idle") =>
          \A l \in link : l[2] \in Live => mem[l[1]] = "live"]_vars

\* A candidate goes only when the memories that mentioned it have their links.
MentionsKept ==
    [][\A c \in DOMAIN cand : (cand[c].hits > 0 /\ cand'[c].hits = 0) =>
          \A m \in cand[c].mems \ {None} : mem[m] = "live" => \E l \in link : l[1] = m /\ Fold[c[1]] \in Names(l[2])]_vars

\* An entity that is purged is one that nothing links to.
PurgeSparesLinked ==
    [][\A e \in Entity : (ent[e].status = "soft" /\ ent'[e].status = "gone") =>
          \A l \in link : l[2] # e]_vars

\* The heartbeat takes no link from a memory that is live.
LiveKeepsLinks == [][\A p \in Proc : Unlink(p) => mem[job[p].at[1]] # "live"]_vars

\* A promotion makes an entity of a candidate that is still there.
PromotesStanding ==
    [][\A p \in Proc : (PromoteOne(p) /\ pc'[p] = "mentions") =>
          cand[job'[p].at[1]].hits > 0]_vars

\* Two entities are not related both ways round.
OneRowPerPair == \A r \in DOMAIN rel : <<r[2], r[1]>> \notin DOMAIN rel

\* Types; and links and relations lead to rows that there are, also after an
\* entity was purged while a job held its id.
TypeOK ==
    /\ mem \in [Memory -> {"live", "deleted", "gone"}]
    /\ ent \in [Entity -> EntityRow]
    /\ cand \in [Name \X (Scope \cup {None}) -> Candidate]
    /\ link \subseteq Memory \X Stored
    /\ \A r \in DOMAIN rel : r \in Stored \X Stored /\ rel[r] \in Relation
    /\ \A t \in tasks : t.mem \in Memory /\ t.ids \subseteq Name \X Entity
------------------------------------------------------------------------------
(* Why: what a job holds, between two statements, fits the memory it works  *)
(* on, whatever the others do meanwhile.                                    *)

Known(e) == ent[e].status # "free"

\* The entity of a name found in memory m, by a job of scope s; its scope is
\* lost when it is purged.
Fits(m, s, a) ==
    /\ a \in Name \X Entity /\ Known(a[2])
    /\ a[1] \in Text[m] /\ Fold[a[1]] \in Names(a[2])
    /\ s # None => ent[a[2]].scope \in {s, None}

Grounded(r) ==
    /\ r \in Entity \X Entity /\ Known(r[1]) /\ Known(r[2])
    /\ \E m \in Memory : Mentions(m, r[1]) /\ Mentions(m, r[2])

\* The memories of a candidate, in the table or a copy.
MentionIt(c, mems) ==
    /\ c \in Name \X (Scope \cup {None})
    /\ \A m \in mems \ {None} : m \in Memory /\ c[1] \in Text[m] /\ c[2] = Home[m]

IsItem(i) == i \in Memory \X SUBSET Name /\ i[2] \subseteq Text[i[1]]

\* The job of a memory: names that it mentions, and what some of them led to.
Reading(j) ==
    /\ j.mem \in Memory /\ j.scope \in {Home[j.mem], None}
    /\ j.todo \subseteq Text[j.mem]
    /\ \A a \in j.ids : Fits(j.mem, j.scope, a)
    /\ \A i \in j.rest : IsItem(i)

HoldsAt(l, j) ==
    CASE l = "batch"     -> j.scope = None /\ \A i \in j.rest : IsItem(i)
      [] l = "names"     -> Reading(j)
      [] l = "terms"     -> Reading(j) /\ j.scope = Home[j.mem]
      [] l = "link"      -> Reading(j) /\ j.at[1] \in j.todo /\ Fits(j.mem, j.scope, j.at)
      [] l \in {"candidate", "insert"} ->
            /\ Reading(j) /\ j.at[1] \in j.todo
            /\ j.at[2] \in {"names", "terms"} /\ (j.at[2] = "terms" => j.scope = Home[j.mem])
      [] l = "relate"    -> /\ j.scope = None => \A i \in j.rest : IsItem(i)
                            /\ \A r \in j.todo : Grounded(r)
      [] l = "associate" -> /\ j.mem \in Memory
                            /\ \A a \in j.ids : Fits(j.mem, Home[j.mem], a)
                            /\ j.todo \subseteq {a[2] : a \in j.ids}
      [] l = "stats"     -> \A r \in j.todo : Grounded(r)
      [] l = "relation"  -> Grounded(j.at) /\ \A r \in j.todo : Grounded(r)
      [] l = "promote"   -> \A c \in j.rest : MentionIt(c.key, c.mems)
      [] l = "mentions"  -> LET c == j.at[1]
                                e == j.at[2]
                            IN /\ \A d \in j.rest : MentionIt(d.key, d.mems)
                               /\ MentionIt(c, j.todo)
                               /\ e \in Entity /\ Known(e) /\ Fold[c[1]] \in Names(e)
                               /\ ent[e].scope \in {c[2], None}
      [] l = "edit"      -> j.at \in Name \X Entity
      [] OTHER           -> TRUE

JobsHold == \A p \in Proc : HoldsAt(pc[p], job[p])

TasksFit == \A t \in tasks : t.mem \in Memory /\ \A a \in t.ids : Fits(t.mem, None, a)

CandidatesMention == \A c \in DOMAIN cand : MentionIt(c, cand[c].mems)

NamesAreCalled == \A e \in Stored : ent[e].name \in called[e]

GraphInv ==
    /\ TypeOK /\ NamesAreCalled /\ JobsHold /\ TasksFit /\ CandidatesMention
    /\ LinksAreMentions /\ RelationsAreGrounded /\ LinksStayInScope
==============================================================================
