# LocalMem in TLA+

LocalMem (`iclude`) is a memory system for AI agents: memories live in SQLite,
their embeddings in Qdrant; an HTTP server, an MCP server and a set of
background jobs work on both.  This directory holds TLA+ models of its parts,
the TLC runs that check them on small instances, and TLAPS proofs of their
safety properties for every value of the constants.

Line numbers refer to `src/`; paths without a prefix are under `src/internal/`.

* [The system](#the-system): components, their state, how they interact
* [The modules](#the-modules): how each one corresponds to the code
* [The runs](#the-runs): what each checks, with which bounds
* [Fairness](#fairness)
* [Findings](#findings): where the code and what is said of it disagree
* [Proofs](#proofs)
* [What is not modelled](#what-is-not-modelled)
* [Plan](#plan)

To repeat everything: `tlc -config TaskQueue_safety.cfg MCTaskQueue.tla` (and
so on, one `.cfg` per run, named after the module it instantiates) and
`tlapm TaskQueueProofs.tla`.

## The system

Two processes, `cmd/server` (HTTP, port 8080) and `cmd/mcp` (MCP over SSE, port
8081, or stdio), both call `bootstrap.Init` on one SQLite file in WAL mode.  So
everything `initScheduler` registers (`bootstrap/wiring.go:493-552`) runs
*twice*: two queue workers, two repair services, two cleaners, two heartbeats.
Nothing coordinates them but the database.  A store method is one statement or
one transaction; the managers and services call several of them in a row and
hold no lock in between.  That is where the hard behaviour of this system is,
and the grain of the models: one action per store call.

| Component | State | Operations | What makes it hard | What makes it correct |
|---|---|---|---|---|
| Task queue (`queue/`) | table `async_tasks`: status, retry_count, max_retries, updated_at | Enqueue, Poll, Complete, Fail, ResetStale; Worker.RunOnce | two consumers; a worker may die, or outlast the stale timeout; reports fail | one executor at a time; no task lost; given up only after all attempts |
| Session runtime (`runtime/`) | tables `sessions`, `session_finalize_state`, `idempotency_keys` | Create, transitions, Touch, Finalize, RepairService.RunOnce | retried tool calls, repair in two processes, a finalize of seven separate writes, crashes | a key executes once; a bound key means it worked; every ended session settles |
| Memory manager and store (`memory/manager*.go`, `store/sqlite_memory_*.go`) | rows, full-text index, vectors, `contexts.memory_count` | Create with deduplication, Update, Delete, SoftDelete (by id, source, document, expiry), Restore, purge | check-then-insert; best-effort side effects; whole-row writes of stale copies | unique hashes; live memories can be found; deleted memories stay deleted; counts |
| Document pipeline (`document/`, `api/document_handler.go`) | table `documents`, `data/uploads/<id>`, chunk memories | Upload, ProcessAsync, Process (reprocess), DeleteDocument | goroutines behind a semaphore, timeouts, panics, deletion during processing | ready means complete; every document settles; deleted stays deleted |
| Contexts (`memory/context_manager.go`, `store/sqlite_context.go`) | tree of contexts with materialised paths, memory_count | Create, Move, Update, Delete | cycle check and path read outside the transaction of the write | acyclic; paths agree with parents |
| Scheduler (`scheduler/`), bootstrap, `cmd/server`, `cmd/mcp` | one ticker goroutine per job, a running flag each; a context that a signal cancels | Register, Start, Wait | stop while jobs wait, run or are not launched yet | a stop ends |
| Access tracker (`memory/access_tracker.go`) | a channel of 10000 hits | Track, Flush | drops when full; flushes that fail, or that a stop cancels half-way | counts never exceed the hits, and reach the store |
| Lifecycle jobs (`memory/lifecycle.go`, `promoter.go`, `consolidation.go`, `heartbeat/`) | tiers, strength, expiry, consolidated memories | promotion, crystallization, decay audit, consolidation, candidate promotion | snapshots that are minutes old when used; LLM calls in between | no fact is lost in a consolidation; standing is earned; tier and decay rate agree |
| Knowledge graph (`memory/extractor.go`, `entity_resolver.go`, `graph_manager.go`, `store/sqlite_graph.go`, `sqlite_candidate.go`, `heartbeat/`) | entities, relations, links to memories, candidates | extract, extract in batches, relate, resolve, promote, sweep, purge; what clients write | names and ids held over LLM calls; batches whose answers are numbered; clean-ups beside writers | links and relations say what the memories say; scopes stay apart |
| Retrieval (`search/`) | none of its own but the reranker's circuit breaker | the legacy path, seven pipelines, fusion, reranking, rewriting, retry | searches that fail one by one; memories that end meanwhile; a breaker that requests share | what matches is answered, what was not there is not; requests end |
| Embedding (`embed/`) | LRU cache | Embed | - | a hit returns what was computed for that text |
| LLM client (`llm/`), reflection (`reflect/`) | none | fallback chain; rounds of retrieve and ask | limits on rounds and tokens | ends |
| MCP (`mcp/`, `mcp/client`, `cmd/cli` hooks) | sessions, one channel each; a client that waits for answers | connect, message, dispatch, close; the hooks' scripts | calls that run concurrently in one session; slow or departed clients; late answers | an answer goes to its call; nothing is lost silently; streams end |
| HTTP API (`api/`) | none | handlers that call the managers | - | identity and scope checks |
| Backfill (`maintenance/`) | a queue in a file | load, scan, chunk, save | two processes on one file, non-atomic write, poison texts | every memory gets its vector |
| Store schema, migrations (`store/sqlite_schema.go`, `sqlite_migration*.go`) | tables, columns, unique indexes, the text index, `schema_version`, the tokenizer in `meta` | the migrations to version 28, the fresh schema (which says 27), the change of tokenizer | two processes start on one file; a migration stops half-way; a version read long ago; rows that a new constraint does not take | a file that was opened can be opened; rows survive; the version tells the schema |

How they interact:

    tool / HTTP request --> Manager ----> SQLite: memories + memories_fts (one transaction)
                              |---------> SQLite: contexts.memory_count   (best effort)
                              |---------> Qdrant                          (best effort)
                              '---------> Queue.Enqueue (extraction)
    upload --> DocumentHandler --> documents, data/uploads
                  '--> Processor goroutine --> Manager.Create per chunk
    MCP finalize tool --> FinalizeService --> summarizer --> Manager.Create
    scheduler --> Worker.RunOnce, RepairService.RunOnce, CleanupExpired, PurgeDeleted,
                  consolidation, heartbeat, backfill, AccessTracker.Flush
    Queue --> Extractor --> entities, candidates, memory_entities --> relation tasks --> Queue
    heartbeat --> candidates become entities; links and entities nobody needs go
    search --> SQLite FTS, Qdrant, graph --> AccessTracker.Track
    hook --> mcp/client --> SSE session --> tool --> the managers above

## The modules

| Module | Models | Composed with |
|---|---|---|
| `RetryQueue` | the promise of the queue to those who enqueue, without workers or rows | implemented by `TaskQueue` |
| `TaskQueue` | `queue/queue.go`, `queue/worker.go` | `MCTaskQueue`, `TaskQueueProofs` |
| `SessionFinalize` | `runtime/*.go`, `store/sqlite_session*.go`, `sqlite_idempotency.go` | `MCSessionFinalize`, `SessionFinalizeProofs` |
| `MemoryStore` | `memory/manager*.go`, `dedup.go`, `store/sqlite_memory_*.go` | `MCMemoryStore`, `MemoryStoreProofs` |
| `Migrations` | `store/sqlite_schema.go`, `store/sqlite_migration*.go`, `store/factory.go` | `MCMemoryStore`, `MemoryStoreProofs` |
| `Lifecycle` | `memory/lifecycle.go`, `manager_lifecycle.go`, `consolidation.go`, `heartbeat/`, with the store operations they call | `MCLifecycle`, `LifecycleProofs` |
| `DocumentPipeline` | `document/processor.go`, `api/document_handler.go`, `store/sqlite_document.go` | `MCDocumentPipeline`, `DocumentPipelineProofs` |
| `KnowledgeGraph` | `memory/extractor.go`, `entity_resolver.go`, `store/sqlite_graph.go`, `sqlite_candidate.go`, the graph jobs of `heartbeat/`, `api/graph_handler.go` | `MCKnowledge`, `KnowledgeProofs` |
| `ContextTree` | `memory/context_manager.go`, `store/sqlite_context.go`, `api/context_handler.go` | `MCKnowledge`, `KnowledgeProofs` |
| `Background` | `scheduler/`, `bootstrap/wiring.go`, `cmd/server`, `cmd/mcp`, `memory/access_tracker.go`, `maintenance/` | `MCBackground`, `ServerProofs` |
| `Retrieval` | `search/`: retriever, pipelines, stages, strategies, circuit breaker | `MCRetrieval`, `ServerProofs` |
| `CallService` | the promise of the MCP server and its client to whoever makes a call, without streams or goroutines | implemented by `McpSessions` |
| `McpSessions` | `mcp/server.go`, `session.go`, `stdio.go`, `mcp/client`, `cmd/cli/hook_*.go` | `MCMcpSessions`, `McpSessionsProofs` |

The `MC` modules hold model values, symmetry sets and named sets of requests.
Two of them also put modules side by side that share a database but no row:
`MCMemoryStore` the memories, the counts of contexts and the schema,
`MCKnowledge` the graph and the tree.  The memories and the counts are one module,
`MemoryStore`, under two sets of operations (`Written`, `Counted`).  A behaviour of such a run has its `focus`
on one of them, and the others stay as they start, so the state space is a sum
and not a product.

Several modules have a constant (`Plans`, `Duties`, `Cases`) of which a behaviour
chooses one value in `Init`: what the parties of this behaviour do.  It stands
for configurations and clients, and keeps rare combinations apart.

In a module, a definition with an underscore
(`Exhausted_Late`) is a mutant of the definition it precedes: the same operator
as a plausible bug would have it.  A property is worth its run only if some
mutant breaks it.

### TaskQueue

A row is `status`, `retry`, `created` and `stale`.  `stale[t]` stands for
`updated_at < now - staleTimeout`: it becomes true by `Age` and false with every
write to the row.  `Worker.RunOnce` is not atomic: `ResetStale`, `Poll`
(select and update in one transaction, oldest first, ties in any order),
`Handle`, then `Complete` or `Fail`.  Both are unconditional updates by id, so
a worker that outlived its lease writes to a row another worker has; `claim` is
what a worker *believes* it holds.  `ReportLost` is a Complete or Fail whose
statement fails and is only logged; `PollError` a transaction that loses to
`SQLITE_BUSY`; `Crash` the death of the process anywhere in between.
`HandlerOverruns` says whether a handler may run past the stale timeout: the
code does not forbid it (the worker's timeout and the stale timeout are
independent settings).  `attempts` and `overrun` are history variables that no
action reads.

`RetryQueue` has neither rows nor workers: a task is open, is run by one party
at a time, ends done or dropped and stays so, and is dropped only after
`MaxRetries` executions.

### SessionFinalize

One session; `state` is `sessions.state`, `marker` is
`session_finalize_state.finalize_version`, `keys` the rows of
`idempotency_keys`.  `Finalize` is the seven steps of
`finalize_service.go:60-150` in their order: `Reserve`, `Get`, `Mark`,
`Summarize`, `MarkFinalized` (or `FinalizeFailed`), `Close`, `Bind`.  Steps
whose error the code logs and ignores may leave the row alone and go on; those
whose error it returns end the run.  Callers are concurrent tool calls with keys
of the hosts; repairers go through `List`, then `Abandon` or `CountAttempt` and
a `Finalize` of their own under a key of the current second (`second`), which
two repairers can share; one that takes no part in a behaviour is `away`
(`Parties`).  Counting an attempt writes the count *as listed* plus
one.  `SessionService.transition` is `HostCheck` and `HostWrite`, because the
code reads, validates, and writes in separate statements.

### MemoryStore

A memory leaves traces in four places: `row`, `fts`, `vec` and `count`.
`fts` is a set of pairs: the words of content `c` lead to memory `m`.  FTS5's
external-content deletion needs the *old* text; the store passes it the text of
the row, while what was indexed was the segmented text, so with a segmenting
tokenizer (`Segmented`) the old words stay.  A row keeps `content` and `hash`
apart, since `Update` rewrites the former and never the latter.

Requests run as processes with a `job`, their local variables: `Create` is
`HashDedup`, `VectorDedupCheck`, `Insert`, `Count`, `WriteVector`,
`WriteExcerpt`; `Update` (and every job that reads a memory and writes it back
whole: crystallization, excerpts, promotions) is `Read`, `Write`, `Uncount`,
`Count`, `WriteVector`; `Delete` is `Delete`, `Trash`, `Uncount`,
`DeleteVector`.  The single-transaction operations (`SoftDelete`, `Restore`,
`PurgeDeleted`) take a set of rows, which covers deletion by id, by source, by
document and by expiry.  `Crash` drops a job between any two of its calls.

### Lifecycle

The jobs that raise, merge and delete memories by what happened to them, beside
clients who create, edit, delete and restore.  A row is its tier (an index into
`tierOrder`), the tier whose default `decay_rate` it has or a rate that a client gave,
its `reinforced_count`, whether it has an `expires_at`, `consolidated_into`, a text,
which is the set of facts that it states, and a hash, which is the text it was
created with: `Update` rewrites the content and not the hash.  A job has `copies`, the
rows it read, and writes them back whole (`Updated`), except for the columns that
`Update` leaves alone.  `plan` says what the jobs of a behaviour are.

`Edit` and `Write` are `Manager.Update`: it reads a memory, applies what the client
asked for (content, tier, decay rate, expiry: `applyUpdateFields`), and writes the
whole row, whatever became of it since.  `Consolidator.Run` is `Select` (list,
cluster), `Merge` (the language model and `Manager.Create`), then for each source
`Replace` and `Trash`.  `Answers` are the memories that a creation may be answered
with instead of a new one: those of its hash, or, with `VectorDedup`, any that is found
alike.  A heartbeat is `ListWeak`, `Audit`, `Backfill`, `Promotion`, `Expiry`; the
steps on the graph (orphans, relations, candidates) and contradiction checks change no
memory row of this module.  `Reinforce` and `Crystallize` are two transactions and the
`Write` a third.  Strength, age and kind are open: wherever the code compares
them, the model goes either way.  The output of the language model is assumed to do
what it is asked for, to state every fact of the cluster; `Repeats` says whether
that text may be one that is stored already.

Three history variables account for facts.  `told` are those that clients stored,
`dropped` those of texts that clients replaced and of memories deleted other than by a
consolidation.  `risked` are those told in one of the ways that the code does not
guard: by an update that is written while another job holds a copy of the memory, which
that job will write over it or take for merged, or after the memory was deleted; by
a creation that is answered with a memory that does not say it; in a merged text whose
answer is a source.  `FactsKept` claims the others, `EveryFactKept` all (Findings).

`runPromotion` and `runTierPromotion` never promote anything: both list memories
with a nil identity, and `visibilityCondition` (`store/sqlite.go:302`)
dereferences it.  `Promotion` is that panic when `PromotionEnabled`.  In the code
it ends the whole process; the model ends the one job, and other jobs may
`Crash` at any time.

### DocumentPipeline

`row` is the `documents` table with its unique index on `content_hash` (as the
guard `Conflict`), `disk` the uploaded file, `chunk` the chunk memories, known
by content because `Manager.Create` deduplicates them across documents.  Each
document has an upload request, an asynchronous run behind the semaphore
(`Acquire`, `Holds`), a manual run and a delete request, all concurrent.  A run
works on the copy of the row that it read in `Get` and writes it back whole in
`Finish`.  `expired` is the run's context past its deadline: from then on every
statement under that context fails, the ones that record the failure included
(`RecordFailure`); a panic is recorded under a fresh context (`Recover`).

### Migrations

`db` is the file: the versions recorded, tables, the columns that a migration
looks for, renames or drops, the columns of the text index, the unique indexes,
and the rows that a migration moves (links, markers of sessions, derivations) or
hashes.  `odd` are links that the `CHECK`s of V15 forbid, and V15, which copies with
`INSERT OR IGNORE`, leaves them behind; V22 copies markers in one statement, which a
marker without its session stops.  `V1` .. `V28` are functions from a file to a file,
and `Released[v]` is what they make of an empty one up to `v`.  `Fresh` is
`createFreshSchema`: the schema of the latest version, recorded as 27
(`FreshVersion`), so that the next start runs `V28` over it.  A process reads the version once
(`Start`) and counts on by itself (`at`), one transaction per migration, as
`Migrate` does; so another process may run a migration that was run already.
`Fails` says which of them then do.  `Busy` is a transaction that does not
get the lock; `CheckTokenizer` the rebuild that follows when the tokenizer has
changed.

### KnowledgeGraph

Rows are entities, links, relations, candidates and queued relation tasks; a
memory mentions the names in `Text`, which is all a model may find in it.  A job
goes through the statements of the code in their order, and keeps names and ids
in its local variables over them: `Extract` and `Backfill` understand a memory
or a batch, `ResolveName` looks an entity up and `InsertEntity`s it, `LinkName`
writes the link, `Relate` the relations or a task for them.  A batch whose
answer is useless is split in two and asked again; `Merged` puts the halves
together, their items numbered from one.  `Resolve` is the resolver with its
candidates, `Promote` and `Clean` and `Sweep` the jobs of the heartbeat, `Edit`
a handler that reads an entity and writes it whole.  What a client links by hand
is kept in `asserted`, for no memory need mention it.

Relations are written and read with the column `source_memory_id`, which neither a
migration nor the fresh schema makes (`RelationsFit`, under Findings).  The module
takes the column to be there: it says what the code does in a database that has it.

`GraphInv`, at the end of the module, says why this goes well: what a job holds
over its statements *fits* (`Fits`, `Grounded`), label by label (`HoldsAt`), and so
do tasks and candidates.  It is an invariant of its own, checked on the instances
of the run and then proved.

### ContextTree

A row has a name, a parent, a path and a depth.  `Create` reads the parent and
`Insert`s later; `Move` reads both paths, checks that the target is not below,
and `MoveRows` rewrites the subtree in one transaction from what it then reads.
Paths are sequences of names and `Like` is SQLite's: it ignores case.  A
deletion leaves the children where they are.

### Background

A process is `down`, `up` or `stopping`; its goroutines are `at` labels.  A tick
starts a job unless it is running; a stop cancels the context, which a job sees
only where it looks.  `Track` and `Flush` share the channel `buf`; a flush drains
it and writes one count at a time.  A backfill loads the queue file or scans,
asks the vector store what is missing, and goes through chunks, saving what is
left after each; a crash between truncation and write leaves the file empty.  It skips
memories whose content is blank, and a chunk fails with a text that the embedder
refuses.  A vector is `full` with the payload the manager gives it, or `bare` as the
backfill writes it.  `lost` are the memories of which a hit was given up: to a full
buffer, a failed statement, which a flush logs before it goes on with the next memory, a
cancelled flush, or a crash.

### Retrieval

A request takes the legacy path (`Channel` per search, `Fuse`,
`BackfillNext`, `Order`, `Inject`, `CountHits`, `Return`) or a pipeline (`Select`, `Fork` into a group of
parallel stages, `RunStage`, `Join`, `Sequential` stages, `EndGroups`).  A stage
maps the candidates as the code does: fusion by ranks, merging by structure,
filters by a share of the best score, reranking by the graph or by overlap.
`Rewrite` goes through the tiers of a text search that found too little, and
`EndGroups` goes on to another pipeline when one found nothing.  `Again` is the retry
of the legacy path with looser filters; `outer` holds the answer it is compared with.
`Ranked` reranks, weights, sorts, and drops what has expired by then and what is of
another class than was asked for (`Passes`).  `Ask` and `Told` are the call of the language model
behind the breaker (the stage of `rerank_llm.go`, which a pipeline may hold and no
process of the repository wires today).  Scores are integers, in parts of `Unit`, that keep the
order and the thresholds; what the floating-point numbers leave open is decided
by the number of the memory.  The hits of a search are a set, and its answer is the
`Best` of it: the first of the one `Line` in which each is better than the next.

### McpSessions

A connection is a stream, a session and a peer: a host, a hook, or stdio.
`Check`, `Open`, `Forward`, `EndStream`, `Release` are `handleSSE`; `Accept` and
`Return` are `handleMessages`, between which the goroutine it starts runs
`Begin`, `Execute` and `Send`.  `Accept` refuses a request whose session is not
registered (404), and may reject any: the limiter wraps every handler (429,
`rateLimitWrap`), and a body may be too long or unreadable (400).  `own` is the scope
the call was given, which `Begin` reads without a lock (`Torn` when it races with a write).  The client is
`Connect`, `HookCall`, `PostDone`, `Receive`, `GiveUp`; `Script` is what each
hook asks for.

`CallService` is what all this amounts to for whoever makes a call.  A call is asked,
refused, rejected or started, answered or silent, told or lost; a session is open,
closing or gone, and only goes on in that order.  A call may be rejected unread at any
time (429, 400); only a session that is over refuses calls (404) and loses answers, an
answer is told once and with its outcome, and a client returns with the answer to its
last call.  The refinement mapping reads it off: a call is *answered* from
when its goroutine has an outcome until the outcome leaves the channel (`Phase`,
`Queued`), *told* when it has reached the client, *lost* when it was sent and is in
neither place; a session is *closing* when its channel is closed, *gone* when the stream
is.

## The runs

| Run | Instance | Distinct states | Shows |
|---|---|---|---|
| `queue_safety` | 2 workers, 2 tasks (one without a handler), 2 retries, overruns | 96 548 | retries, verdicts and exclusivity under late reports, errors and crashes; every task settles: `ExhaustedNeverOffered`, `ExclusiveUnlessOverrun`, `SettledUndoneOnlyByOverrun`, `EveryTaskSettles` |
| `queue_lease` | 3 workers, 2 tasks, 2 seconds, no overruns | 189 594 | `TaskQueue` implements `RetryQueue`: `ImplementsRetryQueue` |
| `session_safety` | 2 callers on one key with 1 repairer, or 2 repairers; 1 host with every target, faults, 2 repair attempts | 2 836 360 | one execution per key; abandoned only after the attempts: `OneExecutionPerKey`, `AbandonedOnlyAfterAttempts` |
| `session_races` | 2 callers, 2 keys, 1 repairer, 1 host, no faults | 88 013 | at rest, a finalized session has its marker; every active session settles: `MarkerAtRest`, `SessionSettles` |
| `memory_safety` | memories: 2 memories, 2 contents, 2 processes, vector dedup, faults; counts: the same with 1 context; schema: 2 processes with different tokenizers on a new file, on one of versions 4, 9, 13, 15, 18, 21, 22, 27, or on one with a marker whose session is gone; 3 memories, a link that V15 refuses, 2 mishaps | 1 205 015 | unique hashes, searchability, no stale words, no resurrection; counts never below the live memories; a database opens again after whatever happened, its version tells its schema, its rows and words survive: `UniqueHash`, `LiveIsSearchable`, `NoStaleWords`, `NeverUndercounts`, `AlwaysOpens`, `VersionTellsSchema`, `RowsSurvive`, `LiveIsIndexed`, `DeletedStaysDeleted` |
| `lifecycle_safety` | 3 memories, 2 facts, six pairs of jobs (consolidation beside update, reinforcement or another consolidation; heartbeat beside update or reinforcement; update beside reinforcement), vector dedup, merged texts that are stored already, crashes | 698 987 | no fact lost but by the named ways, standing earned: `FactsKept`, `StandingIsEarned` |
| `document_safety` | 1 document, 2 files, reprocess and delete, with timeouts or with panics, failing steps and crashes; 2 documents, 1 slot, with deletions, or with all faults and timeouts | 590 581 | ready is complete, deleted stays gone, every document gets its slot, ends, and settles: `ReadyIsComplete`, `DeletedStaysGone`, `EveryDocumentSettles` |
| `knowledge_safety` | graph: 2 memories in 2 scopes, 3 names, 2 entities, 2 processes in eight combinations of duties, crashes; tree: 3 contexts, 2 names, 1 editor, 1 mover | 922 167 | links and relations say what memories say and stay in their scope; paths and depths agree with parents: `LinksAreMentions`, `RelationsAreGrounded`, `LinksStayInScope`, `PathsFollowParents`, `DepthIsPathLength` |
| `server_safety` | 2 processes, 2 memories, buffer and chunks of 1, seven combinations of jobs, two of them with a memory that is blank or that the embedder refuses, two mishaps | 149 852 | counts never exceed hits and arrive; every memory gets its vector; a stop ends: `NeverOvercounts`, `ShutdownEnds`, `EveryMemoryVectorized`, `HitsReachTheStore` |
| `retrieval_safety` | 3 memories, 2 entities, 23 cases of wiring, pipeline and store; in three of them two requests on one breaker | 149 385 | answers were there, what matches is answered, the breaker trips, requests end: `AnswersWereThere`, `MatchIsAnswered`, `BreakerTrips`, `RequestsEnd` |
| `mcp_sessions` | 2 connections; a host, stdio, or two hooks; 1 slot, a channel of 1, faults, requests refused for their number or their body | 633 670 | `McpSessions` implements `CallService`; no answer is lost silently; scopes are current; streams end: `NoSilentLoss`, `ScopeIsCurrent`, `StreamsEnd`, `ImplementsCalls` |
| `mcp_fallback` | one hook | - | *violation*, see Findings |

Why these bounds are enough to mean something.

* *Workers, callers, processes: two, or three.*  Every hazard here is between
  two actors that act on one row.  `queue_lease` has three workers, so that one
  may die, one take over and one interfere.
* *Tasks: two*, so that `Oldest` has something to choose and a task without a
  handler competes with one that has it.
* *Retries and repair attempts: two*, so that there is a first, a last and a
  step in between.  `Parties` says who takes part in a behaviour: two callers beside
  one repairer, or two repairers, which list one row, count from it and share the key
  of a second.  Either is checked whole; all four at once would be more than
  seventeen million states, and are in the theorems.
* *`MaxSecond`* bounds `created_at` to two distinct values (one in
  `queue_safety`, where the order among tasks does not matter).
* *Contents: two*, one that equals another memory's and one that differs.
* *`MaxCount`* = 2 keeps memories from changing context for ever where they
  move; `memory_count` can drift upwards without bound (see Findings).
* *Lifecycle: three memories*, two sources and the memory they merge into, or a
  third party; *two facts*, so that a merged text differs from each source;
  `MinReinforce` = 2 and up to two reinforcements, so that one is not enough and two
  are; a heartbeat lists one memory at a time (`MaxBatch`).  Two consolidators over
  four memories, sharing sources, are in `Lifecycle_overlap` (603 152 states,
  passes), kept beside the runs, and in the theorem.
* *Versions* of the schema: one before and one after each change that a row or
  another migration can feel.  Versions 1 to 3 are under Findings.
* *Duties* in the graph: each pair of jobs that write one table between them;
  `MinHits` = 1 and `MinMentions` = 2, so that a candidate is promoted and a
  relation can be short of mentions; one queued task at a time.
* *Contexts: three*, a parent, a child and what is moved under it; paths of up
  to 5 names leave room for moves in a row.  The run looks no further once a
  request has written what it read before another wrote (`Undisturbed`): what
  comes then is under Findings, and in the theorem on depths.
* *Buffer, chunk and channel of one*, so that each overflows at the second entry.
  Two mishaps per behaviour (a failed statement, a crash, a signal), so that one
  follows on another; that they end is what the liveness properties need.
* *Memories in a search: three*, one that matches the text, one that is near it,
  one that is linked to its entities; thresholds of 2 in the breaker.
* *Calls of a host: two to four*, enough for a call to be answered, one to run
  and one to wait, with a channel of one.
* *`attempts`, `rounds`, `execs`, `summaries`* are history counters that
  saturate one or two above the value the properties compare them with.
* *One manual run and one delete request per document*: a second would start
  from the states the first leaves, which the run explores with the first.

Deadlock is checked in the queue and session runs.  The others say
`CHECK_DEADLOCK FALSE`: when all memories are purged, all documents went through
their requests, all requests are answered, or the bounds on mishaps and calls are
used up, nothing is left to do.

Some invariants are in the modules and hold in these instances, but are not
listed in the runs, because a theorem states them (`TypeOK` and `IInv` of the
modules with proofs, `SchemaInv`, `OpenInv`, `UpMeansFinal`, `SearchInv`) or because they say
less than those that are: `TypeOK` of the other modules, `DoneOnce` of `Background`, and
`SearchTypeOK`, `NoDuplicates`, `MergedAreFresh` and `EmptyMeansNothing` of `Retrieval`.  To check
one, add it to the `INVARIANTS` of the configuration.

### The properties that took thought

* `ExhaustedNeverOffered`, and with it the theorems on
  `FailedOnlyAfterAllAttempts` and `RetryOvershootBounded`: `Fail` increments
  whatever is in the row, so after an overrun two workers charge one task.  The
  task is still never charged for an execution it did not have, and the count
  overshoots by no more than the claims in flight.
* `SettledUndoneOnlyByOverrun`: the precise condition under which a completed
  task comes back.
* `BoundMeansMarked` (a theorem): no crash, retry or failing statement leaves an
  idempotency key that says "done" over a session that never was.
* `AbandonedOnlyAfterAttempts`: the lost updates of `repair_attempts` by two
  repairers only err on the patient side.
* `LiveIsSearchable` under restorations and late whole-row writes, and
  `DeletedStaysDeleted`: an `Update` that read a memory before it was deleted
  writes the whole row afterwards, but never `deleted_at`.
* `NeverUndercounts`: a sum over the count, the
  increments to come and the decrements to come.  It fails if two deletions of one
  memory both get through.
* `VersionTellsSchema` and `RowsSurvive`: a process that read version 9 runs
  `V10` .. `V28` over a file that another has at 28, and each of those must find
  what it makes and leave alone what is newer.
* `FactsKept`: two consolidations may share a source, clients may edit or restore a
  source in between, and each consolidation writes and deletes sources one by one.
  The difficulty was to say which facts the code may lose.  It loses what an update
  adds while a consolidation, an excerpt or another update holds the old row, and what
  Create answers with a memory that does not say it (`EveryFactKept`, under Findings);
  and no others,
  because a merge takes over all that its sources say before any of them is deleted.
* `StandingIsEarned`: five kinds of job write whole copies back.  They can undo
  what a memory earned (see Findings), but cannot grant it.
* `ReadyIsComplete`: which writes of a run may fail without the document being
  marked.
* `LinksAreMentions`: a batch is asked, split, and asked again; the answers are
  numbered, and numbers must come back to the memories they are about, while the
  entities they name are renamed, merged and deleted.
* `LinksStayInScope`: names are looked up in the scope of the memory, and a
  backfill looks them up in none.
* `PathsFollowParents`: `MoveRows` rewrites a subtree that it finds by the paths,
  next to deletions that leave orphans with the paths of contexts that are gone,
  and to new contexts with these paths.
* `EveryMemoryVectorized`: through truncated queue files, chunks that fail, stops
  and another process on the file, because an absent or empty queue leads to a
  scan at last.
* `NeverOvercounts`: hits in a channel, in a flush and in the store, over stops
  and crashes.
* `MatchIsAnswered`: fusion, weights, the retry with looser filters and what ends
  meanwhile may reorder an answer of the legacy path; they lose no match.
* `ImplementsCalls`: a client that gave up on a call gets its answer during the
  next one (`SyncAnswersItsCall`, which it implies); an answer is in the channel while the
  stream ends, and while another goroutine finds the channel full.
* `NoSilentLoss`: the channel is full, is closed, or its reader leaves, in any
  order with the goroutines that still answer.

## Fairness

* `TaskQueue!FairSpec`: weak fairness of each worker's `RunOnce` (the scheduler
  ticks it every poll interval, `scheduler/scheduler.go:89-126`; a handler
  makes a few LLM requests, each of which the HTTP client ends after 180 s,
  `llm/openai.go:30`), of `Restart`
  (deployments restart a dead process) and of `Age` (time passes).  Not of
  faults; and `EveryTaskSettles` assumes that faults that undo something
  eventually stop, for the database gives no better guarantee.
* `SessionFinalize!FairSpec`: runs and repair rounds progress, hosts write what
  they validated, time passes.  Nobody is obliged to call Finalize:
  `SessionSettles` holds because the repairer picks a silent session up.
  It assumes the hosts leave the session alone in the end.
* `DocumentPipeline!FairSpec`: a goroutine that can run runs; one blocked on the
  semaphore's channel gets the slot (blocked senders are served in order).
* `Background!FairSpec`: each ticker ticks, and a job that was started goes on
  (weak fairness).  Of the end of a ticker's loop it is strong fairness: when a
  tick and the end of the context are both ready, Go's `select` chooses at random
  (`scheduler/scheduler.go:96-101`), so the end is taken at last.  A process that
  is down is started again; signals, failures and crashes are not fair, and their
  number is bounded.  The manager writes the vectors it has begun.
* `Retrieval!FairSearchSpec`: a request goes on: searches return or fail, stages and
  calls have time limits.
* `McpSessions!FairSpec`: only of the handler of a stream, which forwards, ends
  and releases.  Nothing is assumed of tools, clients or hooks.
* `MemoryStore`, `Lifecycle`, `KnowledgeGraph`, `ContextTree` and `Migrations` have
  no liveness property: nothing retries the best-effort steps, no job is obliged to
  find a row worth merging, raising, deleting or promoting, and a client is not
  obliged to move anything.

## Findings

Where a document, comment or test of the repository says one thing and the code
does another, or where something that one would expect fails.  One is a listed
run; the others are kept in the `_findings` configurations and their companions,
each of which lists several properties.  TLC stops at the first, so keep one of
them to see its counterexample; each ends in one.

| Configuration | Property | What is said | What the code does |
|---|---|---|---|
| `McpSessions_fallback` (run `mcp_fallback`) | `FallbackOnFailure` | `cmd/cli/hook_session_stop.go:73`: fallback to retain the summary on finalize failure | `CallTool` returns when the request was accepted, so a finalize that fails in the server is not seen |
| `McpSessions_findings` | `AcceptedCallsRun` | `mcp/server.go:185`: dispatched asynchronously, the response is delivered via SSE | the handler's deferred `cancel` (line 187) ends the context of the call it has just started |
| | `StreamStaysOpen` | `mcp/client/client.go:69`: keeps the stream open for sync responses | the deferred `cancel` of `Connect` (line 72) ends the stream's request |
| | `InitializedOnce` | `mcp/session.go:161`: "already initialized" | the flag is read and set in separate steps: two calls are both answered |
| | `ScopeIsWhole` | - | `projectScope` is written by a tool and read by `Dispatch` (`mcp/session.go:112`) without a lock |
| | `AtMostMaxConns` | `mcp/server.go:93`: at most 100 connections | the count is loaded and incremented separately |
| `TaskQueue_findings` | `CompletedNeverPolledAgain` | `testing/queue/queue_test.go:77`: "Completed task should not be polled again" | a late `Fail` reopens it (`queue/queue.go:206`) |
| | `RetriesWithinMax` | `queue/queue.go:26`: "Maximum number of retries allowed" | `ResetStale` does not count (`queue/queue.go:226`): a task that kills its worker is retried for ever |
| `SessionFinalize_findings` | `FinalizedIsTerminal` | `docs/superpowers/specs/2026-04-03-adapter-runtime-design.md:338`: `finalized` is an idempotent terminal state | `UpdateState` has no condition: a run or host that read an earlier state writes over it |
| | `OnlyAllowedTransitions` | the same document, lines 328-332, "Allowed Transitions" | read, check and write are three statements, and Finalize does not check |
| | `FinalizedReportedTruthfully` | line 531: the response says whether finalize succeeded | a key reserved by a run still under way, or dead, is answered `Finalized: true` |
| | `OneSummary` | line 532: finalizing again must not generate another summary | two keys (tool and hook, or repair) generate two |
| `SessionFinalize_stuck` | `FinalizingEnds` | line 322: what did not complete is `pending_repair`, to be repaired | `ListPendingFinalize` (`store/sqlite_session.go:118`) does not list `finalizing` |
| `MemoryStore_findings` | `DedupFindsSameContent` | `model/memory.go:98`: content_hash is the "SHA-256 of normalized content" | `Update` rewrites the content and not the hash (`store/sqlite_memory_write.go:218`), so a later Create of the old text is answered with a memory of the new one |
| | `CountMaintained` | `docs/开发文档.md:209`: soft deletion and restoration maintain `memory_count` | they do not touch it (`memory/manager_lifecycle.go:16`) |
| | `DuplicateNotRefused` | `testing/report/dedup_test.go:22`: writing the same content reinforces | of two concurrent writes one is refused by the unique index (`memory/manager.go:111`) |
| | `RestoreNotRefused` | `docs/superpowers/specs/2026-03-21-openclaw-memory-improvements-design.md:306-308`: Restore merges on a hash conflict | it fails on the unique index (`store/sqlite_memory_lifecycle.go:241`) |
| | `NoStaleWords` | `store/sqlite_memory_write.go:213`: the old FTS5 row is deleted | the deletion passes unsegmented text, which does not match what was indexed |
| | `DedupFindsLiveMemory` | `memory/dedup.go:20`: the memory returned exists | vectors of soft-deleted memories stay (`memory/dedup.go:68`) |
| | `IndexIsTokenized` | `store/sqlite_migration.go:37`: the tokenizer is for the rebuilding of FTS5 from V4 on | V14 rebuilds the index from the raw rows |
| | `OldReleaseOpens` | `store/sqlite_migration_v0_v4.go:78`: `schema_version` may be missing when an old release is upgraded | without it the version is 0, and the fresh schema fails on the tables that are there |
| | `FreshIsLatest` | `store/sqlite_migration.go:58` logs that the fresh schema was created at the latest version, 28 | it records 27 (`store/sqlite_schema.go:486`), and the next start migrates it |
| | `RelationsFit` | `store/interfaces.go:273`: a relation is upserted, its first `source_memory_id` kept | no migration and no fresh schema makes that column of `entity_relations`, which every statement on relations names (`store/sqlite_graph.go:210`, 585) |
| | `LinksSurvive` | `store/sqlite_migration_v12_v16.go:133`: foreign keys and `CHECK`s for the tables of links | the rows that the `CHECK`s forbid are ignored by the copy and go with the old table (lines 61-72, 96-111) |
| | `MarkersSurvive` | `store/sqlite_migration_v21_v25.go:12`: the tables of sessions are built anew with foreign keys | one marker whose session is gone fails the copy of all of them; it is only warned of, and the old table dropped (lines 34-43) |
| | `AlwaysOpens`, of older files | - | with a link to a memory that is gone, V15 fails at every start; V2 run again by a process that read version 1 adds columns that V14 then cannot rename to |
| | `NobodyFails` | - | two processes that start on a new file: one fails |
| `Lifecycle_findings` | `EveryFactKept` | `memory/consolidation.go:222`: "Preserve all unique facts"; the openclaw design above, line 719: create the merged memory, then delete the sources | an update made while a consolidation holds the memory is written over by its old copy, or deleted with it; one that arrives after the deletion succeeds unseen; `Create` (line 282) may answer the merged text with a source, which is then deleted with the others, or any text with a memory that does not say it |
| | `SourcesTraceable` | the same design, lines 705 and 714: `consolidated_into` leads back to the sources | `Update` does not write that column (`store/sqlite_memory_write.go:218`) |
| | `EveryReinforcementCounts` | `memory/manager_lifecycle.go:47`: Reinforce increases `reinforced_count` | a whole-row write of an earlier copy undoes it (line 81) |
| | `AuditSparesReinforced` | `heartbeat/decay_audit.go:16`: memories with `reinforceCount=0` | the deletion (line 48) does not look again at what was listed |
| `Lifecycle_standing` | `PermanentStays` | `docs/术语表.md:28`: permanent memories do not expire | raising a tier keeps `expires_at` (`memory/manager_update.go:108`, `manager_lifecycle.go:79`) |
| | `RoundsGoOn` | `docs/superpowers/specs/2026-05-02-memory-tier-lifecycle-design.md:62-75`: a round promotes tiers | `List` with no identity panics (`heartbeat/engine.go:195`), and the scheduler does not recover |
| `DocumentPipeline_findings` | `ProcessingEndsSettled` | `docs/superpowers/specs/2026-03-29-document-ingestion-design.md:354`: a timeout marks the document failed; 319-321: processing ends ready or failed | the failure is written under the context that has just expired (`document/processor.go:145`); and when the hash of the text conflicts with another document's, the last write fails and is logged (lines 241-244) |
| | `NoOrphanChunks` | the same, 259: deletion cleans up the chunks | a run in progress goes on creating them (`document/processor.go:337`) |
| | `UploadDeduplicated` | the same, 292: the same file in the same scope returns the existing document | processing replaces the hash of the file by the hash of its text (`document/processor.go:175`) |
| `Knowledge_graph` | `OneRowPerPair` | - | a pair that occurs together is related by its ids in the order they were found; two memories can relate it both ways |
| | `MentionsKept` | - | a promotion deletes the candidate with the memories added since it was listed (`heartbeat/candidate_promotion.go:48`) |
| | `PurgeSparesLinked` | `store/sqlite_graph.go:641`: purges what was deleted long ago | an entity that was linked after its soft deletion goes with its links |
| | `LiveKeepsLinks` | `heartbeat/orphan_cleanup.go:12`: removes links of deleted memories | a memory that is restored after it was looked at loses its link |
| | `PromotesStanding` | - | two heartbeats promote what both have listed: two entities of one name |
| `Knowledge_orphans` | `OrphansAreCleaned` | `heartbeat/orphan_cleanup.go:12-13`: finds the links of soft-deleted memories and removes them | it lists the memories of an entity that are not deleted (`store/sqlite_graph.go:388`), so it finds none |
| `Knowledge_contexts` | `NoContextBelowItself` | `memory/context_manager.go:126`: no circular references | the check is before the transaction: two moves put two contexts under each other |
| | `EveryConversationAccepted` | `memory/manager_lifecycle.go:127`: resolve or create the context of a conversation | it only creates: the second conversation of a provider in a store meets the path of the first |
| | `MoveIsLocal` | - | `LIKE` ignores case (`store/sqlite_context.go:238`): a move of `a` changes what is below `A` |
| `Background_findings` | `VectorsAreFound` | `store/qdrant.go:63`: the caller fills in owner and visibility | the backfill passes the id only (`maintenance/bulk_vectorize.go:179`): such a vector is private to nobody and never found |
| | `PayloadStays` | - | it replaces the vector that the manager wrote after the check |
| | `NoVectorOfDeleted` | - | the contents of deleted memories are loaded and embedded too |
| | `StopsKeepCounts` | - | a stop does no last flush, and a flush under way loses what it has drained |
| `Retrieval_findings` | `OneProbe` | `search/circuit_breaker.go:14`: half-open, one probe is allowed | in that state every request passes (`search/stage/circuit_breaker.go:43`) |
| | `CountedOnce` | - | the retry, a whole `Retrieve`, counts its own hits (`search/retriever.go:656`), whichever answer is used |
| | `NoneExpired` | `search/stage/merge.go:157`: expired candidates are filtered | the pipelines without that stage (`association`, `aggregation`, `fast`) do not; the legacy path does, when it ranks (`search/retriever.go:620`) |
| | `AnswersAreFull` | - | `semantic` can answer with what only the vectors found, an id without contents |
| | `CoreIncluded` | `search/retriever.go:662`: core memories are added by default | an empty answer of the legacy path returns before; no process calls `SetCoreProvider` |

More of the same kind, seen while modelling and not stated as properties: a text
that the embedder refuses holds up the whole backfill behind it; the unique index of V10 is
skipped in silence when there are duplicates; V6, run again over version 28, takes
the privacy of memories without an owner; the client never sends `initialize`, so
the tool calls of hooks are rejected by the session; `req.Limit` and the memory
class asked for are ignored in pipelines; no process calls `InitPipeline`, so that
servers take the legacy path.

## Proofs

Everything below is checked by tlapm for all values of the constants that
satisfy the modules' named assumptions (finite sets of workers, at least one
retry, a null value outside the sets, flags that are Boolean).

**TaskQueueProofs.**  The safety properties are not inductive: why a failed task
had all its attempts depends on every claim that is still in flight.  `IInv`
adds two ledgers.  `RetryBudget`: retries plus holders stay under `MaxRetries` +
number of workers, so a `Fail` in flight is paid for when it lands.
`AttemptAccounting`: retries plus holders never exceed executions begun (unless
the history counter is saturated).  Both are sums over the cardinality of
`Holders(t)`, so the proof rests on lemmas of how a step changes that set by one
element.  From `Invariance` follow `NeverOfferedAgain`,
`GivenUpOnlyAfterAllAttempts`, `OvershootBounded`, `Exclusive` and the action
property `VerdictsUndoneOnlyByOverrun`.  `QueueImplementsPromise` proves
`~HandlerOverruns => (Spec => Promise!Spec)`: with `LeaseInv` (no claim is ever
taken from a live worker) every step maps to a step of `RetryQueue` or to a
stutter.

**SessionFinalizeProofs.**  `KeyAccounting`: a run past `Reserve` holds its key,
and until it executes it is alone on that key, which nobody has executed.
`MarkAccounting`: a run past `MarkFinalized` has marked.  `RoundAccounting`:
nobody, the rows that repairers hold copies of included, believes in more
attempts than there were rounds.  From these: `KeysExecuteOnce`,
`BoundKeysAreMarked`, `AbandonedAfterAttempts`.  `FinalizedIsMarked` is about the
one state that matters to readers, finalized with its marker.  A summary that fails
takes away the marker also when another run wrote it; but the runs that have it
before them are still there.  `MarkerPending` says so: while the marker is not
there, either the session is not finalized and nobody is about to close it, or a
run is at the step that writes it.  It needs `Undisturbed`: no faults, and no host
that asks for the state `finalized` itself.  With either, the code leaves finalized
sessions without a marker (Findings).

**MemoryStoreProofs.**  `JobsHold` types the local variables by program counter;
`IndexHoldsRows` says the index holds nothing but the present words of existing
rows, deleted ones included, which is what makes restoration and late whole-row
writes harmless.  From `Invariance`: `HashesUnique`, `EveryLiveMemorySearchable`,
`NoOldWords` (for a tokenizer that does not segment) and the action property
`DeletionsLast`.  `CountsNeverBehind` proves `NeverUndercounts`, which the run checks where counts are
in its focus, under `Undisturbed`: no faults, no moves and no
restores, which the code does not count (Findings), and finitely many memories and
processes.  The account is a comparison of cardinalities: live memories of a context
and decrements to come are at most the count and the increments to come.  What makes
it inductive is `HeldAsStored`: a request that is past its insertion holds the
context that the row has, so that the one who deletes the row takes off what was
added for it.  A step moves at most one process and one memory between these sets
(`Others`, `Settled`, `NoneNew`).

The second part of the module is about `Migrations`, for any number of processes,
with any tokenizers, that crash and lose transactions as they like.  Its assumptions
are on the files that may be found: `FilesFit`, that hashes and words agree with rows,
and `FilesOpen`, that a file is new or was made by a release from version 4 on, with no
link to a memory that is gone, unless V15 ignores it anyway (Findings has the
files that are not so).  `VersionsAssumption` has TLC evaluate both for the files of
the run, the one with odd links and the one with an orphan marker included.

* `SchemaInv` is about rows: what migrations never take away (`Lasting`: every memory,
  the links that the `CHECK`s of V15 allow, and the markers, if none is without its
  session), and that a process counts only versions that were recorded.  Each migration, whether it runs
  for the first time or again, *carries* rows; so does the fresh schema and the
  rebuilding of the index.  From it: `RowsLast`, `LiveStaysIndexed`.
* `OpenInv` is about the schema: the version recorded tells what there is, and nothing
  in the file stops what is left.  `Released` and `Through` are recursive functions
  over versions; `ChainExists` shows for any chain of migrations that the function is
  there, by the least version at which it would not be, and `Grows` that each
  migration adds to what it is given (`AtLeast`) and what no release had before it
  is not there yet (`AtMost`).  `OnTop` is the heart: a migration of an old version,
  run over a newer schema by a process that read the version long ago, either fails
  and leaves the file alone or adds what is there already.  From it: `VersionTells`,
  `FilesAlwaysOpen`, and `UpIsFinal`, which says that whoever is up has the schema of
  the last migration, also while another process still migrates, and also when the
  file is a fresh one, which says 27: what V28 makes is in it already.  It is not the
  schema that all statements are written for (`RelationsFit`, under Findings).

**KnowledgeProofs, contexts.**  `DepthIsPathLength` holds for any contexts, names and
requests, also after stale moves and cycles, provided that no two names differ in
their case only (`CaseMatters`); without that a move finds rows which it does not
shorten (`LikeIsBelow` is the lemma that needs it).  `TreeInv` adds that what a
request has read of a parent is as deep as its path, since it is written later.
`TrimmedLength` says how a move changes the length of each path, and `Moved` is
proved row by row.

`PathsFollow` is the theorem on parents: as long as no request has written over what
it had read, a path is the path of the parent and one name more.  `PathAccounting`
adds what this needs: live paths are distinct and not empty, parents are never rows
that have not been used yet, and what a move under way has read was not circular.  A
move rewrites exactly what is below the old path; a row whose parent is rewritten is
itself below it, because its path leads through the parent, and a row whose parent
stays stays, because distinct paths leave only the moved context between them.
`NoTwoBelowEachOther` follows: two paths cannot each be the longer one.
`MovesAreLocal` is the action property `MoveIsLocal`, stale reads or not.  All of these
assume `CaseMatters`, and `MovesAreLocal` says nothing without it: with two names that
differ in their case only, the code does not have the property (Findings).

**KnowledgeProofs, graph.**  Between two statements a job keeps names and identifiers,
often over a call of a language model, while others rename, promote, purge and
delete.  `HoldsAt(l, j)` says for each label what the job must hold: that the names
are ones the text mentions, that an identifier is of an entity *called* one of
them (`Fits`), that a pair is mentioned together (`Grounded`).  The argument is in
two parts.  First, no step takes anything away from what others hold
(`EntitiesKeep`): an entity that was there is never free again, keeps whatever it
was called, and its scope as long as it has a row; so `FitsStays`, `GroundedStays` and
`JobsStay` carry every other job, task and candidate over every step, once and for
all.  Second, each step of a job leaves that job with what its next label asks for,
one lemma per action.  From `Invariance`, for any number of memories, entities, jobs
of any kinds, with crashes and clients: `LinksFollowTexts`, `RelationsFollowTexts`,
`LinksKeepScope`.  The assumption is `Parameters`, which says what the constants are;
the run evaluates it.

**DocumentPipelineProofs.**  That a document reads ready says nothing of its
chunks by itself: a run writes `ready` long after it stored them, and chunks are
shared by content.  `IInv` therefore accounts for the chunks of every run's text
(`Accounted`): each is still to do, or was missed, or is stored, as long as nobody
deletes (`Quiet`).  A run that finishes has nothing to do, and if it missed
nothing, all is stored.  What other steps must not do is said once: make nothing
ready (`NoNewReady`), remove no chunk (`ChunksStay`); `ReadyKept` and `AccountKept`
follow.  From `Invariance`: `TypeOK`, `ReadyIsComplete`, and, with `RowsSafe` (a
statement finds no row to write to where none is), the action property
`DeletedStaysGone`.

**McpSessionsProofs.**  `NoSilentLoss` is close to inductive: `KeepsTold` says that
an answer which is with the client or on its way stays so, or the session ends,
and only `Forward` and `Send` need an argument of their own.  `ScopeIsCurrent` is
not: `InTime` adds that a call which has not read the scope may still see the one
the session has now, and that a request which has not been accepted runs nothing.
From `Invariance`: `NoSilentLoss`, `SyncAnswersItsCall`, `ScopeIsCurrent`, for any
channel size and any number of streams, also those above the limit.

`ServerKeepsPromise` says that every step of `McpSessions` is a step of `CallService` or
a stutter.  It needs `ServiceInv`, which TLC checked first: an answer waits in one
place, with the outcome of its call (`AnswersOK`), so that what leaves the channel is
told or lost once; a client has only answers that have left it (`ArrivedOK`), so that
it returns with one that was told; clients connect before they call, and a stream that is
over has its session closed (`PeersOK`), so that an open session refuses nothing: it may
reject a request unread, which `CallService` allows at any time (`Reject`).  Each
step then has its lemma: a request's moves its own call (`RunRefines`) by what `Becomes`
says of it; `Send` and `Forward` tell, lose or queue one answer (`SendRefines`,
`ForwardRefines`), and what is known of all other calls stays (`ViewKept`).

**LifecycleProofs.**  Nothing is assumed of how jobs overlap, of what clients write,
nor of what creations are answered with (`Repeats` and `VectorDedup` are either).
The invariant is taken apart in four.

* `Sound(m, r)` says that row `r` may be given to memory `m`: the decay rate of its
  tier, or one that a client gave, no more reinforcements than `m` had, no tier
  that `m` neither earned nor was asked to have.  Every row is sound, and so is every
  copy a job holds; copies stay sound because rows only *grow* (`Grows`:
  reinforcements and tiers asked for are never taken back), so one lemma per store
  operation covers every job that calls it.
* Of the facts, `FactsKept` alone is not inductive, since a job deletes its sources one
  by one: `FactsSafe` says that each fact that must be kept (`Kept`) is in a live memory
  that is no source of any job past its merge (`Doomed`).
* What a copy says may be out of date, since clients edit texts.  `CopyOK` says that it
  is so of nothing that must be kept: of those facts a copy says what its row says,
  and that of an update perhaps more.
* It stays so because every step is *steady* (`Steady`, `TextsAgree`): of the facts that
  must still be kept afterwards, a row says what it said before, unless it is a new one.
  This is where `risked` comes in: an update that would make another job's copy
  wrong takes the facts that it adds out of the account, and an update takes the facts
  that it removes out when it reads.

From `Invariance`: `RatesFollowTiers`, `StandingEarned` and `FactsStay`, for any number
of overlapping consolidations and updates.

**ServerProofs, jobs.**  `NeverOvercounts` says that a memory's access count is never
above the hits it had.  The invariant `IInv` is an account of each hit: what is
counted, what every flush holds and what is queued in every process make together no
more than was tracked (`TotalChanges`, `FlightChanges`).  A step moves a hit from one
place to the next, or loses it: a full buffer, a crash, a statement that fails, a flush
that a stop cancels.
The places are counted by sums over finite sets, `SumFunctionOnSet` of the community
modules; their laws (`SumAny`, `SumChanges`, `SumIsNat`) come first in the module.
They need induction over finite sets, which is had without an operator as a parameter:
the claim is turned into the set of those subsets it holds for, and of the subsets it
does not hold for one is least (`LeastSet`, from the library's theorem that finite
sets are well founded).  `BuffersHold` is the bound of the channel.

**ServerProofs, searches.**  `AnswersWereThere`, `MatchIsAnswered` and `BreakerTrips`,
for any number of requests, memories and cases.  An answer goes through lists that
are fused, filled in, scored again, filtered, sorted and put together, so the proof
has two parts.

* What lists are.  `Line(H)` exists (`LineExists`), since whoever has n better hits is
  the one in place n + 1, and holds all of `H` once (`LineIsList`).  `FirstIsList`,
  `ChainIsList`, `CutIsList` say the same of what the code cuts and joins.  From these
  come `FoundIs` for the five channels, `FusionIs` (whose scores are sums over
  channels, of the laws above), `FilledSuffices`, `RankedSuffices`, `CoreSuffices`.
* What a request holds.  `Suffices(r, s)`: no memory is twice in `s`, what has its
  contents was there when the request began, and if the limit has room for all
  memories, `s` has every memory that is still wanted.  `Follows(r)` says at which label
  of `retrieveLegacy` which list suffices, `outer` included.  While searches run it is
  the list of the text channel that must have what is wanted, from when that channel
  has ended; that others end in between, or find nothing, takes nothing from it
  (`ChannelStep`).  What ends or expires meanwhile is no longer wanted (`SufficesOn`),
  so that ranking may drop it; after that, `Current`, the answer has nothing,
  core memories apart, that had expired before the request began.

`SearchInv` is `Follows` for every request of the legacy path, and the state of the
breaker.  From `SearchInvariance`: `AnswersAreOfThere`, `AnswersAreApart`,
`MatchesAreAnswered` and `BreakerOpens`, which the steps of the pipelines also need
(`Ask`, `Told`).  `CasesAssumption` says what a case is: scores of every memory,
links, filters that the retry loosens and never tightens, and a breaker that starts
within its threshold.  The run evaluates it for its 23 cases.

Only model-checked: the liveness properties (proving them needs ENABLED), and what
the pipelines' candidates are (`MergedAreFresh`, `EmptyMeansNothing`, `NoDuplicates`
outside the legacy path).  Merging filters and sorts sequences, and the prover treats
`SelectSeq` and `SortSeq` as symbols it knows nothing of.

## What is not modelled

* Scoring, decay formulas, embeddings, similarity: floating-point numbers.
  Similarity is equality of content where a decision depends on it.
* Identity and authorisation: every request is by a client that may make it.
* Wording and layout: prompts, formatting, logging, JSON.
* SQLite's own locking: a transaction is atomic, or fails with BUSY where the
  code can observe that.
* `SessionService` operations without a caller outside tests: MarkIngested,
  ListUnfinalized, PurgeExpired.
* Strength, tags, derivations and conversations of a memory; images kept from a
  document.
* In MCP: events longer than the 64 KB that the client's scanner takes
  (`mcp/client/client.go:126`), an answer that cannot be marshalled
  (`mcp/session.go:272`), and bodies that are JSON but no request, which are answered
  with an error like any call that fails.
* In a search: memories created or restored while it runs.  They may be in its answer or
  not; nothing is claimed of them.
* The column `source_memory_id` of relations, which the schema lacks (`RelationsFit`):
  the graph is modelled as in a database that has it.
* Races of moves in the tree of contexts after the first write of what was stale: paths
  then may be wrong (`NoContextBelowItself`), and only depths are claimed, by a theorem.
* Moves, restorations and failing statements where contexts are counted, which the code
  does not count (`CountMaintained`).
* Contradiction checks, which only report; `memory/promoter.go`, which nothing
  wires.
* Centroids, weights and confidence in the graph, and which of several similar
  entities is chosen: any that the code may find.
* Diversity (MMR), hubs, result caches and the building of text queries in a
  search.
* The embedding cache: one lock, entries that never change; a lost race computes
  an embedding twice.  The language-model client and reflection: sequential loops
  without a state of their own, bounded by their limits.
* Tags, lineage and the noise filter: single statements that nothing else decides
  by.
* Benchmarks, the dashboard, and the commands of the command line that are one
  call.

`PROJECT.json` lists every component with its status.

## Plan

Done: the queue, the session runtime, the memory store and the document pipeline
(the components that lose or duplicate user data when they go wrong), the
lifecycle jobs, the tree of contexts, the graph, the processes and their background
jobs, retrieval, migrations, and MCP; proofs about all of these.

Left, in this order.

1. Compositions: the session's summary through `MemoryStore`; deletion of a
   document against consolidation of its chunks.
2. Pure algorithms against reference definitions: chunk boundaries, clustering,
   tier tables.
