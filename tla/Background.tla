------------------------------ MODULE Background ------------------------------
(***************************************************************************)
(* The life of the processes (cmd/server, cmd/mcp, bootstrap/) and of two  *)
(* of the jobs their schedulers run (scheduler/): the flush of access      *)
(* counts (memory/access_tracker.go), and the backfill of vectors, with    *)
(* its queue in a file (maintenance/).                                     *)
(*                                                                         *)
(* Each process has a scheduler and a buffer of its own; the database, the *)
(* vector store and the queue file are shared.  A memory is the number of  *)
(* its creation.  The backfill of entities has the same queue and the same *)
(* loop; what it finds is KnowledgeGraph's.                                *)
(***************************************************************************)
EXTENDS Integers, Sequences, SequencesExt, FiniteSets, FiniteSetsExt, Functions

CONSTANTS
    Proc,
    MaxMemory,   \* bound on the memories
    Plans,       \* which jobs each process has; what clients do: create, delete
                 \* or find, with how many memories, which of them white space
                 \* (blank) and which refused by the embedder (poison); a
                 \* choice, made at the start
    BufSize,     \* 10000 in the code
    ChunkSize,   \* 500 in the code
    Timeouts,    \* may the wait for the jobs time out?
    Faults,      \* may statements, the embedder, the vector store and
                 \* processes fail?
    MaxMishaps,  \* bound on failures, crashes and signals to stop
    MaxHits,     \* bound on the hits of a memory
    None

Memory == 1..MaxMemory
Job    == {"flush", "backfill"}

ASSUME ProcAssumption   == IsFiniteSet(Proc)
ASSUME PlansAssumption  ==
    Plans \subseteq [jobs : [Proc -> SUBSET Job], clients : SUBSET {"create", "delete", "find"},
                    most : Memory, blank : SUBSET Memory, poison : SUBSET Memory]
ASSUME SizeAssumption   == {BufSize, ChunkSize} \subseteq Nat \ {0}
ASSUME BoundAssumption  == {MaxMemory, MaxMishaps, MaxHits} \subseteq Nat
ASSUME FlagAssumption   == {Timeouts, Faults} \subseteq BOOLEAN

VARIABLES
    plan,     \* the jobs of the processes, and what clients do
    up,       \* each process: down, up or stopping, its context cancelled
    at,       \* each goroutine: where it is
    buf,      \* the channel of each AccessTracker, as a bag
    counts,   \* what a flush has taken from it
    work,     \* the local variables of each backfill
    file,     \* backfill_vector_queue.md: None, or the memories it lists
    mem,      \* table memories
    access,   \* their access_count
    vec,      \* the vector store: with the manager's payload, or without
    writing,  \* memories created, whose vector the manager has yet to write
    deleting, \* memories deleted, whose vector the manager has yet to delete
    hits,     \* history: what was found by searches
    embedded, \* history: how often a backfill embedded it
    lost,     \* history: the memories of which a hit was given up
    failed,   \* history: has a statement, a backfill or a process failed?
    mishaps   \* history: how many of them

stores  == <<file, mem, access, vec, writing, deleting>>
history == <<hits, embedded, lost, failed, mishaps>>
vars    == <<plan, up, at, buf, counts, work, stores, history>>

Zero    == [m \in Memory |-> 0]
Resting == [pending |-> <<>>, todo |-> <<>>, then |-> "waiting"]

Init ==
    /\ plan \in Plans
    /\ up = [p \in Proc |-> "down"]
    /\ at = [p \in Proc |-> [j \in Job |-> "unborn"]]
    /\ buf = [p \in Proc |-> Zero]
    /\ counts = [p \in Proc |-> Zero]
    /\ work = [p \in Proc |-> Resting]
    /\ file = None
    /\ mem = [m \in Memory |-> "none"]
    /\ access = Zero
    /\ vec = [m \in Memory |-> "none"]
    /\ writing = {} /\ deleting = {}
    /\ hits = Zero /\ embedded = Zero
    /\ lost = {}
    /\ failed = FALSE /\ mishaps = 0

Total(bag) == SumFunctionOnSet(bag, Memory)

Goto(p, j, l) == at' = [at EXCEPT ![p][j] = l]
Live          == {m \in Memory : mem[m] = "live"}
Running(p)    == up[p] # "down"
Cancelled(p)  == up[p] = "stopping"

------------------------------------------------------------------------------
(* The process: bootstrap.Init and main.                                    *)

Start(p) ==
    /\ up[p] = "down"
    /\ up' = [up EXCEPT ![p] = "up"]
    /\ UNCHANGED <<plan, at, buf, counts, work, stores, history>>

\* Scheduler.Run, in a goroutine of its own: one more for each job.
Launch(p) ==
    /\ Running(p)
    /\ \E j \in plan.jobs[p] : at[p][j] = "unborn"
    /\ at' = [at EXCEPT ![p] = [j \in Job |-> IF j \in plan.jobs[p] THEN "waiting" ELSE "unborn"]]
    /\ UNCHANGED <<plan, up, buf, counts, work, stores, history>>

\* A signal: the HTTP server is shut down, and the context cancelled.
Signal(p) ==
    /\ up[p] = "up" /\ mishaps < MaxMishaps
    /\ up' = [up EXCEPT ![p] = "stopping"]
    /\ mishaps' = mishaps + 1
    /\ UNCHANGED <<plan, at, buf, counts, work, stores, hits, embedded, lost, failed>>

\* What is in the buffer, or taken from it, ends with the process.
Ended(p) ==
    /\ up' = [up EXCEPT ![p] = "down"]
    /\ at' = [at EXCEPT ![p] = [j \in Job |-> "unborn"]]
    /\ buf' = [buf EXCEPT ![p] = Zero]
    /\ counts' = [counts EXCEPT ![p] = Zero]
    /\ work' = [work EXCEPT ![p] = Resting]
    /\ lost' = lost \cup {m \in Memory : buf[p][m] + counts[p][m] > 0}
    /\ UNCHANGED <<plan, stores, hits, embedded>>

\* Scheduler.Wait, Stores.Close, the end of main.  Jobs whose goroutines are
\* not there yet are not waited for.
Exit(p) ==
    /\ Cancelled(p)
    /\ \A j \in Job : at[p][j] \in {"unborn", "stopped"}
    /\ Ended(p)
    /\ UNCHANGED <<failed, mishaps>>

\* The wait lasts ten seconds at most.
ExitEarly(p) ==
    /\ Timeouts /\ Cancelled(p)
    /\ \E j \in Job : at[p][j] \notin {"unborn", "stopped"}
    /\ Ended(p)
    /\ failed' = TRUE
    /\ UNCHANGED mishaps

Crash(p) ==
    /\ Running(p) /\ Faults /\ mishaps < MaxMishaps
    /\ Ended(p)
    /\ failed' = TRUE
    /\ mishaps' = mishaps + 1

------------------------------------------------------------------------------
(* Scheduler.runTask.  When both are ready, select takes either the tick or *)
(* the end of the context.                                                  *)

Tick(p, j) ==
    /\ Running(p) /\ at[p][j] = "waiting"
    /\ Goto(p, j, IF j = "flush" THEN "drain" ELSE "load")
    /\ UNCHANGED <<plan, up, buf, counts, work, stores, history>>

StopTask(p, j) ==
    /\ Cancelled(p) /\ at[p][j] = "waiting"
    /\ Goto(p, j, "stopped")
    /\ UNCHANGED <<plan, up, buf, counts, work, stores, history>>

------------------------------------------------------------------------------
(* AccessTracker.                                                           *)

HasRoom(p) == Total(buf[p]) < BufSize

\* A search found the memory.  What the channel has no room for is dropped.
Track(p) ==
    \E m \in Live :
       /\ Running(p) /\ "find" \in plan.clients /\ "flush" \in plan.jobs[p] /\ hits[m] < MaxHits
       /\ hits' = [hits EXCEPT ![m] = @ + 1]
       /\ IF HasRoom(p)
          THEN buf' = [buf EXCEPT ![p][m] = @ + 1] /\ UNCHANGED lost
          ELSE lost' = lost \cup {m} /\ UNCHANGED buf
       /\ UNCHANGED <<plan, up, at, counts, work, stores, embedded, failed, mishaps>>

Taken(p, m) ==
    /\ counts' = [counts EXCEPT ![p][m] = @ + 1]
    /\ buf' = [buf EXCEPT ![p][m] = @ - 1]

\* Flush takes from the channel until it is empty.
Drain(p) ==
    /\ at[p]["flush"] = "drain"
    /\ \/ \E m \in Memory : buf[p][m] > 0 /\ Taken(p, m) /\ UNCHANGED at
       \/ buf[p] = Zero /\ Goto(p, "flush", "write") /\ UNCHANGED <<buf, counts>>
    /\ UNCHANGED <<plan, up, work, stores, history>>

Written_Kept(p, m) == counts

Written_All(p, m) == [counts EXCEPT ![p] = Zero]

\* A count that was written, or could not be, is done with.
Written(p, m) == [counts EXCEPT ![p][m] = 0]

\* IncrementAccessCount, for each: an UPDATE that a deleted row does not meet.
Counted(p, m) ==
    /\ ~Cancelled(p)
    /\ access' = IF m \in Live THEN [access EXCEPT ![m] = @ + counts[p][m]] ELSE access
    /\ UNCHANGED <<lost, failed, mishaps>>

\* The statement fails, as it must when the context has been cancelled: the
\* error is logged, the count given up.
GivenUp(p, m) ==
    /\ \/ Cancelled(p) /\ UNCHANGED <<failed, mishaps>>
       \/ ~Cancelled(p) /\ Faults /\ mishaps < MaxMishaps /\ failed' = TRUE /\ mishaps' = mishaps + 1
    /\ lost' = lost \cup {m}
    /\ UNCHANGED access

WriteCount(p) ==
    /\ at[p]["flush"] = "write"
    /\ \/ \E m \in Memory :
             /\ counts[p][m] > 0
             /\ counts' = Written(p, m)
             /\ Counted(p, m) \/ GivenUp(p, m)
             /\ UNCHANGED at
       \/ /\ counts[p] = Zero /\ Goto(p, "flush", "waiting")
          /\ UNCHANGED <<counts, access, lost, failed, mishaps>>
    /\ UNCHANGED <<plan, up, buf, work, file, mem, vec, writing, deleting, hits, embedded>>

------------------------------------------------------------------------------
(* BulkVectorizer.Run.                                                      *)

Kept == <<plan, up, buf, counts, mem, access, writing, deleting, hits, lost>>

\* QueueFile.Save removes the file, or truncates and writes it.
Save(p, ids, then) ==
    IF ids = <<>>
    THEN /\ file' = None
         /\ Goto(p, "backfill", then)
         /\ work' = [work EXCEPT ![p] = Resting]
    ELSE /\ file' = <<>>
         /\ Goto(p, "backfill", "write")
         /\ work' = [work EXCEPT ![p] = [pending |-> ids, todo |-> <<>>, then |-> then]]

\* What is written to a file that was removed meanwhile is gone.
WriteFile(p) ==
    /\ at[p]["backfill"] = "write"
    /\ file' = IF file = None THEN None ELSE work[p].pending
    /\ Goto(p, "backfill", work[p].then)
    /\ UNCHANGED <<Kept, work, vec, embedded, failed, mishaps>>

Load_LeavesEmpty(p) ==
    /\ at[p]["backfill"] = "load"
    /\ IF file \in {None, <<>>}
       THEN Goto(p, "backfill", IF file = None THEN "scan" ELSE "waiting") /\ UNCHANGED work
       ELSE /\ work' = [work EXCEPT ![p].pending = file]
            /\ Goto(p, "backfill", "next")
    /\ UNCHANGED <<Kept, file, vec, embedded, failed, mishaps>>

\* None and an empty list are told apart: one is scanned for, one removed.
Load(p) ==
    /\ at[p]["backfill"] = "load"
    /\ IF file = None
       THEN Goto(p, "backfill", "scan") /\ UNCHANGED <<work, file>>
       ELSE IF file = <<>>
       THEN Save(p, <<>>, "waiting")
       ELSE /\ work' = [work EXCEPT ![p].pending = file]
            /\ Goto(p, "backfill", "next")
            /\ UNCHANGED file
    /\ UNCHANGED <<Kept, vec, embedded, failed, mishaps>>

InOrder(S) == SetToSortSeq(S, <)

\* The memories there are, by creation.
Scan(p) ==
    /\ at[p]["backfill"] = "scan"
    /\ work' = [work EXCEPT ![p].todo = InOrder(Live)]
    /\ Goto(p, "backfill", "check")
    /\ UNCHANGED <<Kept, file, vec, embedded, failed, mishaps>>

Missing(ids) == SelectSeq(ids, LAMBDA m : vec[m] = "none")

\* findMissing; then the queue is saved for the first time.
Check(p) ==
    LET missing == Missing(work[p].todo) IN
    /\ at[p]["backfill"] = "check"
    /\ IF missing = <<>>
       THEN /\ Goto(p, "backfill", "waiting")
            /\ work' = [work EXCEPT ![p] = Resting]
            /\ UNCHANGED file
       ELSE Save(p, missing, "next")
    /\ UNCHANGED <<Kept, vec, embedded, failed, mishaps>>

Chunk(p) == SubSeq(work[p].pending, 1, Min({ChunkSize, Len(work[p].pending)}))
Rest(p)  == SubSeq(work[p].pending, Len(Chunk(p)) + 1, Len(work[p].pending))

\* Contents of deleted memories are loaded too; white space is passed over.
Contents(p) == SelectSeq(Chunk(p), LAMBDA m : mem[m] # "gone" /\ m \notin plan.blank)

\* The loop: the context is looked at, then contents are loaded.
NextChunk(p) ==
    /\ at[p]["backfill"] = "next"
    /\ IF Cancelled(p)
       THEN Save(p, work[p].pending, "waiting")
       ELSE IF Contents(p) = <<>>
       THEN Save(p, Rest(p), IF Rest(p) = <<>> THEN "waiting" ELSE "next")
       ELSE /\ work' = [work EXCEPT ![p].todo = Contents(p)]
            /\ Goto(p, "backfill", "embed")
            /\ UNCHANGED file
    /\ UNCHANGED <<Kept, vec, embedded, failed, mishaps>>

Fails_Again(p, certain) ==
    /\ \/ certain /\ UNCHANGED mishaps
       \/ ~certain /\ Faults /\ mishaps < MaxMishaps /\ mishaps' = mishaps + 1
    /\ Save(p, work[p].pending, "embed")
    /\ failed' = TRUE
    /\ UNCHANGED <<vec, embedded>>

\* A failure is certain when the context is cancelled, or a text is bad.
Fails(p, certain) ==
    /\ \/ certain /\ UNCHANGED mishaps
       \/ ~certain /\ Faults /\ mishaps < MaxMishaps /\ mishaps' = mishaps + 1
    /\ Save(p, work[p].pending, "waiting")
    /\ failed' = TRUE
    /\ UNCHANGED <<vec, embedded>>

\* EmbedBatch: all of the chunk, or none; contents that cannot be loaded fail alike.
Embed(p) ==
    /\ at[p]["backfill"] = "embed"
    /\ \/ /\ ToSet(work[p].todo) \cap plan.poison = {} /\ ~Cancelled(p)
          /\ embedded' = [m \in Memory |-> IF m \in ToSet(work[p].todo)
                                           THEN Min({embedded[m] + 1, 2}) ELSE embedded[m]]
          /\ Goto(p, "backfill", "upsert")
          /\ UNCHANGED <<work, file, vec, failed, mishaps>>
       \/ Fails(p, ToSet(work[p].todo) \cap plan.poison # {} \/ Cancelled(p))
    /\ UNCHANGED Kept

\* Upsert, one by one, with nothing in the payload but the memory's id; then
\* the rest of the queue is saved.
Upsert(p) ==
    LET todo == work[p].todo IN
    /\ at[p]["backfill"] = "upsert"
    /\ \/ /\ todo # <<>> /\ ~Cancelled(p)
          /\ vec' = [vec EXCEPT ![Head(todo)] = "bare"]
          /\ work' = [work EXCEPT ![p].todo = Tail(@)]
          /\ UNCHANGED <<at, file, embedded, failed, mishaps>>
       \/ todo # <<>> /\ Fails(p, Cancelled(p))
       \/ /\ todo = <<>>
          /\ Save(p, Rest(p), IF Rest(p) = <<>> THEN "waiting" ELSE "next")
          /\ UNCHANGED <<vec, embedded, failed, mishaps>>
    /\ UNCHANGED Kept

Flush(p)    == Drain(p) \/ WriteCount(p)
Backfill(p) == WriteFile(p) \/ Load(p) \/ Scan(p) \/ Check(p) \/ NextChunk(p) \/ Embed(p) \/ Upsert(p)

------------------------------------------------------------------------------
(* The manager, in whichever process: the row first, then the vector.       *)

Untouched == <<plan, up, at, buf, counts, work, file, access, history>>

Create ==
    \E m \in Memory :
       /\ "create" \in plan.clients /\ m <= plan.most
       /\ mem[m] = "none" /\ \A n \in Memory : n < m => mem[n] # "none"
       /\ mem' = [mem EXCEPT ![m] = "live"]
       /\ writing' = writing \cup {m}
       /\ UNCHANGED <<Untouched, vec, deleting>>

\* handleVectorWrite: failures are logged and left.
WriteVector ==
    \E m \in writing, ok \in BOOLEAN :
       /\ vec' = IF ok THEN [vec EXCEPT ![m] = "full"] ELSE vec
       /\ writing' = writing \ {m}
       /\ UNCHANGED <<Untouched, mem, deleting>>

Delete ==
    \E m \in Live :
       /\ "delete" \in plan.clients
       /\ mem' = [mem EXCEPT ![m] = "deleted"]
       /\ deleting' = deleting \cup {m}
       /\ UNCHANGED <<Untouched, vec, writing>>

DeleteVector ==
    \E m \in deleting, ok \in BOOLEAN :
       /\ vec' = IF ok THEN [vec EXCEPT ![m] = "none"] ELSE vec
       /\ deleting' = deleting \ {m}
       /\ UNCHANGED <<Untouched, mem, writing>>

\* The daily clean-up removes what was deleted a month ago.
Purge ==
    \E m \in Memory \ deleting :
       /\ mem[m] = "deleted"
       /\ mem' = [mem EXCEPT ![m] = "gone"]
       /\ UNCHANGED <<Untouched, vec, writing, deleting>>

Client == Create \/ WriteVector \/ Delete \/ DeleteVector \/ Purge

Next ==
    \/ \E p \in Proc :
          \/ Start(p) \/ Launch(p) \/ Signal(p) \/ Exit(p) \/ ExitEarly(p) \/ Crash(p)
          \/ Track(p) \/ Flush(p) \/ Backfill(p)
          \/ \E j \in Job : Tick(p, j) \/ StopTask(p, j)
    \/ Client

Spec == Init /\ [][Next]_vars

\* Processes are started again, goroutines run, tickers tick, and a select does
\* not choose against the context for ever.  Nobody need search, create,
\* delete, stop or crash anything.
Fairness ==
    /\ \A p \in Proc :
          /\ WF_vars(Start(p)) /\ WF_vars(Launch(p)) /\ WF_vars(Exit(p))
          /\ WF_vars(Flush(p)) /\ WF_vars(Backfill(p))
          /\ \A j \in Job : WF_vars(Tick(p, j)) /\ SF_vars(StopTask(p, j))
    /\ WF_vars(WriteVector)

FairSpec == Spec /\ Fairness

------------------------------------------------------------------------------

TypeOK ==
    /\ up \in [Proc -> {"down", "up", "stopping"}]
    /\ \A p \in Proc : Total(buf[p]) <= BufSize
    /\ file = None \/ (Len(file) <= MaxMemory /\ ToSet(file) \subseteq Memory)
    /\ vec \in [Memory -> {"none", "full", "bare"}]

InFlight(m) == SumFunctionOnSet([p \in Proc |-> buf[p][m] + counts[p][m]], Proc)

\* A hit is counted once at most, through buffers, flushes that overlap with
\* searches or with the flush of another process, stops and crashes.
NeverOvercounts == \A m \in Memory : access[m] + InFlight(m) <= hits[m]

\* Of a memory that stays, every hit gets to the store, unless the code gave
\* one up: to a full buffer, a failed statement, a cancelled context or the end
\* of the process that held it.  A flush that fails for one memory, or is cut
\* short, costs no other memory its hits.
HitsReachTheStore ==
    <>[](\A m \in Memory : (m \notin lost /\ mem[m] = "live") => access[m] = hits[m])

\* A process that is told to stop does, without the ten seconds being needed:
\* each job comes to where it looks at the context.
ShutdownEnds == \A p \in Proc : up[p] = "stopping" ~> up[p] = "down"

\* A memory whose vector was not written gets one, across stops, crashes, torn
\* queue files and two processes on one queue, and whatever blank memories are in
\* the queue before it.  One text that the embedder refuses holds them all up.
EveryMemoryVectorized ==
    \A m \in Memory :
       (/\ mem[m] = "live" /\ m \notin plan.blank /\ plan.poison = {}
        /\ \E p \in Proc : "backfill" \in plan.jobs[p])
       ~> (mem[m] # "live" \/ vec[m] # "none")

\* A backfill of one process that does not fail embeds no memory twice, unless
\* it is deleted meanwhile: a stop and a restart go on from the file.
DoneOnce ==
    (~failed /\ \A p, q \in Proc : p # q => "backfill" \notin plan.jobs[p] \cap plan.jobs[q])
        => \A m \in Live : embedded[m] <= 1

\* What a stop without failures loses of the counts.
StopsKeepCounts == (~failed /\ \A p \in Proc : up[p] = "down") =>
    \A m \in Live : access[m] = hits[m]

\* Vectors are written with the owner and the visibility of the memory: without
\* them, no search finds the vector.
VectorsAreFound == \A m \in Live : vec[m] # "bare"

\* A backfill does not replace the vector the manager wrote.
PayloadStays == [][\A m \in Memory : vec[m] = "full" => vec'[m] # "bare"]_vars

\* It writes no vector for a memory that is not there.
NoVectorOfDeleted ==
    [][\A m \in Memory : (vec[m] = "none" /\ vec'[m] = "bare") => mem[m] = "live"]_vars
==============================================================================
