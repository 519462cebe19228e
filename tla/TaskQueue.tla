------------------------------ MODULE TaskQueue ------------------------------
(***************************************************************************)
(* The persistent task queue of internal/queue: the table async_tasks and  *)
(* the workers that consume it.  The HTTP server and the MCP server are    *)
(* separate processes on one database file, and each runs a worker from    *)
(* its scheduler, so Worker has one element per process.                   *)
(*                                                                         *)
(* Every method of Queue is one SQL statement or one transaction, hence    *)
(* one action.  Worker.RunOnce is not atomic: it is ResetStale, Poll, the  *)
(* handler, then Complete or Fail, and other workers act in between.       *)
(*                                                                         *)
(* Time is kept only as far as ResetStale tells it apart: stale[t] says    *)
(* that the row's updated_at is older than staleTimeout.                   *)
(***************************************************************************)
EXTENDS Naturals, FiniteSets

CONSTANTS
    Worker,           \* one queue worker per server process
    Task,             \* the rows that may be enqueued
    HandledTask,      \* the tasks whose type has a registered handler
    MaxRetries,       \* column max_retries
    MaxSecond,        \* bound: created_at is one of the seconds 0..MaxSecond
    HandlerOverruns,  \* may a handler run longer than staleTimeout?
    NoTask

ASSUME WorkerAssumption  == IsFiniteSet(Worker)
ASSUME TaskAssumption    == HandledTask \subseteq Task /\ NoTask \notin Task
ASSUME RetryAssumption   == MaxRetries \in Nat \ {0}
ASSUME ClockAssumption   == MaxSecond \in Nat
ASSUME OverrunAssumption == HandlerOverruns \in BOOLEAN

VARIABLES
    status,   \* async_tasks.status, or "absent" when there is no row
    retry,    \* async_tasks.retry_count
    created,  \* async_tasks.created_at, whole seconds
    stale,    \* async_tasks.updated_at < now - staleTimeout
    pc,       \* where each worker is in RunOnce
    claim,    \* the task RunOnce holds, or NoTask
    attempts, \* history: executions begun, saturating at MaxAttempts
    overrun   \* history: the row was reset while some worker still held it

rowVars == <<status, retry, created, stale>>
vars    == <<status, retry, created, stale, pc, claim, attempts, overrun>>

Second      == 0..MaxSecond
MaxAttempts == MaxRetries + 2
Status      == {"absent", "pending", "processing", "completed", "failed"}
Holding     == {"handle", "complete", "fail"}
PC          == {"down", "idle", "poll"} \cup Holding

\* The workers that believe they are executing t.
Holders(t) == {w \in Worker : claim[w] = t}

TypeOK ==
    /\ status \in [Task -> Status]
    /\ retry \in [Task -> Nat]
    /\ created \in [Task -> Second]
    /\ stale \in [Task -> BOOLEAN]
    /\ pc \in [Worker -> PC]
    /\ claim \in [Worker -> Task \cup {NoTask}]
    /\ attempts \in [Task -> 0..MaxAttempts]
    /\ overrun \in [Task -> BOOLEAN]
    /\ \A w \in Worker : claim[w] \in Task <=> pc[w] \in Holding

Init ==
    /\ status = [t \in Task |-> "absent"]
    /\ retry = [t \in Task |-> 0]
    /\ created = [t \in Task |-> 0]
    /\ stale = [t \in Task |-> FALSE]
    /\ pc = [w \in Worker |-> "idle"]
    /\ claim = [w \in Worker |-> NoTask]
    /\ attempts = [t \in Task |-> 0]
    /\ overrun = [t \in Task |-> FALSE]

------------------------------------------------------------------------------
(* The table's operations.                                                  *)

\* Queue.Enqueue: a new row, pending, created in the current second, which
\* is no earlier than that of any row already there.
Enqueue(t) ==
    /\ status[t] = "absent"
    /\ \E now \in Second :
          /\ \A u \in Task : status[u] # "absent" => created[u] <= now
          /\ created' = [created EXCEPT ![t] = now]
    /\ status' = [status EXCEPT ![t] = "pending"]
    /\ UNCHANGED <<retry, stale, pc, claim, attempts, overrun>>

\* The clock moves on and a row in processing falls behind the cutoff.  The
\* deployment assumption ~HandlerOverruns is that this only ever happens to
\* a row nobody is executing any more.
Age(t) ==
    /\ status[t] = "processing"
    /\ ~stale[t]
    /\ HandlerOverruns \/ Holders(t) = {}
    /\ stale' = [stale EXCEPT ![t] = TRUE]
    /\ UNCHANGED <<status, retry, created, pc, claim, attempts, overrun>>

\* Mutants: the query without its cutoff; a worker that never resets.
Resettable_NoCutoff(t) == status[t] = "processing"
Resettable_Never(t)    == FALSE

\* WHERE status = 'processing' AND updated_at < cutoff
Resettable(t) == status[t] = "processing" /\ stale[t]

\* Queue.ResetStale, the first thing RunOnce does.  It leaves retry_count.
ResetStale(w) ==
    /\ pc[w] = "idle"
    /\ pc' = [pc EXCEPT ![w] = "poll"]
    /\ status' = [t \in Task |-> IF Resettable(t) THEN "pending" ELSE status[t]]
    /\ stale' = [t \in Task |-> stale[t] /\ ~Resettable(t)]
    /\ overrun' = [t \in Task |-> overrun[t] \/ (Resettable(t) /\ Holders(t) # {})]
    /\ UNCHANGED <<retry, created, claim, attempts>>

\* RunOnce logs an error of ResetStale and polls all the same.
ResetStaleError(w) ==
    /\ pc[w] = "idle"
    /\ pc' = [pc EXCEPT ![w] = "poll"]
    /\ UNCHANGED <<rowVars, claim, attempts, overrun>>

\* Mutant: the query without its filter on status, for a completed task.
Pollable_Completed(t) == status[t] \in {"pending", "completed"}

\* WHERE status = 'pending'
Pollable(t) == status[t] = "pending"

\* ORDER BY created_at ASC LIMIT 1; rows of one second come in any order.
Oldest(t) ==
    /\ Pollable(t)
    /\ \A u \in Task : Pollable(u) => created[t] <= created[u]

\* Mutant: the select without the update that marks the row.
Poll_Unmarked(w, t) ==
    /\ pc[w] = "poll"
    /\ Oldest(t)
    /\ claim' = [claim EXCEPT ![w] = t]
    /\ pc' = [pc EXCEPT ![w] = "handle"]
    /\ UNCHANGED <<rowVars, attempts, overrun>>

\* Queue.Poll and RunOnce's look-up of the handler: a task of a type nobody
\* registered goes straight to Fail.
Poll(w, t) ==
    /\ pc[w] = "poll"
    /\ Oldest(t)
    /\ status' = [status EXCEPT ![t] = "processing"]
    /\ stale' = [stale EXCEPT ![t] = FALSE]
    /\ claim' = [claim EXCEPT ![w] = t]
    /\ pc' = [pc EXCEPT ![w] = IF t \in HandledTask THEN "handle" ELSE "fail"]
    /\ attempts' = [attempts EXCEPT ![t] = IF @ < MaxAttempts THEN @ + 1 ELSE @]
    /\ UNCHANGED <<retry, created, overrun>>

\* Nothing to do, or (PollError) BUSY from a concurrent transaction: the
\* round is over.
PollEmpty(w) ==
    /\ pc[w] = "poll"
    /\ \A t \in Task : ~Pollable(t)
    /\ pc' = [pc EXCEPT ![w] = "idle"]
    /\ UNCHANGED <<rowVars, claim, attempts, overrun>>

PollError(w) ==
    /\ pc[w] = "poll"
    /\ pc' = [pc EXCEPT ![w] = "idle"]
    /\ UNCHANGED <<rowVars, claim, attempts, overrun>>

\* handler.Handle returns, with nil or with an error.
Handle(w) ==
    /\ pc[w] = "handle"
    /\ \E outcome \in {"complete", "fail"} : pc' = [pc EXCEPT ![w] = outcome]
    /\ UNCHANGED <<rowVars, claim, attempts, overrun>>

\* The worker is done with the task it holds.
Release(w) ==
    /\ pc' = [pc EXCEPT ![w] = "idle"]
    /\ claim' = [claim EXCEPT ![w] = NoTask]

\* Queue.Complete: UPDATE ... WHERE id = ?, whatever the row says now.
Complete(w) ==
    /\ pc[w] = "complete"
    /\ status' = [status EXCEPT ![claim[w]] = "completed"]
    /\ stale' = [stale EXCEPT ![claim[w]] = FALSE]
    /\ Release(w)
    /\ UNCHANGED <<retry, created, attempts, overrun>>

\* Mutant: one retry too many.
Exhausted_Late(n)  == n > MaxRetries
Exhausted(n) == n >= MaxRetries

\* Queue.Fail, also whatever the row says now.
Fail(w) ==
    /\ pc[w] = "fail"
    /\ LET t == claim[w]
           n == retry[t] + 1
       IN  /\ retry' = [retry EXCEPT ![t] = n]
           /\ status' = [status EXCEPT ![t] = IF Exhausted(n) THEN "failed" ELSE "pending"]
           /\ stale' = [stale EXCEPT ![t] = FALSE]
    /\ Release(w)
    /\ UNCHANGED <<created, attempts, overrun>>

\* Complete or Fail returns an error (a busy database, a cancelled context):
\* RunOnce logs it and forgets the task; the row stays as it is.
ReportLost(w) ==
    /\ pc[w] \in {"complete", "fail"}
    /\ Release(w)
    /\ UNCHANGED <<rowVars, attempts, overrun>>

\* The process dies, whatever it was doing, and may come back.
Crash(w) ==
    /\ pc[w] # "down"
    /\ pc' = [pc EXCEPT ![w] = "down"]
    /\ claim' = [claim EXCEPT ![w] = NoTask]
    /\ UNCHANGED <<rowVars, attempts, overrun>>

Restart(w) ==
    /\ pc[w] = "down"
    /\ pc' = [pc EXCEPT ![w] = "idle"]
    /\ UNCHANGED <<rowVars, claim, attempts, overrun>>

------------------------------------------------------------------------------
\* Worker.Run calls RunOnce up to ten times per tick, so a finished round is
\* followed by another, now or at the next tick.
RunOnce(w) ==
    \/ ResetStale(w)
    \/ \E t \in Task : Poll(w, t)
    \/ PollEmpty(w)
    \/ Handle(w)
    \/ Complete(w)
    \/ Fail(w)

Fault(w) ==
    \/ ResetStaleError(w)
    \/ PollError(w)
    \/ ReportLost(w)
    \/ Crash(w)

Next ==
    \/ \E t \in Task : Enqueue(t) \/ Age(t)
    \/ \E w \in Worker : RunOnce(w) \/ Fault(w) \/ Restart(w)

Spec == Init /\ [][Next]_vars

\* The scheduler ticks every poll_interval, handlers return, supervisors
\* restart a dead process, and time passes.
FairSpec ==
    /\ Spec
    /\ \A w \in Worker : WF_vars(RunOnce(w)) /\ WF_vars(Restart(w))
    /\ \A t \in Task : WF_vars(Age(t))

------------------------------------------------------------------------------
(* Properties.                                                              *)

\* A task whose retries are used up is never handed to a worker again,
\* however late and however often the workers report (Fail, ResetStale).
ExhaustedNeverOffered ==
    \A t \in Task : status[t] \notin {"completed", "failed"} => retry[t] < MaxRetries

\* A task is given up only after it was really executed MaxRetries times:
\* no interleaving of late Fails charges a task for an execution it did not
\* have.
FailedOnlyAfterAllAttempts ==
    \A t \in Task : status[t] = "failed" => attempts[t] >= MaxRetries

\* retry_count can pass max_retries, because Fail does not look at the row,
\* but only by the executions in flight on the other workers.
RetryOvershootBounded ==
    \A t \in Task : retry[t] + 1 <= MaxRetries + Cardinality(Worker)

\* Two workers execute one task only after ResetStale took it from a live
\* one; until then the row of a task in execution says processing.
ExclusiveUnlessOverrun ==
    \A t \in Task : ~overrun[t] =>
        /\ Cardinality(Holders(t)) <= 1
        /\ Holders(t) # {} => status[t] = "processing"

\* A settled task is reopened or its verdict changed only by a worker whose
\* claim ResetStale had taken away.
SettledUndoneOnlyByOverrun ==
    [][\A t \in Task :
          status[t] \in {"completed", "failed"} /\ status'[t] # status[t] => overrun[t]]_vars

\* Faults that set the queue back: an error where nothing could be done anyway
\* leaves the same state as success.
Harm(w) ==
    \/ ResetStaleError(w) /\ \E t \in Task : Resettable(t)
    \/ PollError(w) /\ \E t \in Task : Pollable(t)
    \/ ReportLost(w)
    \/ Crash(w)
NoMoreFaults == <>[][\A w \in Worker : ~Harm(w)]_vars
Settled(t)   == status[t] \in {"completed", "failed"}

\* No task is lost: when faults eventually stop, every enqueued task is
\* settled for good, crashes between Poll and Complete included.
EveryTaskSettles ==
    NoMoreFaults => \A t \in Task : (status[t] = "pending") ~> [](Settled(t))

\* With handlers that stay within the stale timeout, the queue is a RetryQueue.
Promise == INSTANCE RetryQueue WITH
    phase   <- [t \in Task |->
                  CASE status[t] = "absent"    -> "absent"
                    [] status[t] = "completed" -> "done"
                    [] status[t] = "failed"    -> "dropped"
                    [] OTHER                   -> "open"],
    running <- [t \in Task |-> Holders(t) # {}],
    tries   <- attempts
ImplementsRetryQueue == Promise!Spec

------------------------------------------------------------------------------
(* The invariants above are not inductive: they rest on how retry_count,    *)
(* the claims in flight and the executions so far add up.                   *)

\* A Fail in flight is already paid for: retries counted and claims still
\* held stay together within what RetryOvershootBounded allows.
RetryBudget ==
    \A t \in Task :
        retry[t] + Cardinality(Holders(t)) + 1 <= MaxRetries + Cardinality(Worker)

\* Every retry counted and every claim held is an execution of its own.
AttemptAccounting ==
    \A t \in Task : \/ attempts[t] = MaxAttempts
                    \/ retry[t] + Cardinality(Holders(t)) <= attempts[t]

FailedMeansExhausted ==
    \A t \in Task : status[t] = "failed" => retry[t] >= MaxRetries

\* The inductive invariant: Fail, ResetStale and Poll keep the retries, the
\* claims and the executions of every task in step with its row.
IInv ==
    /\ TypeOK
    /\ ExhaustedNeverOffered
    /\ FailedMeansExhausted
    /\ RetryBudget
    /\ AttemptAccounting
    /\ ExclusiveUnlessOverrun

\* What ~HandlerOverruns adds: no claim is ever taken from a live worker.
LeaseInv ==
    \A t \in Task : ~overrun[t] /\ (stale[t] => Holders(t) = {})

------------------------------------------------------------------------------
(* What the comments and tests of the repository say and the code does not  *)
(* do.                                                                      *)

\* testing/queue: "Completed task should not be polled again".
CompletedNeverPolledAgain ==
    [][\A t \in Task : status[t] = "completed" => status'[t] # "pending"]_vars

\* Task.MaxRetries: "Maximum number of retries allowed" (a retry is every
\* execution after the first).
RetriesWithinMax == \A t \in Task : attempts[t] <= MaxRetries + 1
==============================================================================
