----------------------------- MODULE RetryQueue -----------------------------
(***************************************************************************)
(* What internal/queue promises to the code that enqueues work, with no    *)
(* workers, clocks or table rows: a task is executed by one party at a     *)
(* time and at least once; it ends "done" or "dropped" and stays so; it is *)
(* dropped only when MaxRetries executions of it did not succeed.          *)
(* TaskQueue is shown to implement this when no handler outlives the stale *)
(* timeout.                                                                *)
(***************************************************************************)
EXTENDS Naturals

CONSTANTS Task, MaxRetries, MaxAttempts

VARIABLES phase,    \* phase[t]: where the task is in its life
          running,  \* running[t]: somebody is executing it now
          tries     \* tries[t]: executions begun, saturating at MaxAttempts

vars == <<phase, running, tries>>

Phase == {"absent", "open", "done", "dropped"}

Init ==
    /\ phase = [t \in Task |-> "absent"]
    /\ running = [t \in Task |-> FALSE]
    /\ tries = [t \in Task |-> 0]

Submit(t) ==
    /\ phase[t] = "absent"
    /\ phase' = [phase EXCEPT ![t] = "open"]
    /\ UNCHANGED <<running, tries>>

Start(t) ==
    /\ phase[t] = "open"
    /\ ~running[t]
    /\ running' = [running EXCEPT ![t] = TRUE]
    /\ tries' = [tries EXCEPT ![t] = IF @ < MaxAttempts THEN @ + 1 ELSE @]
    /\ UNCHANGED phase

\* An execution ends without settling the task: the handler failed with
\* retries left, or the outcome never reached the queue.
Yield(t) ==
    /\ phase[t] = "open"
    /\ running[t]
    /\ running' = [running EXCEPT ![t] = FALSE]
    /\ UNCHANGED <<phase, tries>>

Finish(t) ==
    /\ phase[t] = "open"
    /\ running[t]
    /\ running' = [running EXCEPT ![t] = FALSE]
    /\ phase' = [phase EXCEPT ![t] = "done"]
    /\ UNCHANGED tries

Drop(t) ==
    /\ phase[t] = "open"
    /\ running[t]
    /\ tries[t] >= MaxRetries
    /\ running' = [running EXCEPT ![t] = FALSE]
    /\ phase' = [phase EXCEPT ![t] = "dropped"]
    /\ UNCHANGED tries

Next == \E t \in Task : Submit(t) \/ Start(t) \/ Yield(t) \/ Finish(t) \/ Drop(t)

Spec == Init /\ [][Next]_vars
=============================================================================
