--------------------------- MODULE TaskQueueProofs ---------------------------
(***************************************************************************)
(* Proofs about TaskQueue for every number of workers, tasks and retries.  *)
(***************************************************************************)
EXTENDS TaskQueue, FiniteSetTheorems, TLAPS

USE DEF Status, Holding, PC, Second, MaxAttempts

LEMMA WorkersCounted == Cardinality(Worker) \in Nat
BY WorkerAssumption, FS_CardinalityType

\* The holders of a task are finitely many, no more than the workers.
LEMMA HoldersCounted ==
  ASSUME NEW t
  PROVE  /\ IsFiniteSet(Holders(t))
         /\ Cardinality(Holders(t)) \in Nat
         /\ Cardinality(Holders(t)) <= Cardinality(Worker)
         /\ Cardinality(Holders(t)) = 0 <=> Holders(t) = {}
<1>1. Holders(t) \in SUBSET Worker
  BY DEF Holders
<1>2. IsFiniteSet(Holders(t)) /\ Cardinality(Holders(t)) <= Cardinality(Worker)
  BY <1>1, WorkerAssumption, FS_Subset
<1>3. QED
  BY <1>2, FS_CardinalityType, FS_EmptySet

\* The same in the next state.
LEMMA HoldersCountedNext ==
  ASSUME NEW t
  PROVE  /\ IsFiniteSet(Holders(t)')
         /\ Cardinality(Holders(t)') \in Nat
         /\ Cardinality(Holders(t)') <= Cardinality(Worker)
         /\ Cardinality(Holders(t)') = 0 <=> Holders(t)' = {}
<1>1. Holders(t)' \in SUBSET Worker
  BY DEF Holders
<1>2. IsFiniteSet(Holders(t)') /\ Cardinality(Holders(t)') <= Cardinality(Worker)
  BY <1>1, WorkerAssumption, FS_Subset
<1>3. QED
  BY <1>2, FS_CardinalityType, FS_EmptySet

\* A worker that lets go of its claim leaves the holders of that task.
LEMMA ReleaseHolders ==
  ASSUME TypeOK, NEW w \in Worker, claim' = [claim EXCEPT ![w] = NoTask],
         NEW t \in Task
  PROVE  /\ claim[w] # t => Holders(t)' = Holders(t)
         /\ claim[w] = t => /\ w \in Holders(t)
                            /\ Holders(t)' = Holders(t) \ {w}
                            /\ Cardinality(Holders(t)') + 1 = Cardinality(Holders(t))
         /\ Cardinality(Holders(t)') <= Cardinality(Holders(t))
<1>0. NoTask \notin Task
  BY TaskAssumption
<1>1. CASE claim[w] # t
  <2>1. Holders(t)' = Holders(t)
    BY <1>0, <1>1 DEF Holders, TypeOK
  <2>2. QED
    BY <1>1, <2>1, HoldersCounted
<1>2. CASE claim[w] = t
  <2>1. w \in Holders(t) /\ Holders(t)' = Holders(t) \ {w}
    BY <1>0, <1>2 DEF Holders, TypeOK
  <2>2. Cardinality(Holders(t)') = Cardinality(Holders(t)) - 1
    BY <2>1, HoldersCounted, FS_RemoveElement
  <2>3. QED
    BY <1>2, <2>1, <2>2, HoldersCounted
<1>3. QED
  BY <1>1, <1>2

\* A worker without a claim that takes t joins the holders of t only.
LEMMA TakeHolders ==
  ASSUME TypeOK, NEW w \in Worker, NEW t \in Task, claim[w] \notin Task,
         claim' = [claim EXCEPT ![w] = t]
  PROVE  /\ \A u \in Task : u # t => Holders(u)' = Holders(u)
         /\ Holders(t)' = Holders(t) \cup {w}
         /\ Cardinality(Holders(t)') = Cardinality(Holders(t)) + 1
<1>1. \A u \in Task : u # t => Holders(u)' = Holders(u)
  BY DEF Holders, TypeOK
<1>2. w \notin Holders(t) /\ Holders(t)' = Holders(t) \cup {w}
  BY DEF Holders, TypeOK
<1>3. QED
  BY <1>1, <1>2, HoldersCounted, FS_AddElement

------------------------------------------------------------------------------

LEMMA InitIInv == Init => IInv
<1> SUFFICES ASSUME Init PROVE IInv
  OBVIOUS
<1>1. TypeOK
  BY TaskAssumption, RetryAssumption, ClockAssumption DEF Init, TypeOK
<1>2. \A t \in Task : Holders(t) = {}
  BY TaskAssumption DEF Init, Holders
<1>3. \A t \in Task : Cardinality(Holders(t)) = 0
  BY <1>2, HoldersCounted
<1>4. \A t \in Task : Cardinality(Holders(t)) <= Cardinality(Worker)
  BY HoldersCounted
<1>5. RetryBudget /\ AttemptAccounting
  BY <1>3, WorkersCounted, RetryAssumption DEF Init, RetryBudget, AttemptAccounting
<1>6. ExclusiveUnlessOverrun
  BY <1>2, <1>3 DEF ExclusiveUnlessOverrun
<1>7. ExhaustedNeverOffered /\ FailedMeansExhausted
  BY RetryAssumption DEF Init, ExhaustedNeverOffered, FailedMeansExhausted
<1>8. QED
  BY <1>1, <1>5, <1>6, <1>7 DEF IInv

\* Steps that touch no row and no claim keep everything but TypeOK trivially.
LEMMA QuietStep ==
  ASSUME IInv, TypeOK', UNCHANGED <<rowVars, claim, attempts, overrun>>
  PROVE  IInv'
<1>1. \A t \in Task : Holders(t)' = Holders(t)
  BY DEF Holders
<1>2. QED
  BY <1>1 DEF IInv, rowVars, ExhaustedNeverOffered, FailedMeansExhausted,
              RetryBudget, AttemptAccounting, ExclusiveUnlessOverrun

\* Steps that only let go of a claim (ReportLost, Crash).
LEMMA ForgetStep ==
  ASSUME IInv, TypeOK', NEW w \in Worker,
         claim' = [claim EXCEPT ![w] = NoTask],
         UNCHANGED <<rowVars, attempts, overrun>>
  PROVE  IInv'
<1>1. \A t \in Task : /\ Cardinality(Holders(t)') <= Cardinality(Holders(t))
                      /\ Holders(t)' # {} => Holders(t) # {}
  BY ReleaseHolders DEF IInv
<1>2. \A t \in Task : Cardinality(Holders(t)) \in Nat /\ Cardinality(Holders(t)') \in Nat
  BY HoldersCounted, HoldersCountedNext
<1>3. RetryBudget' /\ AttemptAccounting'
  BY <1>1, <1>2, WorkersCounted, RetryAssumption
     DEF IInv, TypeOK, rowVars, RetryBudget, AttemptAccounting
<1>4. ExclusiveUnlessOverrun'
  BY <1>1, <1>2 DEF IInv, rowVars, ExclusiveUnlessOverrun
<1>5. ExhaustedNeverOffered' /\ FailedMeansExhausted'
  BY DEF IInv, rowVars, ExhaustedNeverOffered, FailedMeansExhausted
<1>6. QED
  BY <1>3, <1>4, <1>5 DEF IInv

LEMMA TypeOKStep == TypeOK /\ [Next]_vars => TypeOK'
<1> SUFFICES ASSUME TypeOK, [Next]_vars PROVE TypeOK'
  OBVIOUS
<1> USE TaskAssumption, RetryAssumption, ClockAssumption
<1>1. ASSUME NEW t \in Task, Enqueue(t) PROVE TypeOK'
  BY <1>1 DEF Enqueue, TypeOK
<1>2. ASSUME NEW t \in Task, Age(t) PROVE TypeOK'
  BY <1>2 DEF Age, TypeOK
<1>3. ASSUME NEW w \in Worker, ResetStale(w) PROVE TypeOK'
  BY <1>3 DEF ResetStale, Resettable, TypeOK
<1>4. ASSUME NEW w \in Worker, NEW t \in Task, Poll(w, t) PROVE TypeOK'
  BY <1>4 DEF Poll, TypeOK
<1>5. ASSUME NEW w \in Worker,
             ResetStaleError(w) \/ PollEmpty(w) \/ PollError(w) \/ Handle(w) \/ Restart(w)
      PROVE  TypeOK'
  BY <1>5 DEF ResetStaleError, PollEmpty, PollError, Handle, Restart, rowVars, TypeOK
<1>6. ASSUME NEW w \in Worker, Complete(w) PROVE TypeOK'
  BY <1>6 DEF Complete, Release, TypeOK
<1>7. ASSUME NEW w \in Worker, Fail(w) PROVE TypeOK'
  BY <1>7 DEF Fail, Release, Exhausted, TypeOK
<1>8. ASSUME NEW w \in Worker, ReportLost(w) \/ Crash(w) PROVE TypeOK'
  BY <1>8 DEF ReportLost, Crash, Release, rowVars, TypeOK
<1>9. CASE UNCHANGED vars
  BY <1>9 DEF vars, TypeOK
<1>10. QED
  BY <1>1, <1>2, <1>3, <1>4, <1>5, <1>6, <1>7, <1>8, <1>9 DEF Next, RunOnce, Fault

\* A new row: nobody held it, or the invariant said nothing about it.
LEMMA EnqueueStep == ASSUME IInv, TypeOK', NEW t \in Task, Enqueue(t) PROVE IInv'
<1>1. \A u \in Task : Holders(u)' = Holders(u)
  BY DEF Enqueue, Holders
<1>2. RetryBudget' /\ AttemptAccounting'
  BY <1>1 DEF IInv, Enqueue, RetryBudget, AttemptAccounting
<1>3. ExclusiveUnlessOverrun'
  BY <1>1 DEF IInv, TypeOK, Enqueue, ExclusiveUnlessOverrun
<1>4. ExhaustedNeverOffered' /\ FailedMeansExhausted'
  BY DEF IInv, TypeOK, Enqueue, ExhaustedNeverOffered, FailedMeansExhausted
<1>5. QED
  BY <1>2, <1>3, <1>4 DEF IInv

LEMMA AgeStep == ASSUME IInv, TypeOK', NEW t \in Task, Age(t) PROVE IInv'
<1>1. \A u \in Task : Holders(u)' = Holders(u)
  BY DEF Age, Holders
<1>2. QED
  BY <1>1 DEF IInv, Age, ExhaustedNeverOffered, FailedMeansExhausted,
              RetryBudget, AttemptAccounting, ExclusiveUnlessOverrun

\* A reset of a held row is recorded in overrun, so exclusivity is kept.
LEMMA ResetStaleStep == ASSUME IInv, TypeOK', NEW w \in Worker, ResetStale(w) PROVE IInv'
<1>1. \A u \in Task : Holders(u)' = Holders(u)
  BY DEF ResetStale, Holders
<1>2. RetryBudget' /\ AttemptAccounting'
  BY <1>1 DEF IInv, ResetStale, RetryBudget, AttemptAccounting
<1>3. ExclusiveUnlessOverrun'
  BY <1>1 DEF IInv, TypeOK, ResetStale, Resettable, ExclusiveUnlessOverrun
<1>4. ExhaustedNeverOffered' /\ FailedMeansExhausted'
  BY DEF IInv, TypeOK, ResetStale, Resettable, ExhaustedNeverOffered, FailedMeansExhausted
<1>5. QED
  BY <1>2, <1>3, <1>4 DEF IInv

\* Poll is where a claim is added: a pending row has a retry left to pay
\* for it, and no holder unless it was overrun.
LEMMA PollStep ==
  ASSUME IInv, TypeOK', NEW w \in Worker, NEW t \in Task, Poll(w, t)
  PROVE  IInv'
<1> USE DEF Oldest, Pollable
<1>1. claim[w] \notin Task /\ claim' = [claim EXCEPT ![w] = t]
  BY DEF IInv, TypeOK, Poll
<1>2. /\ \A u \in Task : u # t => Holders(u)' = Holders(u)
      /\ Cardinality(Holders(t)') = Cardinality(Holders(t)) + 1
  BY <1>1, TakeHolders DEF IInv
<1>3. \A u \in Task : /\ Cardinality(Holders(u)) \in Nat
                      /\ Cardinality(Holders(u)') \in Nat
                      /\ Cardinality(Holders(u)') <= Cardinality(Worker)
                      /\ Cardinality(Holders(u)) = 0 <=> Holders(u) = {}
  BY HoldersCounted, HoldersCountedNext
<1>4. status[t] = "pending" /\ retry[t] < MaxRetries /\ retry' = retry
  BY DEF IInv, Poll, ExhaustedNeverOffered
<1>5. RetryBudget'
  BY <1>2, <1>3, <1>4, WorkersCounted, RetryAssumption DEF IInv, TypeOK, RetryBudget
<1>6. AttemptAccounting'
  <2>1. attempts' = [attempts EXCEPT ![t] = IF @ < MaxAttempts THEN @ + 1 ELSE @]
    BY DEF Poll
  <2>2. ASSUME NEW u \in Task
        PROVE  attempts'[u] = MaxAttempts \/ retry'[u] + Cardinality(Holders(u)') <= attempts'[u]
    <3>1. CASE u = t
      BY <1>2, <1>3, <1>4, <2>1, <3>1, RetryAssumption DEF IInv, TypeOK, AttemptAccounting
    <3>2. CASE u # t
      BY <1>2, <1>4, <2>1, <3>2 DEF IInv, TypeOK, AttemptAccounting
    <3>3. QED
      BY <3>1, <3>2
  <2>3. QED
    BY <2>2 DEF AttemptAccounting
<1>7. ExclusiveUnlessOverrun'
  BY <1>2, <1>3, <1>4 DEF IInv, TypeOK, Poll, ExclusiveUnlessOverrun
<1>8. ExhaustedNeverOffered' /\ FailedMeansExhausted'
  BY <1>4 DEF IInv, TypeOK, Poll, ExhaustedNeverOffered, FailedMeansExhausted
<1>9. QED
  BY <1>5, <1>6, <1>7, <1>8 DEF IInv

\* The worker that reports was the only holder, unless the row was overrun.
LEMMA SoleHolder ==
  ASSUME IInv, NEW w \in Worker, NEW t \in Task, claim[w] = t, ~overrun[t],
         claim' = [claim EXCEPT ![w] = NoTask]
  PROVE  status[t] = "processing" /\ Holders(t)' = {}
<1>1. w \in Holders(t) /\ Cardinality(Holders(t)') + 1 = Cardinality(Holders(t))
  BY ReleaseHolders DEF IInv
<1>2. Cardinality(Holders(t)) <= 1 /\ status[t] = "processing"
  BY <1>1 DEF IInv, ExclusiveUnlessOverrun
<1>3. QED
  BY <1>1, <1>2, HoldersCounted, HoldersCountedNext

LEMMA CompleteStep == ASSUME IInv, TypeOK', NEW w \in Worker, Complete(w) PROVE IInv'
<1>0. claim[w] \in Task /\ claim' = [claim EXCEPT ![w] = NoTask]
  BY DEF IInv, TypeOK, Complete, Release
<1>1. PICK t \in Task : claim[w] = t /\ claim' = [claim EXCEPT ![w] = NoTask]
  BY <1>0
<1>2. \A u \in Task : /\ Cardinality(Holders(u)') <= Cardinality(Holders(u))
                      /\ u # t => Holders(u)' = Holders(u)
                      /\ Cardinality(Holders(u)) \in Nat
                      /\ Cardinality(Holders(u)') \in Nat
  BY <1>1, ReleaseHolders, HoldersCounted, HoldersCountedNext DEF IInv
<1>3. UNCHANGED <<retry, attempts, overrun>>
  BY DEF Complete
<1>4. RetryBudget' /\ AttemptAccounting'
  BY <1>2, <1>3, WorkersCounted, RetryAssumption
     DEF IInv, TypeOK, RetryBudget, AttemptAccounting
<1>5. ASSUME NEW u \in Task, ~overrun'[u]
      PROVE  Cardinality(Holders(u)') <= 1 /\ (Holders(u)' # {} => status'[u] = "processing")
  <2>1. CASE u = t
    <3>1. ~overrun[t]
      BY <1>3, <1>5, <2>1
    <3>2. Holders(t)' = {}
      BY <1>1, <3>1, SoleHolder
    <3>3. QED
      BY <2>1, <3>2, HoldersCountedNext
  <2>2. CASE u # t
    BY <1>1, <1>2, <1>3, <1>5, <2>2 DEF IInv, TypeOK, Complete, ExclusiveUnlessOverrun
  <2>3. QED
    BY <2>1, <2>2
<1>6. ExhaustedNeverOffered' /\ FailedMeansExhausted'
  BY <1>1 DEF IInv, TypeOK, Complete, ExhaustedNeverOffered, FailedMeansExhausted
<1>7. QED
  BY <1>4, <1>5, <1>6 DEF IInv, ExclusiveUnlessOverrun

\* Fail trades a claim for a retry, so both sums stay what they were.
LEMMA FailStep == ASSUME IInv, TypeOK', NEW w \in Worker, Fail(w) PROVE IInv'
<1>0. claim[w] \in Task /\ claim' = [claim EXCEPT ![w] = NoTask]
  BY DEF IInv, TypeOK, Fail, Release
<1>1. PICK t \in Task : claim[w] = t /\ claim' = [claim EXCEPT ![w] = NoTask]
  BY <1>0
<1>2. \A u \in Task : /\ u # t => Holders(u)' = Holders(u)
                      /\ Cardinality(Holders(u)) \in Nat
                      /\ Cardinality(Holders(u)') \in Nat
  BY <1>1, ReleaseHolders, HoldersCounted, HoldersCountedNext DEF IInv
<1>3. Cardinality(Holders(t)') + 1 = Cardinality(Holders(t))
  BY <1>1, ReleaseHolders DEF IInv
<1>4. /\ retry' = [retry EXCEPT ![t] = retry[t] + 1]
      /\ status' = [status EXCEPT ![t] =
                      IF retry[t] + 1 >= MaxRetries THEN "failed" ELSE "pending"]
      /\ UNCHANGED <<attempts, overrun>>
  BY <1>1 DEF Fail, Exhausted
<1>5. ASSUME NEW u \in Task
      PROVE  retry'[u] + Cardinality(Holders(u)') = retry[u] + Cardinality(Holders(u))
  <2>1. CASE u = t
    BY <1>1, <1>2, <1>3, <1>4, <2>1 DEF IInv, TypeOK
  <2>2. CASE u # t
    BY <1>1, <1>2, <1>4, <2>2 DEF IInv, TypeOK
  <2>3. QED
    BY <2>1, <2>2
<1>6. RetryBudget' /\ AttemptAccounting'
  BY <1>4, <1>5 DEF IInv, RetryBudget, AttemptAccounting
<1>7. ASSUME NEW u \in Task, ~overrun'[u]
      PROVE  Cardinality(Holders(u)') <= 1 /\ (Holders(u)' # {} => status'[u] = "processing")
  <2>1. CASE u = t
    <3>1. ~overrun[t]
      BY <1>4, <1>7, <2>1
    <3>2. Holders(t)' = {}
      BY <1>1, <3>1, SoleHolder
    <3>3. QED
      BY <2>1, <3>2, HoldersCountedNext
  <2>2. CASE u # t
    BY <1>1, <1>2, <1>4, <1>7, <2>2 DEF IInv, TypeOK, ExclusiveUnlessOverrun
  <2>3. QED
    BY <2>1, <2>2
<1>8. ExhaustedNeverOffered' /\ FailedMeansExhausted'
  BY <1>1, <1>4, RetryAssumption DEF IInv, TypeOK, ExhaustedNeverOffered, FailedMeansExhausted
<1>9. QED
  BY <1>6, <1>7, <1>8 DEF IInv, ExclusiveUnlessOverrun

LEMMA NextIInv == IInv /\ [Next]_vars => IInv'
<1> SUFFICES ASSUME IInv, [Next]_vars PROVE IInv'
  OBVIOUS
<1>0. TypeOK'
  BY TypeOKStep DEF IInv
<1>1. ASSUME NEW t \in Task, Enqueue(t) \/ Age(t) PROVE IInv'
  BY <1>0, <1>1, EnqueueStep, AgeStep
<1>2. ASSUME NEW w \in Worker, RunOnce(w) PROVE IInv'
  <2>1. CASE ResetStale(w)
    BY <1>0, <2>1, ResetStaleStep
  <2>2. ASSUME NEW t \in Task, Poll(w, t) PROVE IInv'
    BY <1>0, <2>2, PollStep
  <2>3. CASE PollEmpty(w) \/ Handle(w)
    BY <1>0, <2>3, QuietStep DEF PollEmpty, Handle
  <2>4. CASE Complete(w)
    BY <1>0, <2>4, CompleteStep
  <2>5. CASE Fail(w)
    BY <1>0, <2>5, FailStep
  <2>6. QED
    BY <1>2, <2>1, <2>2, <2>3, <2>4, <2>5 DEF RunOnce
<1>3. ASSUME NEW w \in Worker, Fault(w) \/ Restart(w) PROVE IInv'
  <2>1. CASE ResetStaleError(w) \/ PollError(w) \/ Restart(w)
    BY <1>0, <2>1, QuietStep DEF ResetStaleError, PollError, Restart
  <2>2. CASE ReportLost(w) \/ Crash(w)
    BY <1>0, <2>2, ForgetStep DEF ReportLost, Crash, Release
  <2>3. QED
    BY <1>3, <2>1, <2>2 DEF Fault
<1>4. CASE UNCHANGED vars
  BY <1>0, <1>4, QuietStep DEF vars, rowVars
<1>5. QED
  BY <1>1, <1>2, <1>3, <1>4 DEF Next

------------------------------------------------------------------------------
(* The theorems.                                                            *)

\* Every reachable state of the queue satisfies the inductive invariant.
THEOREM Invariance == Spec => []IInv
BY InitIInv, NextIInv, PTL DEF Spec

\* A task whose retries are used up is never handed to a worker again
\* (Queue.Fail, ResetStale and Poll in any interleaving).
THEOREM NeverOfferedAgain == Spec => []ExhaustedNeverOffered
<1>1. IInv => ExhaustedNeverOffered
  BY DEF IInv
<1>2. QED
  BY <1>1, Invariance, PTL

\* Queue.Fail gives a task up only after max_retries real executions.
THEOREM GivenUpOnlyAfterAllAttempts == Spec => []FailedOnlyAfterAllAttempts
<1>1. ASSUME IInv, NEW t \in Task, status[t] = "failed" PROVE attempts[t] >= MaxRetries
  <2>1. retry[t] >= MaxRetries /\ Cardinality(Holders(t)) \in Nat
    BY <1>1, HoldersCounted DEF IInv, FailedMeansExhausted
  <2>2. QED
    BY <1>1, <2>1, RetryAssumption DEF IInv, TypeOK, AttemptAccounting
<1>2. IInv => FailedOnlyAfterAllAttempts
  BY <1>1 DEF FailedOnlyAfterAllAttempts
<1>3. QED
  BY <1>2, Invariance, PTL

\* retry_count exceeds max_retries by less than the number of workers.
THEOREM OvershootBounded == Spec => []RetryOvershootBounded
<1>1. IInv => RetryOvershootBounded
  BY HoldersCounted, WorkersCounted, RetryAssumption
     DEF IInv, TypeOK, RetryBudget, RetryOvershootBounded
<1>2. QED
  BY <1>1, Invariance, PTL

\* One worker per task until ResetStale takes a task from a live worker.
THEOREM Exclusive == Spec => []ExclusiveUnlessOverrun
<1>1. IInv => ExclusiveUnlessOverrun
  BY DEF IInv
<1>2. QED
  BY <1>1, Invariance, PTL

\* A verdict changes only through a worker that lost its claim to ResetStale.
THEOREM VerdictsUndoneOnlyByOverrun == Spec => SettledUndoneOnlyByOverrun
<1> DEFINE Keeps == \A t \in Task :
      status[t] \in {"completed", "failed"} /\ status'[t] # status[t] => overrun[t]
<1>1. ASSUME IInv, [Next]_vars, NEW t \in Task,
             status[t] \in {"completed", "failed"}, ~overrun[t]
      PROVE  status'[t] = status[t]
  <2>1. \A w \in Worker : claim[w] # t
    BY <1>1 DEF IInv, ExclusiveUnlessOverrun, Holders
  <2>2. ASSUME NEW w \in Worker, Complete(w) \/ Fail(w) PROVE status'[t] = status[t]
    BY <1>1, <2>1, <2>2 DEF Complete, Fail, IInv, TypeOK
  <2>3. ASSUME NEW w \in Worker, RunOnce(w) PROVE status'[t] = status[t]
    BY <1>1, <2>2, <2>3 DEF RunOnce, ResetStale, Resettable, Poll, Oldest, Pollable,
                            PollEmpty, Handle, rowVars, IInv, TypeOK
  <2>4. ASSUME NEW u \in Task, Enqueue(u) \/ Age(u) PROVE status'[t] = status[t]
    BY <1>1, <2>4 DEF Enqueue, Age, IInv, TypeOK
  <2>5. ASSUME NEW w \in Worker, Fault(w) \/ Restart(w) PROVE status'[t] = status[t]
    BY <2>5 DEF Fault, ResetStaleError, PollError, ReportLost, Crash, Restart, rowVars
  <2>6. QED
    BY <1>1, <2>3, <2>4, <2>5 DEF Next, vars
<1>2. IInv /\ [Next]_vars => [Keeps]_vars
  BY <1>1
<1>3. QED
  BY <1>2, Invariance, PTL DEF Spec, SettledUndoneOnlyByOverrun
------------------------------------------------------------------------------
(* Refinement: with handlers that stay within the stale timeout, TaskQueue  *)
(* implements RetryQueue.                                                   *)

LEMMA InitLease == Init => LeaseInv
BY DEF Init, LeaseInv

\* A row becomes stale only when nobody holds it, and is polled fresh.
LEMMA NextLease == ~HandlerOverruns /\ IInv /\ LeaseInv /\ [Next]_vars => LeaseInv'
<1> SUFFICES ASSUME ~HandlerOverruns, IInv, LeaseInv, [Next]_vars PROVE LeaseInv'
  OBVIOUS
<1>0. TypeOK /\ TypeOK'
  BY TypeOKStep DEF IInv
<1>1. ASSUME NEW t \in Task, Enqueue(t) PROVE LeaseInv'
  BY <1>1 DEF Enqueue, LeaseInv, Holders
<1>2. ASSUME NEW t \in Task, Age(t) PROVE LeaseInv'
  BY <1>0, <1>2 DEF Age, LeaseInv, Holders, TypeOK
<1>3. ASSUME NEW w \in Worker, ResetStale(w) PROVE LeaseInv'
  BY <1>0, <1>3 DEF ResetStale, Resettable, LeaseInv, Holders, TypeOK
<1>4. ASSUME NEW w \in Worker, NEW t \in Task, Poll(w, t) PROVE LeaseInv'
  <2>1. claim[w] \notin Task /\ claim' = [claim EXCEPT ![w] = t]
    BY <1>0, <1>4 DEF Poll, TypeOK
  <2>2. \A u \in Task : u # t => Holders(u)' = Holders(u)
    BY <1>0, <2>1, TakeHolders
  <2>3. QED
    BY <1>0, <1>4, <2>2 DEF Poll, LeaseInv, TypeOK
<1>5. ASSUME NEW w \in Worker, claim' = [claim EXCEPT ![w] = NoTask],
             overrun' = overrun, \A t \in Task : stale'[t] => stale[t]
      PROVE  LeaseInv'
  <2>1. ASSUME NEW t \in Task, Holders(t) = {} PROVE Holders(t)' = {}
    BY <1>0, <1>5, <2>1, TaskAssumption DEF Holders, TypeOK
  <2>2. QED
    BY <1>5, <2>1 DEF LeaseInv
<1>6. ASSUME NEW w \in Worker, Complete(w) \/ Fail(w) PROVE LeaseInv'
  <2>1. \A t \in Task : stale'[t] => stale[t]
    BY <1>0, <1>6 DEF Complete, Fail, TypeOK
  <2>2. QED
    BY <1>5, <1>6, <2>1 DEF Complete, Fail, Release
<1>7. ASSUME NEW w \in Worker, ReportLost(w) \/ Crash(w) PROVE LeaseInv'
  BY <1>5, <1>7 DEF ReportLost, Crash, Release, rowVars
<1>8. CASE UNCHANGED <<rowVars, claim, overrun>>
  BY <1>8 DEF rowVars, LeaseInv, Holders
<1>9. ASSUME NEW w \in Worker, RunOnce(w) \/ Fault(w) \/ Restart(w) PROVE LeaseInv'
  BY <1>3, <1>4, <1>6, <1>7, <1>8, <1>9
     DEF RunOnce, Fault, PollEmpty, Handle, ResetStaleError, PollError, Restart
<1>10. QED
  BY <1>1, <1>2, <1>8, <1>9 DEF Next, vars, rowVars

\* The refinement mapping, named so that the steps below can speak of it.
PhaseOf == [t \in Task |->
              CASE status[t] = "absent"    -> "absent"
                [] status[t] = "completed" -> "done"
                [] status[t] = "failed"    -> "dropped"
                [] OTHER                   -> "open"]
RunningOf == [t \in Task |-> Holders(t) # {}]

LEMMA InitRefines == Init => Promise!Init
<1> SUFFICES ASSUME Init PROVE Promise!Init
  OBVIOUS
<1>1. \A t \in Task : Holders(t) = {}
  BY TaskAssumption DEF Init, Holders
<1>2. QED
  BY <1>1 DEF Init, Promise!Init

\* A step that moves no task to another phase, holder or attempt stutters.
LEMMA StutterRefines ==
  ASSUME \A t \in Task : Holders(t)' = Holders(t), attempts' = attempts,
         PhaseOf' = PhaseOf
  PROVE  UNCHANGED Promise!vars
<1>1. RunningOf' = RunningOf
  BY DEF RunningOf
<1>2. QED
  BY <1>1 DEF PhaseOf, RunningOf, Promise!vars

\* A worker gives up its claim on t: the only change is that t is no longer
\* running, and t is open.
LEMMA ReleaseRefines ==
  ASSUME IInv, LeaseInv, NEW w \in Worker, NEW t \in Task, claim[w] = t,
         claim' = [claim EXCEPT ![w] = NoTask]
  PROVE  /\ status[t] = "processing"
         /\ RunningOf[t]
         /\ RunningOf' = [RunningOf EXCEPT ![t] = FALSE]
<1>1. ~overrun[t]
  BY DEF LeaseInv
<1>2. status[t] = "processing" /\ Holders(t)' = {} /\ w \in Holders(t)
  BY <1>1, SoleHolder, ReleaseHolders DEF IInv
<1>3. \A u \in Task : u # t => Holders(u)' = Holders(u)
  BY ReleaseHolders DEF IInv
<1>4. QED
  BY <1>2, <1>3 DEF RunningOf

LEMMA NextRefines ==
  IInv /\ LeaseInv /\ [Next]_vars => [Promise!Next]_(Promise!vars)
<1> SUFFICES ASSUME IInv, LeaseInv, [Next]_vars
             PROVE  Promise!Next \/ UNCHANGED Promise!vars
  OBVIOUS
<1> USE DEF Promise!Next
<1>1. ASSUME NEW t \in Task, Enqueue(t) PROVE Promise!Next
  <2>1. \A u \in Task : Holders(u)' = Holders(u)
    BY <1>1 DEF Enqueue, Holders
  <2>2. Promise!Submit(t)
    BY <1>1, <2>1 DEF Enqueue, IInv, TypeOK, Promise!Submit
  <2>3. QED
    BY <2>2
<1>2. ASSUME NEW t \in Task, Age(t) PROVE UNCHANGED Promise!vars
  BY <1>2, StutterRefines DEF Age, Holders, PhaseOf
<1>3. ASSUME NEW w \in Worker, ResetStale(w) PROVE UNCHANGED Promise!vars
  <2>1. PhaseOf' = PhaseOf
    <3>1. ASSUME NEW t \in Task PROVE PhaseOf'[t] = PhaseOf[t]
      BY <1>3, <3>1 DEF ResetStale, Resettable, IInv, TypeOK, PhaseOf
    <3>2. QED
      BY <3>1 DEF PhaseOf
  <2>2. QED
    BY <1>3, <2>1, StutterRefines DEF ResetStale, Holders
<1>4. ASSUME NEW w \in Worker, NEW t \in Task, Poll(w, t) PROVE Promise!Next
  <2>1. claim[w] \notin Task /\ claim' = [claim EXCEPT ![w] = t]
    BY <1>4 DEF IInv, TypeOK, Poll
  <2>2. status[t] = "pending" /\ Holders(t) = {}
    BY <1>4 DEF Poll, Oldest, Pollable, IInv, LeaseInv, ExclusiveUnlessOverrun
  <2>3. /\ \A u \in Task : u # t => Holders(u)' = Holders(u)
        /\ Holders(t)' = Holders(t) \cup {w}
    BY <2>1, TakeHolders DEF IInv
  <2>4. RunningOf' = [RunningOf EXCEPT ![t] = TRUE] /\ ~RunningOf[t]
    BY <2>2, <2>3 DEF RunningOf
  <2>5. PhaseOf' = PhaseOf /\ PhaseOf[t] = "open"
    <3>1. status' = [status EXCEPT ![t] = "processing"]
      BY <1>4 DEF Poll
    <3>2. ASSUME NEW u \in Task PROVE PhaseOf'[u] = PhaseOf[u]
      BY <2>2, <3>1 DEF IInv, TypeOK, PhaseOf
    <3>3. QED
      BY <2>2, <3>2 DEF PhaseOf
  <2>6. Promise!Start(t)
    BY <1>4, <2>4, <2>5 DEF Poll, Promise!Start, PhaseOf, RunningOf
  <2>7. QED
    BY <2>6
<1>5. ASSUME NEW w \in Worker, Complete(w) PROVE Promise!Next
  <2>1. PICK t \in Task : claim[w] = t /\ claim' = [claim EXCEPT ![w] = NoTask]
    BY <1>5 DEF IInv, TypeOK, Complete, Release
  <2>2. /\ status[t] = "processing"
        /\ RunningOf[t]
        /\ RunningOf' = [RunningOf EXCEPT ![t] = FALSE]
    BY <2>1, ReleaseRefines
  <2>3. PhaseOf' = [PhaseOf EXCEPT ![t] = "done"] /\ PhaseOf[t] = "open"
    BY <1>5, <2>1, <2>2 DEF Complete, IInv, TypeOK, PhaseOf
  <2>4. Promise!Finish(t)
    BY <1>5, <2>2, <2>3 DEF Complete, Promise!Finish, PhaseOf, RunningOf
  <2>5. QED
    BY <2>4
<1>6. ASSUME NEW w \in Worker, Fail(w) PROVE Promise!Next
  <2>1. PICK t \in Task : claim[w] = t /\ claim' = [claim EXCEPT ![w] = NoTask]
    BY <1>6 DEF IInv, TypeOK, Fail, Release
  <2>2. /\ status[t] = "processing"
        /\ RunningOf[t]
        /\ RunningOf' = [RunningOf EXCEPT ![t] = FALSE]
    BY <2>1, ReleaseRefines
  <2>3. PhaseOf[t] = "open" /\ attempts' = attempts
    BY <1>6, <2>2 DEF Fail, PhaseOf
  <2>4. CASE Exhausted(retry[t] + 1)
    <3>1. PhaseOf' = [PhaseOf EXCEPT ![t] = "dropped"]
      BY <1>6, <2>1, <2>2, <2>4 DEF Fail, IInv, TypeOK, PhaseOf
    <3>2. attempts[t] >= MaxRetries
      <4>1. Cardinality(Holders(t)) \in Nat \ {0}
        BY <2>1, ReleaseHolders, HoldersCounted, HoldersCountedNext DEF IInv
      <4>2. QED
        BY <2>4, <4>1, RetryAssumption DEF Exhausted, IInv, TypeOK, AttemptAccounting
    <3>3. Promise!Drop(t)
      BY <2>2, <2>3, <3>1, <3>2 DEF Promise!Drop, PhaseOf, RunningOf
    <3>4. QED
      BY <3>3
  <2>5. CASE ~Exhausted(retry[t] + 1)
    <3>1. status' = [status EXCEPT ![t] = "pending"]
      BY <1>6, <2>1, <2>5 DEF Fail
    <3>2. ASSUME NEW u \in Task PROVE PhaseOf'[u] = PhaseOf[u]
      BY <2>2, <3>1 DEF IInv, TypeOK, PhaseOf
    <3>3. PhaseOf' = PhaseOf
      BY <3>2 DEF PhaseOf
    <3>4. Promise!Yield(t)
      BY <2>2, <2>3, <3>3 DEF Promise!Yield, PhaseOf, RunningOf
    <3>5. QED
      BY <3>4
  <2>6. QED
    BY <2>4, <2>5
<1>7. ASSUME NEW w \in Worker, claim' = [claim EXCEPT ![w] = NoTask],
             status' = status, attempts' = attempts
      PROVE  Promise!Next \/ UNCHANGED Promise!vars
  <2>1. PhaseOf' = PhaseOf
    BY <1>7 DEF PhaseOf
  <2>2. CASE claim[w] \notin Task
    BY <1>7, <2>1, <2>2, StutterRefines, ReleaseHolders DEF IInv
  <2>3. CASE claim[w] \in Task
    <3>1. PICK t \in Task : claim[w] = t
      BY <2>3
    <3>2. /\ status[t] = "processing"
          /\ RunningOf[t]
          /\ RunningOf' = [RunningOf EXCEPT ![t] = FALSE]
      BY <1>7, <3>1, ReleaseRefines
    <3>3. Promise!Yield(t)
      BY <1>7, <2>1, <3>2 DEF Promise!Yield, PhaseOf, RunningOf
    <3>4. QED
      BY <3>3
  <2>4. QED
    BY <2>2, <2>3
<1>8. CASE UNCHANGED <<rowVars, claim, attempts>>
  BY <1>8, StutterRefines DEF rowVars, Holders, PhaseOf
<1>9. ASSUME NEW w \in Worker, RunOnce(w) PROVE Promise!Next \/ UNCHANGED Promise!vars
  BY <1>3, <1>4, <1>5, <1>6, <1>8, <1>9 DEF RunOnce, PollEmpty, Handle
<1>10. ASSUME NEW w \in Worker, Fault(w) \/ Restart(w)
       PROVE  Promise!Next \/ UNCHANGED Promise!vars
  BY <1>7, <1>8, <1>10
     DEF Fault, ResetStaleError, PollError, ReportLost, Crash, Restart, Release, rowVars
<1>11. QED
  BY <1>1, <1>2, <1>8, <1>9, <1>10 DEF Next, vars, rowVars

\* When no handler outlives staleTimeout, the table and its workers keep
\* the promise of RetryQueue: one execution at a time, final verdicts, and a
\* drop only after MaxRetries executions.
THEOREM QueueImplementsPromise == ~HandlerOverruns => (Spec => ImplementsRetryQueue)
<1> SUFFICES ASSUME ~HandlerOverruns PROVE Spec => ImplementsRetryQueue
  OBVIOUS
<1>1. IInv /\ LeaseInv /\ [Next]_vars => LeaseInv'
  BY NextLease
<1>2. QED
  BY <1>1, InitIInv, NextIInv, InitLease, InitRefines, NextRefines, PTL
     DEF Spec, ImplementsRetryQueue, Promise!Spec
==============================================================================
