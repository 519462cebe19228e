------------------------ MODULE SessionFinalizeProofs ------------------------
(***************************************************************************)
(* Proofs about SessionFinalize for every number of callers, repairers,    *)
(* keys and repair attempts, with and without faults.                      *)
(***************************************************************************)
EXTENDS SessionFinalize, TLAPS

USE DEF SessionState, RunPC, PC, rowVars, keyVars, history, runVars

LEMMA InitIInv == Init => IInv
<1> SUFFICES ASSUME Init PROVE IInv
  OBVIOUS
<1> USE DEF Init
<1>1. TypeOK
  <2>1. 0 \in 0..MaxAttempts
    BY AttemptAssumption
  <2>2. listed \in [Repairer -> [state : SessionState, attempts : 0..MaxAttempts]]
    BY <2>1
  <2>3. \A c \in Caller : key[c] \in HostKey <=> pc[c] \notin {"idle", "away"}
    BY ProcessAssumption DEF Runner
  <2>4. pc \in [Runner -> PC] /\ key \in [Caller -> HostKey \cup {NoOne}]
    OBVIOUS
  <2>5. keys \in [HostKey -> {"free", "reserved", "bound"}] /\ execs \in [HostKey -> 0..2]
    OBVIOUS
  <2>6. host \in [Host -> SessionState \cup {"none"}]
    OBVIOUS
  <2>7. stale \in BOOLEAN /\ marked \in BOOLEAN /\ told \in BOOLEAN
    OBVIOUS
  <2>8. attempts \in 0..MaxAttempts /\ rounds \in 0..MaxAttempts /\ summaries \in 0..2
    BY <2>1
  <2>9. QED
    BY <2>2, <2>3, <2>4, <2>5, <2>6, <2>7, <2>8, Zenon DEF TypeOK
<1>2. KeyAccounting /\ OneExecutionPerKey
  BY DEF ToExecute, KeyAccounting, OneExecutionPerKey, Runner
<1>3. MarkAccounting /\ BoundMeansMarked
  BY DEF MarkAccounting, BoundMeansMarked
<1>4. RoundAccounting /\ AbandonedOnlyAfterAttempts
  BY DEF RoundAccounting, AbandonedOnlyAfterAttempts
<1>5. QED
  BY <1>1, <1>2, <1>3, <1>4 DEF IInv

\* UpdateState, done or failed, puts a state of the state machine in the row
\* and leaves the rest of what TypeOK says of it.
LEMMA RowWritten ==
  ASSUME TypeOK, NEW s \in SessionState, UpdateState(s) \/ UpdateStateFails
  PROVE  /\ state' \in SessionState \cup {"absent"}
         /\ state' \in {state, s}
         /\ stale' \in BOOLEAN
         /\ UNCHANGED <<attempts, marker>>
BY DEF UpdateState, UpdateStateFails, TypeOK

\* A run that ends somewhere outside Finalize.
LEMMA Returned ==
  ASSUME TypeOK, NEW p \in Runner, NEW l \in {"idle", "demote"}, Return(p, l),
         p \in Caller => l = "idle"
  PROVE  /\ pc' = [pc EXCEPT ![p] = l]
         /\ pc' \in [Runner -> PC]
         /\ key' \in [Caller -> HostKey \cup {NoOne}]
         /\ \A c \in Caller : key'[c] \in HostKey <=> pc'[c] \notin {"idle", "away"}
         /\ \A c \in Caller : c # p => key'[c] = key[c]
BY ProcessAssumption DEF Return, Goto, TypeOK, Runner

\* A run that goes on, with its key.
LEMMA GoneOn ==
  ASSUME TypeOK, NEW p \in Runner, NEW l \in PC \ {"idle", "away"}, Goto(p, l),
         pc[p] \notin {"idle", "away"}, UNCHANGED key
  PROVE  /\ pc' = [pc EXCEPT ![p] = l]
         /\ pc' \in [Runner -> PC]
         /\ \A c \in Caller : key'[c] \in HostKey <=> pc'[c] \notin {"idle", "away"}
BY ProcessAssumption DEF Goto, TypeOK, Runner

------------------------------------------------------------------------------

LEMMA TypeOKStep == TypeOK /\ RoundAccounting /\ [Next]_vars => TypeOK'
<1> SUFFICES ASSUME TypeOK, RoundAccounting, [Next]_vars PROVE TypeOK'
  OBVIOUS
<1> USE ProcessAssumption, AttemptAssumption DEF Runner
<1>1. ASSUME NEW c \in Caller, Call(c) PROVE TypeOK'
  BY <1>1 DEF Call, Goto, TypeOK
<1>2. ASSUME NEW c \in Runner, Reserve(c) PROVE TypeOK'
  <2>1. CASE Reservable(key[c])
    <3>1. keys' = [keys EXCEPT ![key[c]] = "reserved"] /\ Goto(c, "get") /\ UNCHANGED <<key, told>>
      BY <1>2, <2>1 DEF Reserve
    <3>2. pc[c] \notin {"idle", "away"} /\ c \in Caller
      BY <1>2 DEF Reserve
    <3>3. keys' \in [HostKey -> {"free", "reserved", "bound"}]
      BY <3>1, <3>2 DEF TypeOK
    <3>4. QED
      BY <1>2, <3>1, <3>2, <3>3, GoneOn DEF Reserve, TypeOK
  <2>2. CASE ~Reservable(key[c])
    BY <1>2, <2>2, Returned DEF Reserve, ReturnFinalized, TypeOK
  <2>3. QED
    BY <2>1, <2>2
<1>3. ASSUME NEW r \in Runner, ReserveRepair(r) PROVE TypeOK'
  <2>1. CASE second = NoOne
    BY <1>3, <2>1, GoneOn DEF ReserveRepair, TypeOK
  <2>2. CASE second # NoOne
    BY <1>3, <2>2, Returned DEF ReserveRepair, ReturnFinalized, TypeOK
  <2>3. QED
    BY <2>1, <2>2
<1>4. ASSUME NEW p \in Runner, ReserveFails(p) PROVE TypeOK'
  BY <1>4, Returned DEF ReserveFails, ReturnError, TypeOK
<1>5. ASSUME NEW p \in Runner, Get(p) PROVE TypeOK'
  <2>1. CASE state = "absent" \/ Faults
    <3>1. CASE ReturnError(p) /\ UNCHANGED told
      BY <1>5, <3>1, Returned DEF Get, ReturnError, TypeOK
    <3>2. CASE ReturnFinalized(p)
      BY <1>5, <3>2, Returned DEF Get, ReturnFinalized, TypeOK
    <3>3. CASE Goto(p, IF state \in {"active", "pending_repair"} THEN "mark" ELSE "summarize")
               /\ UNCHANGED <<key, told>>
      BY <1>5, <3>3, GoneOn DEF Get, TypeOK
    <3>4. QED
      BY <1>5, <3>1, <3>2, <3>3 DEF Get
  <2>2. CASE ~(state = "absent" \/ Faults)
    <3>2. CASE ReturnFinalized(p)
      BY <1>5, <3>2, Returned DEF Get, ReturnFinalized, TypeOK
    <3>3. CASE Goto(p, IF state \in {"active", "pending_repair"} THEN "mark" ELSE "summarize")
               /\ UNCHANGED <<key, told>>
      BY <1>5, <3>3, GoneOn DEF Get, TypeOK
    <3>4. QED
      BY <1>5, <2>2, <3>2, <3>3 DEF Get
  <2>3. QED
    BY <2>1, <2>2
<1>6. ASSUME NEW p \in Runner, Mark(p) PROVE TypeOK'
  BY <1>6, RowWritten, GoneOn DEF Mark, TypeOK
<1>7. ASSUME NEW p \in Runner, Summarize(p) PROVE TypeOK'
  <2>1. Goto(p, "marker") /\ pc[p] \notin {"idle", "away"} /\ UNCHANGED key
    BY <1>7 DEF Summarize, AfterSummaryError
  <2>2. marker' \in {0, 1} /\ summaries' \in 0..2
    BY <1>7 DEF Summarize, TypeOK
  <2>3. execs' \in [HostKey -> 0..2]
    BY <1>7 DEF Summarize, TypeOK
  <2>4. QED
    BY <1>7, <2>1, <2>2, <2>3, GoneOn DEF Summarize, TypeOK
<1>8. ASSUME NEW p \in Runner, MarkFinalized(p) PROVE TypeOK'
  BY <1>8, GoneOn DEF MarkFinalized, AfterMarkError, TypeOK
<1>9. ASSUME NEW p \in Runner, FinalizeFailed(p) PROVE TypeOK'
  <2>1. PICK l \in {"idle", "demote"} : Return(p, l) /\ (p \in Caller => l = "idle")
    BY <1>9 DEF FinalizeFailed, ReturnError
  <2>2. QED
    BY <1>9, <2>1, RowWritten, Returned DEF FinalizeFailed, TypeOK
<1>10. ASSUME NEW p \in Runner, Close(p) PROVE TypeOK'
  BY <1>10, RowWritten, GoneOn DEF Close, TypeOK
<1>11. ASSUME NEW p \in Runner, Bind(p) PROVE TypeOK'
  <2>1. keys' \in [HostKey -> {"free", "reserved", "bound"}]
    BY <1>11 DEF Bind, TypeOK
  <2>2. QED
    BY <1>11, <2>1, Returned DEF Bind, ReturnFinalized, TypeOK
<1>12. ASSUME NEW r \in Repairer, List(r) PROVE TypeOK'
  BY <1>12 DEF List, Listable, Goto, TypeOK
<1>13. ASSUME NEW r \in Repairer, Abandon(r) PROVE TypeOK'
  BY <1>13, RowWritten DEF Abandon, Goto, TypeOK
<1>14. ASSUME NEW r \in Repairer, CountAttempt(r) PROVE TypeOK'
  <2>0. listed[r].attempts \in 0..MaxAttempts /\ listed[r].attempts < MaxAttempts
    BY <1>14 DEF CountAttempt, UsedUp, TypeOK
  <2>1. attempts' \in 0..MaxAttempts /\ UNCHANGED <<state, marker>>
    BY <1>14, <2>0 DEF CountAttempt, TypeOK
  <2>2. stale' \in BOOLEAN
    BY <1>14 DEF CountAttempt, TypeOK
  <2>3. rounds' \in 0..MaxAttempts
    BY <1>14 DEF CountAttempt, TypeOK
  <2>4. QED
    BY <1>14, <2>1, <2>2, <2>3 DEF CountAttempt, Goto, TypeOK
<1>15. ASSUME NEW r \in Repairer, Demote(r) PROVE TypeOK'
  BY <1>15, RowWritten DEF Demote, Goto, TypeOK
<1>16. ASSUME NEW p \in Runner, Crash(p) PROVE TypeOK'
  BY <1>16, Returned DEF Crash, TypeOK
<1>17. ASSUME NEW h \in Host, HostStep(h) PROVE TypeOK'
  <2>1. CASE Create(h)
    BY <2>1 DEF Create, TypeOK
  <2>2. CASE HostCheck(h)
    BY <2>2, TargetAssumption DEF HostCheck, TypeOK
  <2>3. CASE HostWrite(h)
    <3>1. host[h] \in SessionState
      BY <2>3 DEF HostWrite, TypeOK
    <3>2. QED
      BY <2>3, <3>1, RowWritten DEF HostWrite, TypeOK
  <2>4. CASE Touch(h)
    BY <2>4 DEF Touch, TypeOK
  <2>5. QED
    BY <1>17, <2>1, <2>2, <2>3, <2>4 DEF HostStep
<1>18. CASE Age
  BY <1>18 DEF Age, TypeOK
<1>19. CASE Tick
  BY <1>19 DEF Tick, TypeOK
<1>20. CASE UNCHANGED vars
  BY <1>20 DEF vars, TypeOK
<1>21. QED
  BY <1>1, <1>2, <1>3, <1>4, <1>5, <1>6, <1>7, <1>8, <1>9, <1>10, <1>11, <1>12,
     <1>13, <1>14, <1>15, <1>16, <1>17, <1>18, <1>19, <1>20
     DEF Next, Run, Finalize, Repair

------------------------------------------------------------------------------

\* A run past the summarizer, or a runner outside Finalize, cannot spoil the
\* accounting of keys: no key is freed, nobody starts to execute.
LEMMA KeysKept ==
  ASSUME TypeOK, KeyAccounting, OneExecutionPerKey,
         execs' = execs,
         \A k \in HostKey : keys'[k] = "free" <=> keys[k] = "free",
         \A c \in Caller : pc'[c] \in RunPC => pc[c] \in RunPC /\ key'[c] = key[c],
         \A c \in Caller : ToExecute(c)' => ToExecute(c)
  PROVE  KeyAccounting' /\ OneExecutionPerKey'
<1>1. \A c \in Caller : pc[c] \in RunPC => key[c] \in HostKey
  BY DEF TypeOK
<1>2. \A c \in Caller : ToExecute(c)' => pc'[c] \in RunPC
  BY DEF ToExecute
<1>3. \A c \in Caller : ToExecute(c)' => ToExecute(c) /\ key'[c] = key[c] /\ key[c] \in HostKey
  BY <1>1, <1>2
<1>4. \A k \in HostKey : keys'[k] = "free" => execs'[k] = 0
  BY DEF KeyAccounting
<1>5. \A c \in Caller : pc'[c] \in RunPC => keys'[key'[c]] # "free"
  BY <1>1 DEF KeyAccounting
<1>6. \A c \in Caller : ToExecute(c)' => execs'[key'[c]] = 0
  BY <1>3 DEF KeyAccounting
<1>7. \A c, d \in Caller : ToExecute(c)' /\ ToExecute(d)' /\ key'[c] = key'[d] => c = d
  BY <1>3 DEF KeyAccounting
<1>8. QED
  BY <1>4, <1>5, <1>6, <1>7 DEF KeyAccounting, OneExecutionPerKey

LEMMA KeyStep ==
  TypeOK /\ KeyAccounting /\ OneExecutionPerKey /\ [Next]_vars
    => KeyAccounting' /\ OneExecutionPerKey'
<1> SUFFICES ASSUME TypeOK, KeyAccounting, OneExecutionPerKey, [Next]_vars
             PROVE  KeyAccounting' /\ OneExecutionPerKey'
  OBVIOUS
<1> USE DEF Runner
<1>1. ASSUME NEW c \in Caller, Call(c) PROVE KeyAccounting' /\ OneExecutionPerKey'
  BY <1>1, KeysKept DEF Call, Goto, ToExecute, TypeOK
\* Reserve: the key was free, so nobody runs on it and nobody has.
<1>2. ASSUME NEW p \in Runner, Reserve(p) PROVE KeyAccounting' /\ OneExecutionPerKey'
  <2>1. CASE Reservable(key[p])
    <3>1. /\ p \in Caller /\ key[p] \in HostKey /\ keys[key[p]] = "free"
          /\ keys' = [keys EXCEPT ![key[p]] = "reserved"]
          /\ pc' = [pc EXCEPT ![p] = "get"]
          /\ key' = key /\ execs' = execs
      BY <1>2, <2>1 DEF Reserve, Reservable, Goto, TypeOK
    <3>2. \A k \in HostKey : /\ k # key[p] => keys'[k] = keys[k]
                             /\ keys'[key[p]] = "reserved"
      BY <3>1 DEF TypeOK
    <3>3. \A c \in Caller : c # p => pc'[c] = pc[c]
      BY <3>1 DEF TypeOK
    <3>4. \A c \in Caller : c # p /\ pc'[c] \in RunPC => /\ key[c] \in HostKey
                                                       /\ key[c] # key[p]
                                                       /\ keys'[key[c]] # "free"
      BY <3>1, <3>2, <3>3 DEF KeyAccounting, TypeOK
    <3>5. \A c \in Caller : c # p /\ ToExecute(c)' => ToExecute(c) /\ key[c] # key[p]
      BY <3>3, <3>4 DEF ToExecute
    <3>6. execs[key[p]] = 0
      BY <3>1 DEF KeyAccounting
    <3>7. \A k \in HostKey : keys'[k] = "free" => execs'[k] = 0
      BY <3>1, <3>2 DEF KeyAccounting
    <3>8. \A c \in Caller : pc'[c] \in RunPC => keys'[key'[c]] # "free"
      BY <3>1, <3>2, <3>4
    <3>9. \A c \in Caller : ToExecute(c)' => execs'[key'[c]] = 0
      BY <3>1, <3>5, <3>6 DEF KeyAccounting
    <3>10. \A c, d \in Caller : ToExecute(c)' /\ ToExecute(d)' /\ key'[c] = key'[d] => c = d
      BY <3>1, <3>5 DEF KeyAccounting
    <3>11. QED
      BY <3>1, <3>7, <3>8, <3>9, <3>10 DEF KeyAccounting, OneExecutionPerKey
  <2>2. CASE ~Reservable(key[p])
    BY <1>2, <2>2, Returned, KeysKept
       DEF Reserve, ReturnFinalized, ToExecute, TypeOK
  <2>3. QED
    BY <2>1, <2>2
<1>3. ASSUME NEW r \in Runner, ReserveRepair(r) PROVE KeyAccounting' /\ OneExecutionPerKey'
  <2>1. /\ r \notin Caller /\ execs' = execs /\ keys' = keys
        /\ \A c \in Caller : c # r => pc'[c] = pc[c]
    BY <1>3, ProcessAssumption, Returned
       DEF ReserveRepair, ReturnFinalized, Return, Goto, TypeOK
  <2>2. key' = key
    BY <1>3, <2>1 DEF ReserveRepair, ReturnFinalized, Return
  <2>3. QED
    BY <2>1, <2>2, KeysKept DEF ToExecute
<1>4. ASSUME NEW p \in Runner, execs' = execs, keys' = keys,
             NEW l \in {"idle", "demote"}, Return(p, l), p \in Caller => l = "idle"
      PROVE  KeyAccounting' /\ OneExecutionPerKey'
  BY <1>4, Returned, KeysKept DEF ToExecute, TypeOK
<1>5. ASSUME NEW p \in Runner, ReserveFails(p) PROVE KeyAccounting' /\ OneExecutionPerKey'
  BY <1>5, <1>4, ProcessAssumption DEF ReserveFails, ReturnError
<1>6. ASSUME NEW p \in Runner, Get(p) PROVE KeyAccounting' /\ OneExecutionPerKey'
  <2>1. CASE \E l \in {"idle", "demote"} : Return(p, l) /\ (p \in Caller => l = "idle")
    BY <1>6, <2>1, <1>4 DEF Get
  <2>2. CASE \E l \in {"mark", "summarize"} : Goto(p, l) /\ key' = key
    BY <1>6, <2>2, KeysKept DEF Get, Goto, ToExecute, TypeOK
  <2>3. QED
    BY <1>6, <2>1, <2>2, ProcessAssumption DEF Get, ReturnError, ReturnFinalized
<1>7. ASSUME NEW p \in Runner, Mark(p) PROVE KeyAccounting' /\ OneExecutionPerKey'
  BY <1>7, KeysKept DEF Mark, Goto, ToExecute, TypeOK
\* Summarize: the one run of its key that had still to execute, executes.
<1>8. ASSUME NEW p \in Runner, Summarize(p) PROVE KeyAccounting' /\ OneExecutionPerKey'
  <2>1. /\ pc' = [pc EXCEPT ![p] = "marker"] /\ key' = key /\ keys' = keys
        /\ pc[p] = "summarize"
    BY <1>8 DEF Summarize, AfterSummaryError, Goto
  <2>2. \A c \in Caller : /\ pc'[c] \in RunPC => pc[c] \in RunPC
                          /\ ToExecute(c)' => ToExecute(c) /\ c # p
    BY <2>1 DEF ToExecute, TypeOK
  <2>3. CASE p \notin Caller
    <3>1. execs' = execs
      BY <1>8, <2>3 DEF Summarize
    <3>2. QED
      BY <2>1, <2>2, <3>1, KeysKept
  <2>4. CASE p \in Caller
    <3>1. key[p] \in HostKey /\ execs[key[p]] = 0 /\ keys[key[p]] # "free"
      BY <2>1, <2>4 DEF KeyAccounting, ToExecute, TypeOK
    <3>2. execs' = [execs EXCEPT ![key[p]] = 1]
      BY <1>8, <2>4, <3>1 DEF Summarize, TypeOK
    <3>3. \A k \in HostKey : /\ k # key[p] => execs'[k] = execs[k]
                             /\ execs'[key[p]] = 1
      BY <3>1, <3>2 DEF TypeOK
    <3>4. \A c \in Caller : ToExecute(c)' => /\ ToExecute(c) /\ key[c] # key[p]
                                           /\ key[c] \in HostKey
      BY <2>1, <2>2, <2>4 DEF KeyAccounting, ToExecute, TypeOK
    <3>5. OneExecutionPerKey'
      BY <3>1, <3>3 DEF OneExecutionPerKey
    <3>6. \A k \in HostKey : keys'[k] = "free" => execs'[k] = 0
      BY <2>1, <3>1, <3>3 DEF KeyAccounting
    <3>7. \A c \in Caller : pc'[c] \in RunPC => keys'[key'[c]] # "free"
      BY <2>1, <2>2 DEF KeyAccounting
    <3>8. \A c \in Caller : ToExecute(c)' => execs'[key'[c]] = 0
      BY <2>1, <3>3, <3>4 DEF KeyAccounting
    <3>9. \A c, d \in Caller : ToExecute(c)' /\ ToExecute(d)' /\ key'[c] = key'[d] => c = d
      BY <2>1, <3>4 DEF KeyAccounting
    <3>10. QED
      BY <3>5, <3>6, <3>7, <3>8, <3>9 DEF KeyAccounting
  <2>5. QED
    BY <2>3, <2>4
<1>9. ASSUME NEW p \in Runner, MarkFinalized(p) PROVE KeyAccounting' /\ OneExecutionPerKey'
  BY <1>9, KeysKept DEF MarkFinalized, AfterMarkError, Goto, ToExecute, TypeOK
<1>10. ASSUME NEW p \in Runner, FinalizeFailed(p) PROVE KeyAccounting' /\ OneExecutionPerKey'
  <2>1. \E l \in {"idle", "demote"} : Return(p, l) /\ (p \in Caller => l = "idle")
    BY <1>10, ProcessAssumption DEF FinalizeFailed, ReturnError
  <2>2. QED
    BY <1>10, <2>1, <1>4 DEF FinalizeFailed
<1>11. ASSUME NEW p \in Runner, Close(p) PROVE KeyAccounting' /\ OneExecutionPerKey'
  BY <1>11, KeysKept DEF Close, Goto, ToExecute, TypeOK
<1>12. ASSUME NEW p \in Runner, Bind(p) PROVE KeyAccounting' /\ OneExecutionPerKey'
  <2>1. \A k \in HostKey : keys'[k] = "free" <=> keys[k] = "free"
    <3>1. p \in Caller => key[p] \in HostKey /\ keys[key[p]] # "free"
      BY <1>12 DEF Bind, KeyAccounting, TypeOK
    <3>2. QED
      BY <1>12, <3>1 DEF Bind, TypeOK
  <2>2. Return(p, "idle") /\ execs' = execs
    BY <1>12 DEF Bind, ReturnFinalized
  <2>3. QED
    BY <2>1, <2>2, Returned, KeysKept DEF ToExecute, TypeOK
<1>13. ASSUME NEW r \in Repairer, Repair(r) PROVE KeyAccounting' /\ OneExecutionPerKey'
  <2>1. r \notin Caller /\ execs' = execs /\ keys' = keys /\ key' = key
        /\ \A c \in Caller : pc'[c] = pc[c]
    BY <1>13, ProcessAssumption
       DEF Repair, List, Abandon, CountAttempt, Demote, Goto, TypeOK
  <2>2. QED
    BY <2>1, KeysKept DEF ToExecute
<1>14. ASSUME NEW p \in Runner, Crash(p) PROVE KeyAccounting' /\ OneExecutionPerKey'
  BY <1>14, <1>4 DEF Crash
<1>15. ASSUME UNCHANGED <<keys, pc, key, execs>> PROVE KeyAccounting' /\ OneExecutionPerKey'
  BY <1>15, KeysKept DEF ToExecute
<1>16. ASSUME NEW h \in Host, HostStep(h) PROVE KeyAccounting' /\ OneExecutionPerKey'
  BY <1>16, <1>15 DEF HostStep, Create, HostCheck, HostWrite, Touch
<1>17. CASE Age \/ Tick \/ UNCHANGED vars
  BY <1>17, <1>15 DEF Age, Tick, vars
<1>18. QED
  BY <1>1, <1>2, <1>3, <1>5, <1>6, <1>7, <1>8, <1>9, <1>10, <1>11, <1>12, <1>13,
     <1>14, <1>16, <1>17 DEF Next, Run, Finalize

------------------------------------------------------------------------------

\* A run reaches Close and Bind through MarkFinalized only, and marked stays.
LEMMA MarkStep ==
  TypeOK /\ MarkAccounting /\ BoundMeansMarked /\ [Next]_vars
    => MarkAccounting' /\ BoundMeansMarked'
<1> SUFFICES ASSUME TypeOK, MarkAccounting, BoundMeansMarked, [Next]_vars
             PROVE  MarkAccounting' /\ BoundMeansMarked'
  OBVIOUS
<1> USE DEF Runner
<1>1. ASSUME marked' = marked,
             \A k \in HostKey : keys'[k] = "bound" => keys[k] = "bound",
             \A q \in Runner : pc'[q] \in {"close", "bind"} => pc[q] \in {"close", "bind"}
      PROVE  MarkAccounting' /\ BoundMeansMarked'
  BY <1>1 DEF MarkAccounting, BoundMeansMarked
<1>2. ASSUME NEW p \in Runner, NEW l \in PC \ {"close", "bind"},
             pc' = [pc EXCEPT ![p] = l], marked' = marked,
             \A k \in HostKey : keys'[k] = "bound" => keys[k] = "bound"
      PROVE  MarkAccounting' /\ BoundMeansMarked'
  BY <1>1, <1>2 DEF TypeOK
<1>3. ASSUME NEW c \in Caller, Call(c) PROVE MarkAccounting' /\ BoundMeansMarked'
  BY <1>2, <1>3 DEF Call, Goto
<1>4. ASSUME NEW p \in Runner, Reserve(p) PROVE MarkAccounting' /\ BoundMeansMarked'
  <2>1. \A k \in HostKey : keys'[k] = "bound" => keys[k] = "bound"
    BY <1>4 DEF Reserve, TypeOK
  <2>2. QED
    BY <1>2, <1>4, <2>1 DEF Reserve, ReturnFinalized, Return, Goto
<1>5. ASSUME NEW p \in Runner, ReserveRepair(p) PROVE MarkAccounting' /\ BoundMeansMarked'
  BY <1>2, <1>5 DEF ReserveRepair, ReturnFinalized, Return, Goto
<1>6. ASSUME NEW p \in Runner, ReserveFails(p) PROVE MarkAccounting' /\ BoundMeansMarked'
  BY <1>2, <1>6 DEF ReserveFails, ReturnError, Return, Goto
<1>7. ASSUME NEW p \in Runner, Get(p) PROVE MarkAccounting' /\ BoundMeansMarked'
  <2>1. PICK l \in {"idle", "demote", "mark", "summarize"} : pc' = [pc EXCEPT ![p] = l]
    BY <1>7 DEF Get, ReturnError, ReturnFinalized, Return, Goto
  <2>2. QED
    BY <1>2, <1>7, <2>1 DEF Get
<1>8. ASSUME NEW p \in Runner, Mark(p) PROVE MarkAccounting' /\ BoundMeansMarked'
  BY <1>2, <1>8 DEF Mark, Goto
<1>9. ASSUME NEW p \in Runner, Summarize(p) PROVE MarkAccounting' /\ BoundMeansMarked'
  BY <1>2, <1>9 DEF Summarize, AfterSummaryError, Goto
<1>10. ASSUME NEW p \in Runner, MarkFinalized(p) PROVE MarkAccounting' /\ BoundMeansMarked'
  <2>1. CASE marked' = TRUE
    BY <1>10, <2>1 DEF MarkFinalized, MarkAccounting, BoundMeansMarked
  <2>2. CASE UNCHANGED marked /\ Goto(p, "fail")
    BY <1>2, <1>10, <2>2 DEF MarkFinalized, Goto
  <2>3. QED
    BY <1>10, <2>1, <2>2 DEF MarkFinalized, AfterMarkError
<1>11. ASSUME NEW p \in Runner, FinalizeFailed(p) PROVE MarkAccounting' /\ BoundMeansMarked'
  BY <1>2, <1>11 DEF FinalizeFailed, ReturnError, Return, Goto
<1>12. ASSUME NEW p \in Runner, Close(p) PROVE MarkAccounting' /\ BoundMeansMarked'
  <2>1. marked /\ marked' = marked
    BY <1>12 DEF Close, MarkAccounting
  <2>2. QED
    BY <2>1 DEF MarkAccounting, BoundMeansMarked
<1>13. ASSUME NEW p \in Runner, Bind(p) PROVE MarkAccounting' /\ BoundMeansMarked'
  <2>1. marked /\ marked' = marked
    BY <1>13 DEF Bind, MarkAccounting
  <2>2. QED
    BY <2>1 DEF MarkAccounting, BoundMeansMarked
<1>14. ASSUME NEW r \in Repairer, Repair(r) PROVE MarkAccounting' /\ BoundMeansMarked'
  BY <1>2, <1>14 DEF Repair, List, Abandon, CountAttempt, Demote, Goto
<1>15. ASSUME NEW p \in Runner, Crash(p) PROVE MarkAccounting' /\ BoundMeansMarked'
  BY <1>2, <1>15 DEF Crash, Return, Goto
<1>16. ASSUME NEW h \in Host, HostStep(h) PROVE MarkAccounting' /\ BoundMeansMarked'
  BY <1>1, <1>16 DEF HostStep, Create, HostCheck, HostWrite, Touch
<1>17. CASE Age \/ Tick \/ UNCHANGED vars
  BY <1>1, <1>17 DEF Age, Tick, vars
<1>18. QED
  BY <1>3, <1>4, <1>5, <1>6, <1>7, <1>8, <1>9, <1>10, <1>11, <1>12, <1>13, <1>14,
     <1>15, <1>16, <1>17 DEF Next, Run, Finalize

------------------------------------------------------------------------------

\* Only Abandon makes the row "abandoned", and by then the listed attempts,
\* each of them a round, are used up.
LEMMA RoundStep ==
  TypeOK /\ RoundAccounting /\ AbandonedOnlyAfterAttempts /\ [Next]_vars
    => RoundAccounting' /\ AbandonedOnlyAfterAttempts'
<1> SUFFICES ASSUME TypeOK, RoundAccounting, AbandonedOnlyAfterAttempts, [Next]_vars
             PROVE  RoundAccounting' /\ AbandonedOnlyAfterAttempts'
  OBVIOUS
<1> USE AttemptAssumption DEF Runner
<1>1. ASSUME UNCHANGED <<attempts, listed, rounds, host>>,
             state' = "abandoned" => state = "abandoned"
      PROVE  RoundAccounting' /\ AbandonedOnlyAfterAttempts'
  BY <1>1 DEF RoundAccounting, AbandonedOnlyAfterAttempts
<1>2. ASSUME NEW s \in SessionState \ {"abandoned"}, UpdateState(s) \/ UpdateStateFails
      PROVE  attempts' = attempts /\ (state' = "abandoned" => state = "abandoned")
  BY <1>2 DEF UpdateState, UpdateStateFails
<1>3. ASSUME NEW p \in Runner,
             Reserve(p) \/ ReserveRepair(p) \/ ReserveFails(p) \/ Get(p)
               \/ Summarize(p) \/ MarkFinalized(p) \/ Bind(p) \/ Crash(p)
      PROVE  RoundAccounting' /\ AbandonedOnlyAfterAttempts'
  <2>1. UNCHANGED <<state, attempts, listed, rounds, host>>
    BY <1>3 DEF Reserve, ReserveRepair, ReserveFails, Get, Summarize,
                MarkFinalized, Bind, Crash
  <2>2. QED
    BY <1>1, <2>1
<1>4. ASSUME NEW p \in Runner, Mark(p) \/ FinalizeFailed(p) \/ Close(p)
      PROVE  RoundAccounting' /\ AbandonedOnlyAfterAttempts'
  BY <1>1, <1>2, <1>4 DEF Mark, FinalizeFailed, Close
<1>5. ASSUME NEW r \in Repairer, List(r)
      PROVE  RoundAccounting' /\ AbandonedOnlyAfterAttempts'
  <2>1. \A q \in Repairer : listed'[q].attempts \in {attempts, listed[q].attempts}
    BY <1>5 DEF List, TypeOK
  <2>2. QED
    BY <1>5, <2>1 DEF List, RoundAccounting, AbandonedOnlyAfterAttempts
<1>6. ASSUME NEW r \in Repairer, Abandon(r)
      PROVE  RoundAccounting' /\ AbandonedOnlyAfterAttempts'
  <2>1. MaxAttempts <= rounds
    <3>1. listed[r].attempts >= MaxAttempts /\ listed[r].attempts <= rounds
      BY <1>6 DEF Abandon, UsedUp, RoundAccounting
    <3>2. listed[r].attempts \in Nat /\ rounds \in Nat
      BY DEF TypeOK
    <3>3. QED
      BY <3>1, <3>2
  <2>2. UNCHANGED <<attempts, listed, rounds, host>>
    BY <1>6 DEF Abandon, UpdateState, UpdateStateFails
  <2>3. QED
    BY <2>1, <2>2 DEF TypeOK, RoundAccounting, AbandonedOnlyAfterAttempts
<1>7. ASSUME NEW r \in Repairer, CountAttempt(r)
      PROVE  RoundAccounting' /\ AbandonedOnlyAfterAttempts'
  <2>1. /\ UNCHANGED <<state, listed, host>>
        /\ attempts' \in {attempts, listed[r].attempts + 1}
        /\ rounds' = IF rounds < MaxAttempts THEN rounds + 1 ELSE rounds
        /\ ~(listed[r].attempts >= MaxAttempts)
    BY <1>7 DEF CountAttempt, UsedUp
  <2>2. \A q \in Repairer : listed[q].attempts \in Nat
    BY DEF TypeOK
  <2>3. rounds \in Nat /\ attempts \in Nat /\ rounds <= MaxAttempts
    BY DEF TypeOK
  <2>4. rounds <= rounds' /\ rounds' \in Nat
    BY <2>1, <2>3
  <2>5. attempts' <= rounds'
    BY <2>1, <2>2, <2>3 DEF RoundAccounting
  <2>6. QED
    BY <2>1, <2>2, <2>3, <2>4, <2>5 DEF RoundAccounting, AbandonedOnlyAfterAttempts
<1>8. ASSUME NEW r \in Repairer, Demote(r)
      PROVE  RoundAccounting' /\ AbandonedOnlyAfterAttempts'
  BY <1>1, <1>2, <1>8 DEF Demote
<1>9. ASSUME NEW h \in Host, HostWrite(h)
      PROVE  RoundAccounting' /\ AbandonedOnlyAfterAttempts'
  <2>1. host[h] \in SessionState \ {"abandoned"}
    BY <1>9 DEF HostWrite, RoundAccounting, TypeOK
  <2>2. \A g \in Host : host'[g] \in {host[g], "none"}
    BY <1>9 DEF HostWrite, TypeOK
  <2>3. attempts' = attempts /\ (state' = "abandoned" => state = "abandoned")
    BY <1>2, <1>9, <2>1 DEF HostWrite
  <2>4. UNCHANGED <<listed, rounds>>
    BY <1>9 DEF HostWrite
  <2>5. QED
    BY <2>2, <2>3, <2>4 DEF RoundAccounting, AbandonedOnlyAfterAttempts
<1>10. ASSUME NEW h \in Host, HostCheck(h)
       PROVE  RoundAccounting' /\ AbandonedOnlyAfterAttempts'
  <2>1. \A g \in Host : host'[g] # "abandoned"
    BY <1>10, TargetAssumption DEF HostCheck, RoundAccounting, TypeOK
  <2>2. QED
    BY <1>10, <2>1 DEF HostCheck, RoundAccounting, AbandonedOnlyAfterAttempts
<1>11. ASSUME NEW h \in Host, Create(h) \/ Touch(h)
       PROVE  RoundAccounting' /\ AbandonedOnlyAfterAttempts'
  BY <1>1, <1>11 DEF Create, Touch
<1>12. ASSUME NEW c \in Caller, Call(c)
       PROVE  RoundAccounting' /\ AbandonedOnlyAfterAttempts'
  BY <1>1, <1>12 DEF Call
<1>13. CASE Age \/ Tick \/ UNCHANGED vars
  BY <1>1, <1>13 DEF Age, Tick, vars
<1>14. QED
  BY <1>3, <1>4, <1>5, <1>6, <1>7, <1>8, <1>9, <1>10, <1>11, <1>12, <1>13
     DEF Next, Run, Finalize, Repair, HostStep

------------------------------------------------------------------------------

\* No statement fails, no process dies, and hosts leave the last step to
\* Finalize.
Undisturbed == ~Faults /\ "finalized" \notin HostTarget

\* A step that neither takes the marker away, nor takes from its place a run
\* that will write it, nor brings the session nearer to "finalized".
LEMMA MarkerKept ==
  ASSUME TypeOK, MarkerPending, UNCHANGED <<marker, host>>,
         state' = "finalized" => state = "finalized",
         \A p \in Runner : /\ pc'[p] = "close" => pc[p] = "close"
                           /\ pc[p] = "marker" => pc'[p] = "marker"
  PROVE  MarkerPending'
<1>1. \A h \in Host : host'[h] # "finalized"
  BY DEF MarkerPending
<1>2. ASSUME marker' = 0
      PROVE  \/ state' # "finalized" /\ \A p \in Runner : pc'[p] # "close"
             \/ \E p \in Runner : pc'[p] = "marker"
  BY <1>2 DEF MarkerPending
<1>3. QED
  BY <1>1, <1>2 DEF MarkerPending

\* The same of a step of one run, from elsewhere to elsewhere.
LEMMA MarkerGoesOn ==
  ASSUME TypeOK, MarkerPending, UNCHANGED <<marker, host>>,
         state' = "finalized" => state = "finalized",
         NEW p \in Runner, pc[p] # "marker",
         NEW l \in PC \ {"close"}, pc' = [pc EXCEPT ![p] = l]
  PROVE  MarkerPending'
<1>1. \A q \in Runner : /\ pc'[q] = "close" => pc[q] = "close"
                        /\ pc[q] = "marker" => pc'[q] = "marker"
  BY DEF TypeOK
<1>2. QED
  BY <1>1, MarkerKept

LEMMA MarkerStep ==
  ASSUME Undisturbed, TypeOK, MarkerPending, [Next]_vars PROVE MarkerPending'
<1> USE DEF Runner
<1>1. ASSUME NEW s \in SessionState \ {"finalized"}, UpdateState(s) \/ UpdateStateFails
      PROVE  marker' = marker /\ (state' = "finalized" => state = "finalized")
  BY <1>1 DEF UpdateState, UpdateStateFails
<1>2. ASSUME UNCHANGED <<marker, host, state, pc>> PROVE MarkerPending'
  BY <1>2 DEF MarkerPending
<1>3. ASSUME NEW c \in Caller, Call(c) PROVE MarkerPending'
  BY <1>3, MarkerGoesOn DEF Call, Goto
<1>4. ASSUME NEW p \in Runner, Reserve(p) \/ ReserveRepair(p) \/ ReserveFails(p) PROVE MarkerPending'
  <2>1. UNCHANGED <<marker, host, state>> /\ pc[p] = "reserve"
    BY <1>4 DEF Reserve, ReserveRepair, ReserveFails
  <2>2. \E l \in {"get", "idle", "demote"} : pc' = [pc EXCEPT ![p] = l]
    BY <1>4 DEF Reserve, ReserveRepair, ReserveFails, ReturnFinalized, ReturnError, Return, Goto
  <2>3. QED
    BY <2>1, <2>2, MarkerGoesOn
<1>5. ASSUME NEW p \in Runner, Get(p) PROVE MarkerPending'
  <2>1. \E l \in {"mark", "summarize", "idle", "demote"} : pc' = [pc EXCEPT ![p] = l]
    BY <1>5 DEF Get, ReturnFinalized, ReturnError, Return, Goto
  <2>2. QED
    BY <1>5, <2>1, MarkerGoesOn DEF Get
<1>6. ASSUME NEW p \in Runner, Mark(p) PROVE MarkerPending'
  <2>1. marker' = marker /\ (state' = "finalized" => state = "finalized")
    BY <1>1, <1>6 DEF Mark
  <2>2. pc[p] = "mark" /\ pc' = [pc EXCEPT ![p] = "summarize"] /\ UNCHANGED host
    BY <1>6 DEF Mark, Goto
  <2>3. QED
    BY <2>1, <2>2, MarkerGoesOn
<1>7. ASSUME NEW p \in Runner, Summarize(p) PROVE MarkerPending'
  <2>1. pc'[p] = "marker" /\ UNCHANGED host
    BY <1>7 DEF Summarize, AfterSummaryError, Goto, TypeOK
  <2>2. \E q \in Runner : pc'[q] = "marker"
    BY <2>1
  <2>3. QED
    BY <2>1, <2>2 DEF MarkerPending
<1>8. ASSUME NEW p \in Runner, MarkFinalized(p) PROVE MarkerPending'
  <2>1. marker' = 1 /\ UNCHANGED host
    BY <1>8 DEF MarkFinalized, Undisturbed
  <2>2. QED
    BY <2>1 DEF MarkerPending
<1>9. ASSUME NEW p \in Runner, FinalizeFailed(p) PROVE MarkerPending'
  <2>1. \E l \in {"idle", "demote"} : pc' = [pc EXCEPT ![p] = l]
    BY <1>9 DEF FinalizeFailed, ReturnError, Return, Goto
  <2>2. marker' = marker /\ (state' = "finalized" => state = "finalized")
    BY <1>1, <1>9 DEF FinalizeFailed
  <2>3. pc[p] = "fail" /\ UNCHANGED host
    BY <1>9 DEF FinalizeFailed
  <2>4. QED
    BY <2>1, <2>2, <2>3, MarkerGoesOn
\* Close: the marker is there, or another run is still to write it.
<1>10. ASSUME NEW p \in Runner, Close(p) PROVE MarkerPending'
  <2>1. /\ pc[p] = "close" /\ UNCHANGED <<marker, host>>
        /\ \A q \in Runner : pc[q] = "marker" => pc'[q] = "marker"
    BY <1>10 DEF Close, UpdateState, UpdateStateFails, Goto, TypeOK
  <2>2. marker' = 0 => \E q \in Runner : pc'[q] = "marker"
    BY <2>1 DEF MarkerPending
  <2>3. QED
    BY <2>1, <2>2, Zenon DEF MarkerPending
<1>11. ASSUME NEW p \in Runner, Bind(p) PROVE MarkerPending'
  BY <1>11, MarkerGoesOn DEF Bind, ReturnFinalized, Return, Goto
<1>12. ASSUME NEW r \in Repairer, Repair(r) PROVE MarkerPending'
  <2>1. UNCHANGED <<marker, host>> /\ (state' = "finalized" => state = "finalized")
    BY <1>1, <1>12 DEF Repair, List, Abandon, CountAttempt, Demote
  <2>2. pc[r] # "marker" /\ \E l \in {"listed", "idle", "reserve"} : pc' = [pc EXCEPT ![r] = l]
    BY <1>12 DEF Repair, List, Abandon, CountAttempt, Demote, Goto
  <2>3. QED
    BY <2>1, <2>2, MarkerGoesOn
<1>13. ASSUME NEW h \in Host, HostStep(h) PROVE MarkerPending'
  <2>1. \A g \in Host : host'[g] \in {host[g], "none"} \cup HostTarget
    BY <1>13 DEF HostStep, Create, HostCheck, HostWrite, Touch, TypeOK
  <2>2. host[h] # "finalized" /\ host[h] \in SessionState \cup {"none"}
    BY DEF MarkerPending, TypeOK
  <2>3. marker' = marker /\ (state' = "finalized" => state = "finalized")
    BY <1>1, <1>13, <2>2 DEF HostStep, Create, HostCheck, HostWrite, Touch
  <2>4. UNCHANGED pc
    BY <1>13 DEF HostStep, Create, HostCheck, HostWrite, Touch
  <2>5. QED
    BY <2>1, <2>3, <2>4 DEF MarkerPending, Undisturbed
<1>14. CASE Age \/ Tick \/ UNCHANGED vars
  BY <1>2, <1>14 DEF Age, Tick, vars
<1>15. \A p \in Runner : ~Crash(p)
  BY DEF Crash, Undisturbed
<1>16. QED
  BY <1>3, <1>4, <1>5, <1>6, <1>7, <1>8, <1>9, <1>10, <1>11, <1>12, <1>13, <1>14, <1>15
     DEF Next, Run, Finalize

------------------------------------------------------------------------------

\* The inductive invariant holds whatever callers, repairers, hosts and the
\* failures of statements and processes do.
THEOREM Invariance == Spec => []IInv
<1>1. IInv /\ [Next]_vars => IInv'
  BY TypeOKStep, KeyStep, MarkStep, RoundStep DEF IInv
<1>2. QED
  BY <1>1, InitIInv, PTL DEF Spec

\* An idempotency key buys at most one execution of Finalize.
THEOREM KeysExecuteOnce == Spec => []OneExecutionPerKey
<1>1. IInv => OneExecutionPerKey
  BY DEF IInv
<1>2. QED
  BY <1>1, Invariance, PTL

\* No key is bound unless the finalize marker was once written.
THEOREM BoundKeysAreMarked == Spec => []BoundMeansMarked
<1>1. IInv => BoundMeansMarked
  BY DEF IInv
<1>2. QED
  BY <1>1, Invariance, PTL

\* Lost updates of repair_attempts never make a repairer give up too early.
THEOREM AbandonedAfterAttempts == Spec => []AbandonedOnlyAfterAttempts
<1>1. IInv => AbandonedOnlyAfterAttempts
  BY DEF IInv
<1>2. QED
  BY <1>1, Invariance, PTL

\* Once no run is under way a finalized session has its finalize marker, however
\* many calls and repairs raced, although a summary that fails takes the marker
\* of another run away.
THEOREM FinalizedIsMarked == Undisturbed => (Spec => []MarkerAtRest)
<1> SUFFICES ASSUME Undisturbed PROVE Spec => []MarkerAtRest
  OBVIOUS
<1>1. Init => MarkerPending
  BY DEF Init, MarkerPending
<1>2. IInv /\ MarkerPending /\ [Next]_vars => MarkerPending'
  BY MarkerStep DEF IInv
<1>3. IInv /\ MarkerPending => MarkerAtRest
  <2>1. SUFFICES ASSUME TypeOK, MarkerPending, AtRest, state = "finalized" PROVE marker = 1
    BY DEF MarkerAtRest, IInv
  <2>2. \A p \in Runner : pc[p] # "marker"
    BY <2>1 DEF AtRest
  <2>3. QED
    BY <2>1, <2>2 DEF MarkerPending, TypeOK
<1>4. QED
  BY <1>1, <1>2, <1>3, Invariance, PTL DEF Spec
==============================================================================
