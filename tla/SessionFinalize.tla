--------------------------- MODULE SessionFinalize ---------------------------
(***************************************************************************)
(* The end of a host session (internal/runtime): FinalizeService.Finalize, *)
(* called by the MCP tool iclude_finalize_session and by RepairService,    *)
(* the session state machine of SessionService, and the three tables they  *)
(* share: sessions, session_finalize_state and idempotency_keys.           *)
(*                                                                         *)
(* One session is modelled: no row of these tables serves two sessions.    *)
(* Every store method is one statement or transaction, hence one action;   *)
(* the services call them one after the other with no lock, so anything    *)
(* may happen in between, including the death of the process.              *)
(***************************************************************************)
EXTENDS Naturals, FiniteSets

CONSTANTS
    Caller,       \* concurrent calls of the tool iclude_finalize_session
    Repairer,     \* RepairService of each server process
    Host,         \* adapters that drive SessionService
    HostKey,      \* idempotency keys the hosts use (finalize:<tool>:<id>:v<n>)
    HostTarget,   \* the states a host asks SessionService to move to
    Parties,      \* the sets of callers and repairers that may take part together
    MaxAttempts,  \* RepairConfig.MaxAttempts
    Faults,       \* may statements fail and processes die?
    NoOne

ASSUME ProcessAssumption == /\ Caller \cap Repairer = {}
                            /\ NoOne \notin Repairer \cup HostKey
ASSUME PartiesAssumption == Parties \subseteq SUBSET (Caller \cup Repairer)
ASSUME AttemptAssumption == MaxAttempts \in Nat \ {0}
ASSUME FaultAssumption   == Faults \in BOOLEAN
\* SessionService has no method that asks for "abandoned".
ASSUME TargetAssumption  ==
    HostTarget \subseteq {"bootstrapped", "active", "finalizing", "finalized",
                          "pending_repair"}

VARIABLES
    state,     \* sessions.state, "absent" when there is no row
    attempts,  \* sessions.metadata["repair_attempts"]
    stale,     \* sessions.last_seen_at < now - StaleDuration
    marker,    \* session_finalize_state.finalize_version: 0, or 1 = finalized
    keys,      \* idempotency_keys of scope finalize, for the hosts' keys
    second,    \* who reserved the repair key of the current second, if anyone
    pc,        \* where each Finalize run, or repair round, is
    key,       \* the key of each caller's run
    listed,    \* the row as ListPendingFinalize returned it to a repairer
    host,      \* the target a host has validated but not yet written
    rounds,    \* history: repair rounds begun, saturating at MaxAttempts
    execs,     \* history: executions per host key, saturating at 2
    summaries, \* history: summary memories created, saturating at 2
    marked,    \* history: MarkFinalized has succeeded
    told       \* history: some caller was told Finalized = true

rowVars  == <<state, attempts, stale, marker>>
keyVars  == <<keys, second>>
history  == <<rounds, execs, summaries, marked, told>>
runVars  == <<pc, key, listed>>
vars     == <<state, attempts, stale, marker, keys, second, pc, key, listed, host,
              rounds, execs, summaries, marked, told>>

Runner == Caller \cup Repairer

SessionState == {"created", "bootstrapped", "active", "finalizing", "finalized",
                 "pending_repair", "abandoned"}
RunPC   == {"get", "mark", "summarize", "marker", "close", "bind", "fail"}
\* "away": takes no part in this behaviour.
PC      == {"away", "idle", "listed", "reserve", "demote"} \cup RunPC

TypeOK ==
    /\ state \in SessionState \cup {"absent"}
    /\ attempts \in 0..MaxAttempts
    /\ stale \in BOOLEAN
    /\ marker \in {0, 1}
    /\ keys \in [HostKey -> {"free", "reserved", "bound"}]
    /\ second \in Repairer \cup {NoOne}
    /\ pc \in [Runner -> PC]
    /\ key \in [Caller -> HostKey \cup {NoOne}]
    /\ listed \in [Repairer -> [state : SessionState, attempts : 0..MaxAttempts]]
    /\ host \in [Host -> SessionState \cup {"none"}]
    /\ rounds \in 0..MaxAttempts
    /\ execs \in [HostKey -> 0..2]
    /\ summaries \in 0..2
    /\ marked \in BOOLEAN
    /\ told \in BOOLEAN
    /\ \A c \in Caller : key[c] \in HostKey <=> pc[c] \notin {"idle", "away"}

Init ==
    /\ state = "absent"
    /\ attempts = 0
    /\ stale = FALSE
    /\ marker = 0
    /\ keys = [k \in HostKey |-> "free"]
    /\ second = NoOne
    /\ \E P \in Parties : pc = [p \in Runner |-> IF p \in P THEN "idle" ELSE "away"]
    /\ key = [c \in Caller |-> NoOne]
    /\ listed = [r \in Repairer |-> [state |-> "active", attempts |-> 0]]
    /\ host = [h \in Host |-> "none"]
    /\ rounds = 0
    /\ execs = [k \in HostKey |-> 0]
    /\ summaries = 0
    /\ marked = FALSE
    /\ told = FALSE

------------------------------------------------------------------------------
(* sessions: UpdateState writes whatever it is told, and refreshes          *)
(* last_seen_at; with Faults it may fail instead and leave the row alone.   *)

UpdateState(s) ==
    /\ state # "absent"
    /\ state' = s
    /\ stale' = FALSE
    /\ UNCHANGED <<attempts, marker>>

UpdateStateFails ==
    /\ Faults \/ state = "absent"
    /\ UNCHANGED rowVars

\* SessionService.Create
Create(h) ==
    /\ state = "absent"
    /\ host[h] = "none"
    /\ state' = "created"
    /\ UNCHANGED <<attempts, stale, marker, keyVars, runVars, host, history>>

Allowed == {<<"created", "bootstrapped">>, <<"bootstrapped", "active">>,
            <<"active", "finalizing">>, <<"active", "pending_repair">>,
            <<"finalizing", "finalized">>, <<"finalizing", "pending_repair">>,
            <<"pending_repair", "finalizing">>, <<"pending_repair", "abandoned">>}

\* SessionService.isValidTransition
IsValidTransition(from, to) == <<from, to>> \in Allowed

\* SessionService.transition reads and checks here, and writes in HostWrite.
HostCheck(h) ==
    /\ host[h] = "none"
    /\ \E target \in HostTarget :
          /\ IsValidTransition(state, target)
          /\ host' = [host EXCEPT ![h] = target]
    /\ UNCHANGED <<rowVars, keyVars, runVars, history>>

HostWrite(h) ==
    /\ host[h] # "none"
    /\ host' = [host EXCEPT ![h] = "none"]
    /\ UpdateState(host[h]) \/ UpdateStateFails
    /\ UNCHANGED <<keyVars, runVars, history>>

\* SessionService.Touch
Touch(h) ==
    /\ state # "absent" /\ stale /\ host[h] = "none"
    /\ stale' = FALSE
    /\ UNCHANGED <<state, attempts, marker, keyVars, runVars, host, history>>

\* StaleDuration passes without a write to the row.
Age ==
    /\ state # "absent" /\ ~stale
    /\ stale' = TRUE
    /\ UNCHANGED <<state, attempts, marker, keyVars, runVars, host, history>>

------------------------------------------------------------------------------
(* FinalizeService.Finalize.                                                *)

Goto(p, l) == pc' = [pc EXCEPT ![p] = l]

\* The run of p is over; a caller forgets its key.
Return(p, l) ==
    /\ Goto(p, l)
    /\ key' = IF p \in Caller THEN [key EXCEPT ![p] = NoOne] ELSE key

\* Finalize returns an error.  RepairService then demotes the session, unless
\* the row it listed was pending_repair already.
ReturnError(p) ==
    Return(p, IF p \in Repairer /\ listed[p].state # "pending_repair"
              THEN "demote" ELSE "idle")

\* Finalize returns Finalized = true; buildIdempotentResponse does so too,
\* whatever it reads.
ReturnFinalized(p) ==
    /\ Return(p, "idle")
    /\ told' = TRUE

Call(c) ==
    /\ pc[c] = "idle"
    /\ \E k \in HostKey : key' = [key EXCEPT ![c] = k]
    /\ Goto(c, "reserve")
    /\ UNCHANGED <<rowVars, keyVars, listed, host, history>>

Reservable_Unbound(k) == keys[k] # "bound"

Reservable(k) == keys[k] = "free"

\* 1. IdempotencyStore.Reserve: an insert under a unique index.
Reserve(c) ==
    /\ c \in Caller
    /\ pc[c] = "reserve"
    /\ \/ /\ Reservable(key[c])
          /\ keys' = [keys EXCEPT ![key[c]] = "reserved"]
          /\ Goto(c, "get")
          /\ UNCHANGED <<key, told>>
       \/ /\ ~Reservable(key[c])
          /\ ReturnFinalized(c)
          /\ UNCHANGED keys
    /\ UNCHANGED <<rowVars, second, listed, host, rounds, execs, summaries, marked>>

\* The same with the key finalize:<tool>:<id>:repair_<unix seconds>, which two
\* repairers share when they compute it in the same second.
ReserveRepair(r) ==
    /\ r \in Repairer
    /\ pc[r] = "reserve"
    /\ \/ /\ second = NoOne
          /\ second' = r
          /\ Goto(r, "get")
          /\ UNCHANGED <<key, told>>
       \/ /\ second # NoOne
          /\ ReturnFinalized(r)
          /\ UNCHANGED second
    /\ UNCHANGED <<rowVars, keys, listed, host, rounds, execs, summaries, marked>>

ReserveFails(p) ==
    /\ Faults
    /\ pc[p] = "reserve"
    /\ ReturnError(p)
    /\ UNCHANGED <<rowVars, keyVars, listed, host, history>>

\* 2. SessionStore.Get
Get(p) ==
    /\ pc[p] = "get"
    /\ \/ /\ state = "absent" \/ Faults
          /\ ReturnError(p)
          /\ UNCHANGED told
       \/ /\ state = "finalized"
          /\ ReturnFinalized(p)
       \/ /\ state \notin {"absent", "finalized"}
          /\ Goto(p, IF state \in {"active", "pending_repair"} THEN "mark" ELSE "summarize")
          /\ UNCHANGED <<key, told>>
    /\ UNCHANGED <<rowVars, keyVars, listed, host, rounds, execs, summaries, marked>>

\* 3. Mark finalizing; an error is logged.
Mark(p) ==
    /\ pc[p] = "mark"
    /\ UpdateState("finalizing") \/ UpdateStateFails
    /\ Goto(p, "summarize")
    /\ UNCHANGED <<keyVars, key, listed, host, history>>

AfterSummaryError_Close == "close"

AfterSummaryError == "marker"

\* 4. The summarizer: nothing to summarize, a new summary memory, or an error,
\* which Upsert records in a row that is otherwise zero, its error ignored.
Summarize(p) ==
    /\ pc[p] = "summarize"
    /\ \/ /\ summaries' \in {summaries, IF summaries < 2 THEN summaries + 1 ELSE 2}
          /\ Goto(p, "marker")
          /\ UNCHANGED marker
       \/ /\ marker' = 0 \/ (Faults /\ UNCHANGED marker)
          /\ Goto(p, AfterSummaryError)
          /\ UNCHANGED summaries
    /\ execs' = IF p \in Caller
                THEN [execs EXCEPT ![key[p]] = IF @ < 2 THEN @ + 1 ELSE 2]
                ELSE execs
    /\ UNCHANGED <<state, attempts, stale, keyVars, key, listed, host,
                   rounds, marked, told>>

AfterMarkError == "fail"

\* 5. SessionFinalizeStore.MarkFinalized
MarkFinalized(p) ==
    /\ pc[p] = "marker"
    /\ \/ /\ marker' = 1
          /\ marked' = TRUE
          /\ Goto(p, "close")
       \/ /\ Faults
          /\ Goto(p, AfterMarkError)
          /\ UNCHANGED <<marker, marked>>
    /\ UNCHANGED <<state, attempts, stale, keyVars, key, listed, host,
                   rounds, execs, summaries, told>>

\* 5, failed: mark pending_repair, whether or not that works, and return.
FinalizeFailed(p) ==
    /\ pc[p] = "fail"
    /\ UpdateState("pending_repair") \/ UpdateStateFails
    /\ ReturnError(p)
    /\ UNCHANGED <<keyVars, listed, host, history>>

\* 6. Mark the session finalized; an error is logged.
Close(p) ==
    /\ pc[p] = "close"
    /\ UpdateState("finalized") \/ UpdateStateFails
    /\ Goto(p, "bind")
    /\ UNCHANGED <<keyVars, key, listed, host, history>>

\* 7. IdempotencyStore.BindResource, errors ignored.
Bind(p) ==
    /\ pc[p] = "bind"
    /\ \/ keys' = IF p \in Caller THEN [keys EXCEPT ![key[p]] = "bound"] ELSE keys
       \/ Faults /\ UNCHANGED keys
    /\ ReturnFinalized(p)
    /\ UNCHANGED <<rowVars, second, listed, host, rounds, execs, summaries, marked>>

Finalize(p) ==
    \/ Reserve(p) \/ ReserveRepair(p) \/ Get(p) \/ Mark(p) \/ Summarize(p)
    \/ MarkFinalized(p) \/ FinalizeFailed(p) \/ Close(p) \/ Bind(p)

------------------------------------------------------------------------------
(* RepairService.                                                           *)

Listable_Pending == state = "pending_repair" /\ stale

\* SessionStore.ListPendingFinalize
Listable == state \in {"active", "pending_repair"} /\ stale

\* A repairer rounds every ten minutes, so never twice in one second.
List(r) ==
    /\ pc[r] = "idle"
    /\ second # r
    /\ Listable
    /\ listed' = [listed EXCEPT ![r] = [state |-> state, attempts |-> attempts]]
    /\ Goto(r, "listed")
    /\ UNCHANGED <<rowVars, keyVars, key, host, history>>

UsedUp_Early(n) == n + 1 >= MaxAttempts

UsedUp(n) == n >= MaxAttempts

\* repairSession, attempts used up according to the listed row.
Abandon(r) ==
    /\ pc[r] = "listed"
    /\ UsedUp(listed[r].attempts)
    /\ UpdateState("abandoned") \/ UpdateStateFails
    /\ Goto(r, "idle")
    /\ UNCHANGED <<keyVars, key, listed, host, history>>

\* repairSession, another attempt: UpdateMetadata writes the listed count plus
\* one, in place of whatever count is there; an error is logged.
CountAttempt(r) ==
    /\ pc[r] = "listed"
    /\ ~UsedUp(listed[r].attempts)
    /\ \/ /\ attempts' = listed[r].attempts + 1
          /\ stale' = FALSE
          /\ UNCHANGED <<state, marker>>
       \/ Faults /\ UNCHANGED rowVars
    /\ rounds' = IF rounds < MaxAttempts THEN rounds + 1 ELSE rounds
    /\ Goto(r, "reserve")
    /\ UNCHANGED <<keyVars, key, listed, host, execs, summaries, marked, told>>

\* Finalize failed and the listed row was not pending_repair: make it so.
Demote(r) ==
    /\ pc[r] = "demote"
    /\ UpdateState("pending_repair") \/ UpdateStateFails
    /\ Goto(r, "idle")
    /\ UNCHANGED <<keyVars, key, listed, host, history>>

Repair(r) == List(r) \/ Abandon(r) \/ CountAttempt(r) \/ Demote(r)

\* The next second: repair keys computed from now on are new.
Tick ==
    /\ second # NoOne
    /\ second' = NoOne
    /\ UNCHANGED <<rowVars, keys, runVars, host, history>>

\* The process of a run dies, or its context is cancelled.
Crash(p) ==
    /\ Faults
    /\ pc[p] \notin {"idle", "away"}
    /\ Return(p, "idle")
    /\ UNCHANGED <<rowVars, keyVars, listed, host, history>>

------------------------------------------------------------------------------

Run(p)      == Finalize(p) \/ (p \in Repairer /\ Repair(p))
HostStep(h) == Create(h) \/ HostCheck(h) \/ HostWrite(h) \/ Touch(h)

Next ==
    \/ \E c \in Caller : Call(c)
    \/ \E p \in Runner : Run(p) \/ ReserveFails(p) \/ Crash(p)
    \/ \E h \in Host : HostStep(h)
    \/ Age
    \/ Tick

Spec == Init /\ [][Next]_vars

\* Runs and repair rounds make progress, hosts finish what they began, and
\* time passes; nobody is obliged to call Finalize.
FairSpec ==
    /\ Spec
    /\ \A p \in Runner : WF_vars(Run(p))
    /\ \A h \in Host : WF_vars(HostWrite(h))
    /\ WF_vars(Age)
    /\ WF_vars(Tick)

------------------------------------------------------------------------------
(* Properties.                                                              *)

ToExecute(c) == pc[c] \in {"get", "mark", "summarize"}

\* An idempotency key buys one execution, across concurrent calls, retries
\* and crashes (Reserve before everything else in Finalize).
OneExecutionPerKey == \A k \in HostKey : execs[k] <= 1

\* A key is bound only when the finalize marker was written at some time: no
\* failed run leaves a bound key behind.
BoundMeansMarked == (\E k \in HostKey : keys[k] = "bound") => marked

\* A session is given up only after MaxAttempts repair rounds were really
\* begun, lost updates of repair_attempts included.
AbandonedOnlyAfterAttempts == state = "abandoned" => rounds >= MaxAttempts

\* Why those three hold.  A run past Reserve holds its key, and until it
\* executes it is the only one on that key, which no run has executed; a run
\* past MarkFinalized has marked; and nobody believes in more attempts than
\* there were rounds.
KeyAccounting ==
    /\ \A k \in HostKey : keys[k] = "free" => execs[k] = 0
    /\ \A c \in Caller : pc[c] \in RunPC => keys[key[c]] # "free"
    /\ \A c \in Caller : ToExecute(c) => execs[key[c]] = 0
    /\ \A c, d \in Caller : ToExecute(c) /\ ToExecute(d) /\ key[c] = key[d] => c = d

MarkAccounting == \A p \in Runner : pc[p] \in {"close", "bind"} => marked

RoundAccounting ==
    /\ attempts <= rounds
    /\ \A r \in Repairer : listed[r].attempts <= rounds
    /\ \A h \in Host : host[h] # "abandoned"

IInv == /\ TypeOK /\ KeyAccounting /\ OneExecutionPerKey
        /\ MarkAccounting /\ BoundMeansMarked
        /\ RoundAccounting /\ AbandonedOnlyAfterAttempts

\* Without faults, once no run is under way a finalized session has its
\* finalize marker, whatever runs raced to finalize it.
AtRest == \A p \in Runner : pc[p] \notin RunPC
MarkerAtRest == AtRest /\ state = "finalized" => marker = 1

\* Why, when no host asks for "finalized" itself: as long as the marker is missing
\* the session is not finalized and no run is about to make it so, or else a run
\* has yet to write the marker, perhaps again.
MarkerPending ==
    /\ marker = 0 => \/ state # "finalized" /\ \A p \in Runner : pc[p] # "close"
                     \/ \E p \in Runner : pc[p] = "marker"
    /\ \A h \in Host : host[h] # "finalized"

\* Without faults, a session that became active is settled in the end, once
\* its hosts leave it alone: finalized or abandoned, for good.
HostsLeave == <>[][\A h \in Host : ~HostStep(h)]_vars
SessionSettles ==
    HostsLeave => (state = "active" ~> [](state \in {"finalized", "abandoned"}))

------------------------------------------------------------------------------
(* What the design document and the tests say and the code does not do.     *)

\* "finalized is the idempotent terminal state"
FinalizedIsTerminal == [][state = "finalized" => state' = "finalized"]_state

\* "Allowed Transitions", and SessionService.isValidTransition
OnlyAllowedTransitions ==
    [][state = "absent" \/ IsValidTransition(state, state')]_state

\* "finalized: whether finalize succeeded"
FinalizedReportedTruthfully == told => marked

\* "if a summary was generated, finalizing again must not generate another"
OneSummary == summaries <= 1

\* "pending_repair: the ending did not complete, to be repaired"
FinalizingEnds == (state = "finalizing") ~> (state # "finalizing")
==============================================================================
