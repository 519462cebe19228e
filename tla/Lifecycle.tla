------------------------------ MODULE Lifecycle ------------------------------
(***************************************************************************)
(* How memories gain and lose standing: reinforcement and crystallization  *)
(* (memory/manager_lifecycle.go), consolidation (memory/consolidation.go), *)
(* the rounds of the heartbeat (heartbeat/) and expiry, beside clients who *)
(* create, edit, delete and restore.                                       *)
(*                                                                         *)
(* Two schedulers, one in the API server and one in the MCP server, run    *)
(* these jobs on one database.  A store method is one transaction, hence   *)
(* one action; between two of them a job holds copies of rows, and it      *)
(* writes whole rows back.                                                 *)
(*                                                                         *)
(* A text is the set of facts it states, and its own hash; an edit changes *)
(* the text and not the hash.  Strength, age and kind are left out: a      *)
(* condition on them may go either way.                                    *)
(***************************************************************************)
EXTENDS Naturals, FiniteSets, Functions

CONSTANTS
    Memory, Fact,
    Proc,             \* concurrent requests and jobs
    Plans,            \* which jobs each may be, a bound on the reinforcements of all
                      \* memories, and whether clients ask for expiry times: a
                      \* choice, made at the start
    GivenTexts,       \* the texts that clients write
    GivenTiers,       \* the tiers that clients ask for
    GivenRates,       \* the decay rates of their own that they ask for
    MinReinforce,     \* Crystallization.MinReinforceCount
    MinCluster,       \* Consolidation.MinClusterSize
    Repeats,          \* may a merged text be one that is stored already?
    VectorDedup,      \* Dedup.VectorEnabled, with a vector store
    PromotionEnabled, \* Heartbeat.PromotionEnabled
    Faults,           \* may processes die?
    MaxBatch,         \* bound on the memories a heartbeat lists at a time
    None

Permanent == 4
Ephemeral == 0
Tier == Ephemeral .. Permanent   \* tierOrder

AllJobs == {"edit", "reinforce", "consolidate", "heartbeat"}

ASSUME PlansAssumption     == Plans \subseteq [jobs : [Proc -> SUBSET AllJobs], most : Nat,
                                            expiry : BOOLEAN]
ASSUME GivenAssumption     == GivenTexts \subseteq SUBSET Fact /\ GivenTiers \subseteq Tier
ASSUME ThresholdAssumption == MinReinforce \in Nat \ {0} /\ MinCluster \in Nat \ {0}
ASSUME BoundAssumption     == MaxBatch \in Nat
ASSUME FlagAssumption      == {Repeats, VectorDedup, PromotionEnabled, Faults} \subseteq BOOLEAN
ASSUME NoneAssumption      == None \notin Memory

VARIABLES
    plan,     \* the jobs of the processes and what else may happen
    row,      \* table memories; rate is the tier whose default decay_rate it has,
              \* or a rate that a client gave
    pc, job,  \* each process: where it is, and its local variables
    given,    \* history: the highest tier asked for, for each memory
    earned,   \* history: how often each memory has been reinforced
    told,     \* history: the facts that clients stored
    dropped,  \* history: facts of texts that clients replaced, and of memories
              \* deleted other than by consolidation
    risked    \* history: facts told in one of the ways that the code does not guard

vars == <<plan, row, pc, job, given, earned, told, dropped, risked>>

Row == [status : {"absent", "live", "deleted"}, facts : SUBSET Fact,
        hash : SUBSET Fact,  \* {} is a text unlike any other
        tier : Tier, rate : Tier \cup GivenRates, count : Nat, expires : BOOLEAN,
        into : Memory \cup {None}]

PC == {"idle", "crystal", "write", "merge", "replace", "trash",
       "audit", "backfill", "promotion", "expiry"}

\* mem: the memory at hand; copies: rows read earlier; answer: the memory that
\* a consolidation was given for its output.
NoCopies == [m \in {} |-> None]
NoJob    == [mem |-> None, copies |-> NoCopies, answer |-> None]

Job(S) == [mem : Memory \cup {None}, copies : [S -> Row], answer : Memory \cup {None}]

TypeOK ==
    /\ plan \in Plans
    /\ row \in [Memory -> Row]
    /\ pc \in [Proc -> PC]
    /\ job = [p \in Proc |-> job[p]] /\ \A p \in Proc : \E S \in SUBSET Memory : job[p] \in Job(S)
    /\ given \in [Memory -> Tier]
    /\ earned \in [Memory -> Nat]
    /\ told \subseteq Fact /\ dropped \subseteq Fact /\ risked \subseteq Fact

Blank == [status |-> "absent", facts |-> {}, hash |-> {}, tier |-> Ephemeral,
          rate |-> Ephemeral, count |-> 0, expires |-> FALSE, into |-> None]

Init ==
    /\ plan \in Plans
    /\ row = [m \in Memory |-> Blank]
    /\ pc = [p \in Proc |-> "idle"]
    /\ job = [p \in Proc |-> NoJob]
    /\ given = [m \in Memory |-> Ephemeral]
    /\ earned = [m \in Memory |-> 0]
    /\ told = {} /\ dropped = {} /\ risked = {}

------------------------------------------------------------------------------
(* The store, and the local state of processes.                             *)

Live    == {m \in Memory : row[m].status = "live"}
Absent  == {m \in Memory : row[m].status = "absent"}
Deleted == {m \in Memory : row[m].status = "deleted"}
TakenBy(text) == {m \in Live : row[m].hash = text /\ text # {}}

\* ResolveTierDefaults and applyExplicitOverrides: the row of a new memory, of
\* decay rate d; e: it expires whatever its tier.
NewRow(text, hash, t, d, e) ==
    [status |-> "live", facts |-> text, hash |-> hash, tier |-> t, rate |-> d,
     count |-> 0, expires |-> (t = Ephemeral \/ e), into |-> None]

\* dedupCheck: the memories that a creation may be answered with.  Which vectors
\* are alike is left open.
Answers(text) == IF TakenBy(text) = {} /\ VectorDedup THEN Live ELSE TakenBy(text)

StoreInsert(m, r) ==
    /\ row' = [row EXCEPT ![m] = r]
    /\ given' = [given EXCEPT ![m] = r.tier]

\* SQLiteMemoryStore.Reinforce: an increment in place.
StoreReinforce(m) ==
    /\ m \in Live
    /\ FoldFunction(+, 0, earned) < plan.most
    /\ row' = [row EXCEPT ![m].count = @ + 1]
    /\ earned' = [earned EXCEPT ![m] = @ + 1]

\* SQLiteMemoryStore.Update: a whole copy, but for deleted_at, content_hash and
\* consolidated_into, over a live or a deleted row.
Updated(m, r) ==
    [row EXCEPT ![m] = [r EXCEPT !.status = row[m].status, !.hash = row[m].hash,
                                 !.into = row[m].into]]

Trashed(S) == [m \in Memory |-> IF m \in S THEN [row[m] EXCEPT !.status = "deleted"] ELSE row[m]]

\* SoftDelete and CleanupExpired, other than for a consolidation.
StoreTrash(S) ==
    /\ S \subseteq Live
    /\ row' = Trashed(S)
    /\ dropped' = dropped \cup UNION {row[m].facts : m \in S}

Goto(p, l) == pc' = [pc EXCEPT ![p] = l]
Done(p) ==
    /\ Goto(p, "idle")
    /\ job' = [job EXCEPT ![p] = NoJob]
Without(f, m) == [n \in DOMAIN f \ {m} |-> f[n]]

------------------------------------------------------------------------------
(* Clients.                                                                 *)

\* Manager.Create: an answer is reinforced, without the check for
\* crystallization, and need not say what the client told (it may have been
\* edited since, or be merely alike).  MemoryStore has its steps apart.
Create ==
    \E text \in GivenTexts :
       /\ told' = told \cup text
       /\ \/ \E m \in Answers(text) :
                /\ StoreReinforce(m)
                /\ risked' = risked \cup (text \ row[m].facts)
                /\ UNCHANGED given
          \/ /\ TakenBy(text) = {}
             /\ \E m \in Absent, t \in GivenTiers, e \in {FALSE, plan.expiry} :
                \E d \in {t} \cup GivenRates : StoreInsert(m, NewRow(text, text, t, d, e))
             /\ UNCHANGED <<earned, risked>>
       /\ UNCHANGED <<pc, job, dropped>>

\* The tier and the decay rate that an update leaves: as they are, a tier with
\* its default, or either with a rate of the client's own.
Standings(r) == {<<r.tier, r.rate>>} \cup {<<t, t>> : t \in GivenTiers}
                \cup ((GivenTiers \cup {r.tier}) \X GivenRates)

\* Manager.Update up to its write: the copy read, with applyUpdateFields.
Edit(p) ==
    /\ "edit" \in plan.jobs[p]
    /\ pc[p] = "idle"
    /\ \E m \in Live : \E text \in {row[m].facts} \cup GivenTexts, s \in Standings(row[m]),
                           e \in {row[m].expires, row[m].expires \/ plan.expiry} :
          /\ job' = [job EXCEPT ![p] =
                [NoJob EXCEPT !.mem = m,
                              !.copies = [n \in {m} |->
                                 [row[m] EXCEPT !.facts = text, !.tier = s[1], !.rate = s[2],
                                                !.expires = e]]]]
          /\ given' = [given EXCEPT ![m] = IF @ < s[1] THEN s[1] ELSE @]
          /\ dropped' = dropped \cup (row[m].facts \ text)
    /\ Goto(p, "write")
    /\ UNCHANGED <<row, earned, told, risked>>

\* Manager.Delete, SoftDelete and SoftDeleteBySourceRef.
Delete == \E S \in SUBSET Live \ {{}} : StoreTrash(S) /\ UNCHANGED <<pc, job, given, earned, told, risked>>

\* Restore: refused by the unique index when the text was stored again.
Restore ==
    \E m \in Deleted :
       /\ TakenBy(row[m].hash) = {}
       /\ row' = [row EXCEPT ![m].status = "live"]
       /\ UNCHANGED <<pc, job, given, earned, told, dropped, risked>>

------------------------------------------------------------------------------
(* Reinforcement and crystallization.                                       *)

Reinforce(p) ==
    /\ "reinforce" \in plan.jobs[p]
    /\ pc[p] = "idle"
    /\ \E m \in Live :
          /\ StoreReinforce(m)
          /\ job' = [job EXCEPT ![p] = [NoJob EXCEPT !.mem = m]]
    /\ Goto(p, "crystal")
    /\ UNCHANGED <<given, told, dropped, risked>>

ShouldCrystallize_Unearned(r) == r.tier # Permanent

\* Its other conditions (strength, age, kind) may fail at any time.
ShouldCrystallize(r) == r.tier # Permanent /\ r.count >= MinReinforce

\* PromoteTier, as checkCrystallization uses it: expires_at stays.
Promoted(r) == [r EXCEPT !.tier = @ + 1, !.rate = r.tier + 1]

\* checkCrystallization: Get, and decide; a deleted memory is not found.
Crystallize(p) ==
    /\ pc[p] = "crystal"
    /\ LET m == job[p].mem IN
       \/ /\ m \in Live
          /\ ShouldCrystallize(row[m])
          /\ job' = [job EXCEPT ![p].copies = [n \in {m} |-> Promoted(row[m])]]
          /\ Goto(p, "write")
       \/ Done(p)
    /\ UNCHANGED <<row, given, earned, told, dropped, risked>>

\* The memory is deleted, or another job holds a copy of it.
Exposed(p, m) == m \notin Live \/ \E q \in Proc \ {p} : m \in DOMAIN job[q].copies

\* The write at the end of Manager.Update and of checkCrystallization.  It
\* succeeds whatever became of the memory since it was read.
Write(p) ==
    /\ pc[p] = "write"
    /\ LET m == job[p].mem
           r == job[p].copies[m] IN
       /\ row' = Updated(m, r)
       /\ told' = told \cup r.facts
       /\ risked' = IF Exposed(p, m) THEN risked \cup (r.facts \ row[m].facts) ELSE risked
    /\ Done(p)
    /\ UNCHANGED <<given, earned, dropped>>

------------------------------------------------------------------------------
(* Consolidation.                                                           *)

\* selectCandidates
Candidates == {m \in Live : row[m].tier \notin {Permanent, Ephemeral} /\ row[m].into = None}

\* Consolidator.Run up to the merging of one cluster by the language model;
\* which memories are alike is left open.  Each cluster is a job of its own.
Select(p) ==
    /\ "consolidate" \in plan.jobs[p]
    /\ pc[p] = "idle"
    /\ \E S \in SUBSET Candidates :
          /\ Cardinality(S) >= MinCluster
          /\ job' = [job EXCEPT ![p] = [NoJob EXCEPT !.copies = [m \in S |-> row[m]]]]
    /\ Goto(p, "merge")
    /\ UNCHANGED <<row, given, earned, told, dropped, risked>>

\* What the model is asked for and assumed to give: every fact of the cluster.
MergedText(copies) == UNION {copies[m].facts : m \in DOMAIN copies}

\* Sources of consolidations that have their answer: these may be deleted at any
\* moment.
Doomed == {m \in Memory : \E p \in Proc : pc[p] \in {"replace", "trash"}
                                            /\ m \in DOMAIN job[p].copies}

\* creator.Create, for the merged text, worded anew or as one that is stored.
\* The answer may be a source, of this or of another consolidation, or say less.
MergedCreation(p, text) ==
    \/ /\ \E m \in (IF Repeats THEN TakenBy(text) ELSE {}) \cup (IF VectorDedup THEN Live ELSE {}) :
             /\ StoreReinforce(m)
             /\ job' = [job EXCEPT ![p].answer = m]
             /\ risked' = risked \cup IF m \in DOMAIN job[p].copies \cup Doomed
                                     THEN text ELSE text \ row[m].facts
       /\ UNCHANGED given
    \/ /\ \E m \in Absent, hash \in {{}} \cup (IF Repeats THEN {text} ELSE {}) :
             /\ TakenBy(hash) = {}
             /\ StoreInsert(m, NewRow(text, hash, Permanent, Permanent, FALSE))
             /\ job' = [job EXCEPT ![p].answer = m]
       /\ UNCHANGED <<earned, risked>>

Merge_GoesOn(p) ==
    /\ pc[p] = "merge"
    /\ \/ MergedCreation(p, MergedText(job[p].copies))
       \/ UNCHANGED <<row, job, given, earned, risked>>
    /\ Goto(p, "replace")
    /\ UNCHANGED <<told, dropped>>

\* The rest of consolidateCluster up to creator.Create: a failed call, an output
\* that is refused and a creation that fails all give the cluster up.
Merge(p) ==
    /\ pc[p] = "merge"
    /\ \/ MergedCreation(p, MergedText(job[p].copies)) /\ Goto(p, "replace")
       \/ Done(p) /\ UNCHANGED <<row, given, earned, risked>>
    /\ UNCHANGED <<told, dropped>>

\* For each source in turn: Update with the copy, then SoftDelete.
Replace(p) ==
    /\ pc[p] = "replace"
    /\ \E m \in DOMAIN job[p].copies :
          /\ row' = Updated(m, [job[p].copies[m] EXCEPT !.into = job[p].answer])
          /\ job' = [job EXCEPT ![p].mem = m]
    /\ Goto(p, "trash")
    /\ UNCHANGED <<given, earned, told, dropped, risked>>

Trash(p) ==
    /\ pc[p] = "trash"
    /\ row' = Trashed({job[p].mem} \cap Live)
    /\ IF DOMAIN job[p].copies = {job[p].mem}
       THEN Done(p)
       ELSE /\ job' = [job EXCEPT ![p].copies = Without(@, job[p].mem)]
            /\ Goto(p, "replace")
    /\ UNCHANGED <<given, earned, told, dropped, risked>>

------------------------------------------------------------------------------
(* A round of the heartbeat, and expiry.                                    *)

\* runDecayAudit lists and filters; weakness and age are left open.
ListWeak(p) ==
    /\ "heartbeat" \in plan.jobs[p]
    /\ pc[p] = "idle"
    /\ \E S \in SUBSET {m \in Live : row[m].count = 0 /\ row[m].tier # Permanent} :
          /\ Cardinality(S) <= MaxBatch
          /\ job' = [job EXCEPT ![p] = [NoJob EXCEPT !.copies = [m \in S |-> row[m]]]]
    /\ Goto(p, "audit")
    /\ UNCHANGED <<row, given, earned, told, dropped, risked>>

\* ... and deletes what it listed, without looking again; then
\* runExcerptBackfill lists live memories that lack an excerpt.
Audit(p) ==
    /\ pc[p] = "audit"
    /\ \/ \E m \in DOMAIN job[p].copies :
             /\ StoreTrash({m} \cap Live)
             /\ job' = [job EXCEPT ![p].copies = Without(@, m)]
             /\ UNCHANGED pc
       \/ /\ job[p].copies = NoCopies
          /\ \E S \in SUBSET Live :
                /\ Cardinality(S) <= MaxBatch
                /\ job' = [job EXCEPT ![p].copies = [m \in S |-> row[m]]]
          /\ Goto(p, "backfill")
          /\ UNCHANGED <<row, dropped>>
    /\ UNCHANGED <<given, earned, told, risked>>

\* Each excerpt comes from the language model, or fails; the copy is written.
Backfill(p) ==
    /\ pc[p] = "backfill"
    /\ \/ \E m \in DOMAIN job[p].copies :
             /\ row' \in {row, Updated(m, job[p].copies[m])}
             /\ job' = [job EXCEPT ![p].copies = Without(@, m)]
             /\ UNCHANGED pc
       \/ /\ job[p].copies = NoCopies
          /\ Goto(p, "promotion")
          /\ UNCHANGED <<row, job>>
    /\ UNCHANGED <<given, earned, told, dropped, risked>>

\* runPromotion calls List with no identity, which visibilityCondition
\* dereferences: the panic, which nothing recovers, ends the process, before
\* runPromotion or runTierPromotion has promoted anything.
Promotion(p) ==
    /\ pc[p] = "promotion"
    /\ IF PromotionEnabled THEN Done(p) ELSE Goto(p, "expiry") /\ UNCHANGED job
    /\ UNCHANGED <<row, given, earned, told, dropped, risked>>

\* CleanupExpired: whether the time has come is left open.
CleanupExpired == \E S \in SUBSET {m \in Live : row[m].expires} : StoreTrash(S)

Expiry(p) ==
    /\ pc[p] = "expiry"
    /\ CleanupExpired
    /\ Done(p)
    /\ UNCHANGED <<given, earned, told, risked>>

\* The job "cleanup" of the scheduler.
Cleanup == CleanupExpired /\ UNCHANGED <<pc, job, given, earned, told, risked>>

Crash(p) ==
    /\ Faults
    /\ pc[p] # "idle"
    /\ Done(p)
    /\ UNCHANGED <<row, given, earned, told, dropped, risked>>

Step(p) ==
    \/ Edit(p) \/ Reinforce(p) \/ Crystallize(p) \/ Write(p)
    \/ Select(p) \/ Merge(p) \/ Replace(p) \/ Trash(p)
    \/ ListWeak(p) \/ Audit(p) \/ Backfill(p) \/ Promotion(p) \/ Expiry(p)
    \/ Crash(p)

Next ==
    /\ Create \/ Delete \/ Restore \/ Cleanup \/ \E p \in Proc : Step(p)
    /\ UNCHANGED plan

Spec == Init /\ [][Next]_vars

------------------------------------------------------------------------------
(* Properties.                                                              *)

\* A fact that a client stored is in a live memory, unless a client replaced it
\* or its memory was deleted by a client, an audit or expiry: however jobs of
\* both schedulers overlap, clients edit and restore sources and processes die
\* between creation and deletion.  Not so for the facts that are risked (see
\* README.md, "Findings"): those of an edit that is written while another job
\* holds the memory or after its deletion, those that the answer of a creation
\* does not say, and those of a merged text whose answer is a source itself.
Held      == UNION {row[m].facts : m \in Live}
Kept      == told \ (dropped \cup risked)
FactsKept == Kept \subseteq Held

\* "retention_tier and decay_rate are always kept in sync ... Callers needing a
\* custom decay_rate should override it" (lifecycle.go:37), in rows and in the
\* copies that jobs will yet write back: no rate is the default of another tier.
RateFollowsTier ==
    \A m \in Memory :
       /\ row[m].rate \in {row[m].tier} \cup GivenRates
       /\ \A p \in Proc : m \in DOMAIN job[p].copies =>
             job[p].copies[m].rate \in {job[p].copies[m].tier} \cup GivenRates

\* A memory stands above every tier asked for it only if it was reinforced often
\* enough, and never counts more reinforcements than it had: copies that
\* consolidations and heartbeats write back late add no standing.
StandingIsEarned ==
    \A m \in Memory :
       /\ row[m].count <= earned[m]
       /\ row[m].tier > given[m] => earned[m] >= MinReinforce

\* What a running job holds: copies of rows that exist, no better than these
\* ever were.
JobsHold ==
    \A p \in Proc :
       /\ pc[p] \in {"crystal", "write"} => job[p].mem \in Memory
       /\ pc[p] = "write" => job[p].mem \in DOMAIN job[p].copies
       /\ pc[p] = "trash" => job[p].mem \in DOMAIN job[p].copies
       /\ \A m \in DOMAIN job[p].copies :
             /\ row[m].status # "absent"
             /\ job[p].copies[m].count <= earned[m]
             /\ job[p].copies[m].tier > given[m] => earned[m] >= MinReinforce

\* Every fact that must be kept is in a live memory that is not doomed.
FactsSafe == \A f \in Kept : \E m \in Live \ Doomed : f \in row[m].facts

\* No stored text says what nobody told, and copies say of what must be kept what
\* their rows say; the copy of an edit may say more.
CopiesAgree ==
    /\ \A m \in Memory : row[m].facts \subseteq told
    /\ \A p \in Proc : \A m \in DOMAIN job[p].copies :
          /\ Kept \cap row[m].facts \subseteq job[p].copies[m].facts
          /\ pc[p] # "write" => /\ job[p].copies[m].facts \subseteq told
                                /\ Kept \cap job[p].copies[m].facts \subseteq row[m].facts

\* The inductive invariant (LifecycleProofs).
IInv == TypeOK /\ JobsHold /\ RateFollowsTier /\ StandingIsEarned /\ CopiesAgree /\ FactsSafe

\* What documents and comments say (see README.md, "Findings"); runs show where
\* the code does otherwise.

\* What a client stored, and nobody replaced or deleted, is in a live memory.
EveryFactKept == told \ dropped \subseteq Held

\* Every reinforcement counts: with nothing running, reinforced_count is right.
EveryReinforcementCounts ==
    (\A p \in Proc : pc[p] = "idle") => \A m \in Live : row[m].count = earned[m]

\* A source that a consolidation deletes is traceable to what it went into.
SourcesTraceable ==
    [][\A p \in Proc, m \in Live :
          Trash(p) /\ row'[m].status = "deleted" => row'[m].into = job[p].answer]_vars

\* The audit deletes only memories that have never been reinforced.
AuditSparesReinforced ==
    [][\A p \in Proc, m \in Live :
          Audit(p) /\ row'[m].status = "deleted" => row[m].count = 0]_vars

\* A permanent memory does not expire, unless a client asked for it.
PermanentStays ==
    ~plan.expiry => \A m \in Live : row[m].tier = Permanent => ~row[m].expires

\* A round of the heartbeat that reaches its promotions goes on to its end.
RoundsGoOn ==
    [][\A p \in Proc : pc[p] = "promotion" /\ pc'[p] # "promotion" => pc'[p] = "expiry"]_vars
==============================================================================
