--------------------------- MODULE LifecycleProofs ---------------------------
(***************************************************************************)
(* Proofs about Lifecycle for any memories, facts, processes, jobs, texts, *)
(* tiers, thresholds and bounds.                                           *)
(*                                                                         *)
(* The invariant is taken apart into what is true of the rows, what is     *)
(* true of the copies that jobs hold (both say that a row is Sound), what  *)
(* copies say of the facts that must be kept (CopyOK), and where these     *)
(* are.  Each store operation keeps every copy sound because rows only     *)
(* grow (Grows): what has been earned or asked for is never taken back.    *)
(* It keeps every copy true because it leaves each row steady that another *)
(* job has copied: of the facts that must still be kept, the row says      *)
(* afterwards what it said before (Steady).                                *)
(***************************************************************************)
EXTENDS Lifecycle, TLAPS

\* A row, or a copy of it, that memory m may be given.
Sound(m, r) ==
    /\ r.rate \in {r.tier} \cup GivenRates
    /\ r.count <= earned[m]
    /\ r.tier > given[m] => earned[m] >= MinReinforce

Copies == UNION {[S -> Row] : S \in SUBSET Memory}
AnyJob == [mem : Memory \cup {None}, copies : Copies, answer : Memory \cup {None}]

RowsOK ==
    /\ row \in [Memory -> Row]
    /\ given \in [Memory -> Tier]
    /\ earned \in [Memory -> Nat]
    /\ \A m \in Memory : Sound(m, row[m])

HistoryOK == told \subseteq Fact /\ dropped \subseteq Fact /\ risked \subseteq Fact

\* Where a job may be with local state j.
Fits(l, j) ==
    /\ l \in {"crystal", "write"} => j.mem \in Memory
    /\ l \in {"write", "trash"} => j.mem \in DOMAIN j.copies

CopiesSound(f) == \A m \in DOMAIN f : row[m].status # "absent" /\ Sound(m, f[m])

JobsOK ==
    /\ pc \in [Proc -> PC]
    /\ job \in [Proc -> AnyJob]
    /\ \A p \in Proc : Fits(pc[p], job[p]) /\ CopiesSound(job[p].copies)

Fine == RowsOK /\ HistoryOK /\ JobsOK /\ CopiesAgree /\ FactsSafe

LEMMA CopiesTyped ==
  \A f \in Copies : DOMAIN f \subseteq Memory /\ f \in [DOMAIN f -> Row]
BY DEF Copies

LEMMA Parts == IInv <=> plan \in Plans /\ Fine
<1>1. ASSUME TypeOK
      PROVE  JobsHold /\ RateFollowsTier /\ StandingIsEarned
             <=> (\A m \in Memory : Sound(m, row[m]))
                 /\ \A p \in Proc : Fits(pc[p], job[p]) /\ CopiesSound(job[p].copies)
  <2>1. \A p \in Proc : DOMAIN job[p].copies \subseteq Memory
    BY <1>1 DEF TypeOK, Job
  <2>2. QED
    BY <2>1 DEF JobsHold, RateFollowsTier, StandingIsEarned, Sound, Fits, CopiesSound
<1>2. TypeOK <=> /\ plan \in Plans /\ row \in [Memory -> Row] /\ given \in [Memory -> Tier]
                 /\ earned \in [Memory -> Nat] /\ HistoryOK
                 /\ pc \in [Proc -> PC] /\ job \in [Proc -> AnyJob]
  <2>1. \A j : j \in AnyJob <=> \E S \in SUBSET Memory : j \in Job(S)
    BY DEF AnyJob, Job, Copies
  <2>2. job \in [Proc -> AnyJob] <=>
           job = [p \in Proc |-> job[p]] /\ \A p \in Proc : job[p] \in AnyJob
    OBVIOUS
  <2>3. QED
    BY <2>1, <2>2 DEF TypeOK, HistoryOK
<1>3. QED
  BY <1>1, <1>2, Zenon DEF IInv, Fine, RowsOK, JobsOK

LEMMA NoJobTyped == NoJob \in AnyJob /\ DOMAIN NoJob.copies = {}
<1>1. NoCopies \in [{} -> Row]
  BY DEF NoCopies
<1>2. NoCopies \in Copies
  BY <1>1 DEF Copies
<1>3. QED
  BY <1>2 DEF NoJob, AnyJob, NoCopies

LEMMA InitIInv == Init => IInv
<1> SUFFICES ASSUME Init PROVE IInv
  OBVIOUS
<1>1. RowsOK
  BY ThresholdAssumption DEF Init, RowsOK, Sound, Row, Blank, Tier, Ephemeral, Permanent
<1>2. JobsOK
  BY NoJobTyped DEF Init, JobsOK, Fits, CopiesSound, PC
<1>3. HistoryOK /\ FactsSafe /\ CopiesAgree
  BY NoJobTyped DEF Init, HistoryOK, FactsSafe, CopiesAgree, Kept, Blank
<1>4. QED
  BY <1>1, <1>2, <1>3, Parts DEF Fine, Init

------------------------------------------------------------------------------
(* Rows only grow.                                                          *)

Grows ==
    \A m \in Memory :
       /\ earned'[m] >= earned[m]
       /\ row[m].status # "absent" =>
             /\ row'[m].status # "absent"
             /\ given'[m] >= given[m]

LEMMA GrowsKeepsSound ==
  ASSUME RowsOK, RowsOK', Grows, NEW m \in Memory, NEW r \in Row,
         row[m].status # "absent", Sound(m, r)
  PROVE  Sound(m, r)'
<1>1. /\ earned[m] \in Nat /\ earned'[m] \in Nat /\ MinReinforce \in Nat
      /\ given[m] \in Int /\ given'[m] \in Int /\ r.tier \in Int /\ r.count \in Int
  BY ThresholdAssumption DEF RowsOK, Row, Tier, Ephemeral, Permanent
<1>2. QED
  BY <1>1 DEF Grows, Sound

LEMMA NothingMoves ==
  ASSUME RowsOK, UNCHANGED <<row, given, earned>>
  PROVE  RowsOK' /\ Grows
BY DEF RowsOK, Sound, Grows, Tier, Ephemeral, Permanent

LEMMA InsertGrows ==
  ASSUME RowsOK, NEW m \in Absent, NEW text \in SUBSET Fact, NEW hash \in SUBSET Fact,
         NEW t \in Tier, NEW d \in {t} \cup GivenRates, NEW e \in BOOLEAN,
         StoreInsert(m, NewRow(text, hash, t, d, e)), UNCHANGED earned
  PROVE  RowsOK' /\ Grows /\ row'[m].facts = text /\ row'[m].status = "live"
         /\ \A n \in Memory \ {m} : row'[n] = row[n]
<1> DEFINE r == NewRow(text, hash, t, d, e)
<1>1. m \in Memory /\ row[m].status = "absent" /\ row \in [Memory -> Row]
  BY DEF Absent, RowsOK
<1>2. r \in Row /\ r.facts = text /\ r.status = "live" /\ r.rate = d /\ r.tier = t /\ r.count = 0
  BY DEF NewRow, Row
<1>3. row' = [row EXCEPT ![m] = r] /\ given' = [given EXCEPT ![m] = t]
  BY <1>2 DEF StoreInsert
<1> HIDE DEF r
<1>4. RowsOK'
  BY <1>1, <1>2, <1>3 DEF RowsOK, Sound, Tier, Ephemeral, Permanent
<1>5. Grows
  BY <1>1, <1>2, <1>3 DEF RowsOK, Grows, Tier, Ephemeral, Permanent
<1>6. QED
  BY <1>1, <1>2, <1>3, <1>4, <1>5

LEMMA ReinforceGrows ==
  ASSUME RowsOK, NEW m \in Memory, StoreReinforce(m), UNCHANGED given
  PROVE  /\ RowsOK' /\ Grows
         /\ \A n \in Memory : row'[n].status = row[n].status /\ row'[n].facts = row[n].facts
<1>1. row \in [Memory -> Row] /\ earned \in [Memory -> Nat]
  BY DEF RowsOK
<1>2. /\ row' = [row EXCEPT ![m].count = @ + 1] /\ earned' = [earned EXCEPT ![m] = @ + 1]
      /\ UNCHANGED given
  BY DEF StoreReinforce
<1>3. /\ row'[m] \in Row /\ row'[m].count = row[m].count + 1 /\ row'[m].tier = row[m].tier
      /\ row'[m].rate = row[m].rate /\ row'[m].facts = row[m].facts
      /\ row'[m].status = row[m].status /\ row' \in [Memory -> Row]
  BY <1>1, <1>2 DEF Row
<1>4. \A n \in Memory : n # m => row'[n] = row[n] /\ earned'[n] = earned[n]
  BY <1>1, <1>2
<1>5. earned' \in [Memory -> Nat] /\ earned'[m] = earned[m] + 1
  BY <1>1, <1>2
<1>6. RowsOK'
  <2>1. SUFFICES ASSUME NEW n \in Memory PROVE Sound(n, row[n])'
    BY <1>2, <1>3, <1>5 DEF RowsOK
  <2>2. CASE n = m
    BY <1>1, <1>2, <1>3, <1>5, <2>2, ThresholdAssumption DEF RowsOK, Sound, Row, Tier, Ephemeral, Permanent
  <2>3. CASE n # m
    BY <1>2, <1>4, <2>3 DEF RowsOK, Sound
  <2>4. QED
    BY <2>2, <2>3
<1>7. Grows
  BY <1>1, <1>2, <1>3, <1>4, <1>5 DEF RowsOK, Grows, Tier, Ephemeral, Permanent
<1>8. QED
  BY <1>3, <1>4, <1>6, <1>7

\* A sound copy is written over its row, whatever its consolidated_into.
LEMMA UpdateGrows ==
  ASSUME RowsOK, NEW m \in Memory, NEW r \in Row, Sound(m, r),
         NEW x \in Memory \cup {None}, NEW c \in {r, [r EXCEPT !.into = x]},
         row' = Updated(m, c), UNCHANGED <<given, earned>>
  PROVE  /\ RowsOK' /\ Grows
         /\ \A n \in Memory : row'[n].status = row[n].status
         /\ \A n \in Memory : row'[n].facts = IF n = m THEN r.facts ELSE row[n].facts
<1>1. row \in [Memory -> Row]
  BY DEF RowsOK
<1>2. /\ c \in Row /\ c.facts = r.facts /\ c.rate = r.rate /\ c.tier = r.tier
      /\ c.count = r.count
  BY DEF Row
<1>3. /\ row' \in [Memory -> Row] /\ row'[m].facts = r.facts /\ row'[m].rate = r.rate
      /\ row'[m].tier = r.tier /\ row'[m].count = r.count
      /\ row'[m].status = row[m].status
  BY <1>1, <1>2 DEF Updated, Row
<1>4. \A n \in Memory : n # m => row'[n] = row[n]
  BY <1>1 DEF Updated
<1>5. /\ \A n \in Memory : row'[n].status = row[n].status
      /\ \A n \in Memory : row'[n].facts = IF n = m THEN r.facts ELSE row[n].facts
  BY <1>3, <1>4
<1>6. RowsOK'
  BY <1>3, <1>4, <1>5 DEF RowsOK, Sound
<1>7. Grows
  BY <1>5 DEF RowsOK, Grows, Tier, Ephemeral, Permanent
<1>8. QED
  BY <1>5, <1>6, <1>7

LEMMA TrashGrows ==
  ASSUME RowsOK, NEW S \in SUBSET Live, row' = Trashed(S), UNCHANGED <<given, earned>>
  PROVE  /\ RowsOK' /\ Grows
         /\ \A n \in Memory : row'[n].facts = row[n].facts
         /\ \A n \in Memory : row'[n].status = IF n \in S THEN "deleted" ELSE row[n].status
<1>1. row \in [Memory -> Row]
  BY DEF RowsOK
<1>2. \A n \in Memory : n \notin S => row'[n] = row[n]
  BY DEF Trashed
<1>3. \A n \in S : /\ n \in Memory /\ row'[n] \in Row /\ row'[n].status = "deleted"
                   /\ row'[n].facts = row[n].facts /\ row'[n].tier = row[n].tier
                   /\ row'[n].rate = row[n].rate /\ row'[n].count = row[n].count
  BY <1>1 DEF Trashed, Live, Row
<1>4. row' \in [Memory -> Row]
  BY <1>1, <1>2, <1>3 DEF Trashed
<1>5. RowsOK'
  BY <1>2, <1>3, <1>4 DEF RowsOK, Sound
<1>6. Grows
  BY <1>2, <1>3 DEF RowsOK, Grows, Tier, Ephemeral, Permanent
<1>7. QED
  BY <1>2, <1>3, <1>5, <1>6

------------------------------------------------------------------------------
(* What jobs hold.                                                          *)

LEMMA JobsStay ==
  ASSUME RowsOK, RowsOK', JobsOK, Grows, UNCHANGED <<pc, job>>
  PROVE  JobsOK'
<1>1. SUFFICES ASSUME NEW p \in Proc PROVE CopiesSound(job[p].copies)'
  BY DEF JobsOK, Fits
<1>2. SUFFICES ASSUME NEW m \in DOMAIN job[p].copies
               PROVE  row'[m].status # "absent" /\ Sound(m, job[p].copies[m])'
  BY DEF CopiesSound
<1>3. /\ m \in Memory /\ job[p].copies[m] \in Row
      /\ row[m].status # "absent" /\ Sound(m, job[p].copies[m])
  BY <1>1, <1>2, CopiesTyped DEF JobsOK, AnyJob, CopiesSound
<1>4. QED
  BY <1>3, GrowsKeepsSound DEF Grows

\* One job moves on, with copies that are sound before or after the step.
LEMMA JobMoves ==
  ASSUME RowsOK, RowsOK', JobsOK, Grows, NEW p \in Proc, NEW l \in PC, NEW j \in AnyJob,
         pc' = [pc EXCEPT ![p] = l], job' = [job EXCEPT ![p] = j],
         Fits(l, j), CopiesSound(j.copies) \/ CopiesSound(j.copies)'
  PROVE  JobsOK'
<1>1. /\ pc' \in [Proc -> PC] /\ job' \in [Proc -> AnyJob]
      /\ \A q \in Proc : IF q = p THEN pc'[q] = l /\ job'[q] = j
                                   ELSE pc'[q] = pc[q] /\ job'[q] = job[q]
  BY DEF JobsOK
<1>2. \A q \in Proc : Fits(pc[q], job[q])'
  BY <1>1 DEF JobsOK, Fits
<1>3. \A f \in Copies : CopiesSound(f) => CopiesSound(f)'
  <2>1. SUFFICES ASSUME NEW f \in Copies, CopiesSound(f), NEW m \in DOMAIN f
                 PROVE  row'[m].status # "absent" /\ Sound(m, f[m])'
    BY DEF CopiesSound
  <2>2. m \in Memory /\ f[m] \in Row /\ row[m].status # "absent" /\ Sound(m, f[m])
    BY <2>1, CopiesTyped DEF CopiesSound
  <2>3. QED
    BY <2>2, GrowsKeepsSound DEF Grows
<1>4. ASSUME NEW q \in Proc PROVE CopiesSound(job[q].copies)'
  <2>1. PICK f \in Copies : f = job'[q].copies
    BY <1>1 DEF AnyJob
  <2>2. CopiesSound(f)'
    BY <1>1, <1>3, <2>1 DEF JobsOK
  <2>3. QED
    BY <2>1, <2>2 DEF CopiesSound
<1>5. QED
  BY <1>1, <1>2, <1>4 DEF JobsOK

LEMMA JobEnds ==
  ASSUME RowsOK, RowsOK', JobsOK, Grows, NEW p \in Proc, Done(p)
  PROVE  JobsOK'
<1>1. "idle" \in PC /\ Fits("idle", NoJob) /\ CopiesSound(NoJob.copies)
  BY NoJobTyped DEF PC, Fits, CopiesSound
<1>2. QED
  BY <1>1, NoJobTyped, JobMoves DEF Done, Goto

\* Rows of live memories, as a job copies them.
LEMMA RowsCopied ==
  ASSUME RowsOK, NEW S \in SUBSET Live
  PROVE  [NoJob EXCEPT !.copies = [m \in S |-> row[m]]] \in AnyJob
         /\ CopiesSound([m \in S |-> row[m]])
<1>1. S \subseteq Memory /\ [m \in S |-> row[m]] \in [S -> Row]
  BY DEF Live, RowsOK
<1>2. [m \in S |-> row[m]] \in Copies
  BY <1>1 DEF Copies
<1>3. CopiesSound([m \in S |-> row[m]])
  BY DEF CopiesSound, Live, RowsOK
<1>4. QED
  BY <1>2, <1>3, NoJobTyped DEF AnyJob, NoJob

LEMMA WithoutSound ==
  ASSUME NEW f \in Copies, CopiesSound(f), NEW m
  PROVE  Without(f, m) \in Copies /\ CopiesSound(Without(f, m))
         /\ DOMAIN Without(f, m) \subseteq DOMAIN f
<1>1. DOMAIN f \subseteq Memory /\ f \in [DOMAIN f -> Row]
  BY CopiesTyped
<1>2. Without(f, m) \in [DOMAIN f \ {m} -> Row]
  BY <1>1 DEF Without
<1>3. Without(f, m) \in Copies
  BY <1>1, <1>2 DEF Copies
<1>4. QED
  BY <1>3 DEF Without, CopiesSound

------------------------------------------------------------------------------
(* What copies say.                                                         *)

\* Of the facts that must be kept, copy c of memory m, held by a job at l, says
\* what its row says.
CopyOK(l, m, c) ==
    /\ Kept \cap row[m].facts \subseteq c.facts
    /\ l # "write" => /\ c.facts \subseteq told
                      /\ Kept \cap c.facts \subseteq row[m].facts

LEMMA AgreeParts ==
  CopiesAgree <=> /\ \A m \in Memory : row[m].facts \subseteq told
                  /\ \A p \in Proc : \A m \in DOMAIN job[p].copies : CopyOK(pc[p], m, job[p].copies[m])
BY DEF CopiesAgree, CopyOK

\* What is told stays told, and what must be kept had to be kept or is new.
NothingTakenBack == told \subseteq told' /\ Kept' \cap told \subseteq Kept

Steady(m) == Kept' \cap row'[m].facts = Kept' \cap row[m].facts

LEMMA CopyStays ==
  ASSUME NothingTakenBack, NEW m \in Memory, row[m].facts \subseteq told, Steady(m),
         NEW c, NEW l, NEW k, k = "write" \/ l # "write", CopyOK(l, m, c)
  PROVE  CopyOK(k, m, c)'
BY DEF NothingTakenBack, Steady, CopyOK

\* A row that a job copies.
LEMMA FreshCopyOK == ASSUME CopiesAgree, NEW m \in Memory, NEW l PROVE CopyOK(l, m, row[m])
BY DEF CopiesAgree, CopyOK

LEMMA AgreeStays ==
  ASSUME JobsOK, CopiesAgree, NothingTakenBack, UNCHANGED <<pc, job>>,
         \A m \in Memory : row'[m].facts \subseteq told',
         \A q \in Proc : \A m \in DOMAIN job[q].copies : Steady(m)
  PROVE  CopiesAgree'
<1>1. ASSUME NEW q \in Proc, NEW m \in DOMAIN job[q].copies
      PROVE  /\ Kept' \cap row'[m].facts \subseteq job[q].copies[m].facts
             /\ pc[q] # "write" => /\ job[q].copies[m].facts \subseteq told'
                                   /\ Kept' \cap job[q].copies[m].facts \subseteq row'[m].facts
  <2>1. m \in Memory
    BY <1>1, CopiesTyped DEF JobsOK, AnyJob
  <2>2. PICK l : l = pc[q]
    OBVIOUS
  <2>3. PICK c : c = job[q].copies[m]
    OBVIOUS
  <2>4. CopyOK(l, m, c)
    BY <1>1, <2>2, <2>3, AgreeParts
  <2>5. CopyOK(l, m, c)'
    BY <1>1, <2>1, <2>4, CopyStays DEF CopiesAgree
  <2>6. QED
    BY <2>2, <2>3, <2>5 DEF CopyOK
<1>2. QED
  BY <1>1, Zenon DEF CopiesAgree

\* One job moves on.
LEMMA AgreeMoves ==
  ASSUME JobsOK, CopiesAgree, NothingTakenBack, NEW p \in Proc, NEW l \in PC, NEW j \in AnyJob,
         pc' = [pc EXCEPT ![p] = l], job' = [job EXCEPT ![p] = j],
         \A m \in Memory : row'[m].facts \subseteq told',
         \A q \in Proc \ {p} : \A m \in DOMAIN job[q].copies : Steady(m),
         \A m \in DOMAIN j.copies : CopyOK(l, m, j.copies[m])'
  PROVE  CopiesAgree'
<1>1. \A q \in Proc : IF q = p THEN pc'[q] = l /\ job'[q] = j
                               ELSE pc'[q] = pc[q] /\ job'[q] = job[q]
  BY DEF JobsOK
<1>2. ASSUME NEW q \in Proc, NEW m \in DOMAIN job'[q].copies
      PROVE  /\ Kept' \cap row'[m].facts \subseteq job'[q].copies[m].facts
             /\ pc'[q] # "write" => /\ job'[q].copies[m].facts \subseteq told'
                                    /\ Kept' \cap job'[q].copies[m].facts \subseteq row'[m].facts
  <2>1. CASE q = p
    BY <1>1, <1>2, <2>1 DEF CopyOK
  <2>2. CASE q # p
    <3>1. m \in DOMAIN job[q].copies /\ pc'[q] = pc[q] /\ job'[q] = job[q]
      BY <1>1, <1>2, <2>2
    <3>2. m \in Memory /\ Steady(m)
      BY <2>2, <3>1, CopiesTyped DEF JobsOK, AnyJob
    <3>3. PICK k : k = pc[q]
      OBVIOUS
    <3>4. PICK c : c = job[q].copies[m]
      OBVIOUS
    <3>5. CopyOK(k, m, c)
      BY <3>1, <3>3, <3>4, AgreeParts
    <3>6. CopyOK(k, m, c)'
      BY <3>2, <3>5, CopyStays DEF CopiesAgree
    <3>7. QED
      BY <3>1, <3>3, <3>4, <3>6 DEF CopyOK
  <2>3. QED
    BY <2>1, <2>2
<1>3. QED
  BY <1>2, Zenon DEF CopiesAgree

\* ... and has no copies left, or some of those it had.
LEMMA AgreeShrinks ==
  ASSUME JobsOK, CopiesAgree, NothingTakenBack, NEW p \in Proc, NEW l \in PC, NEW j \in AnyJob,
         pc' = [pc EXCEPT ![p] = l], job' = [job EXCEPT ![p] = j],
         \A m \in Memory : row'[m].facts \subseteq told',
         \A q \in Proc : \A m \in DOMAIN job[q].copies : Steady(m),
         pc[p] # "write" \/ DOMAIN j.copies = {},
         \A m \in DOMAIN j.copies : m \in DOMAIN job[p].copies /\ j.copies[m] = job[p].copies[m]
  PROVE  CopiesAgree'
<1>1. ASSUME NEW m \in DOMAIN j.copies PROVE CopyOK(l, m, j.copies[m])'
  <2>1. m \in Memory /\ Steady(m) /\ CopyOK(pc[p], m, j.copies[m]) /\ pc[p] # "write"
    BY <1>1, CopiesTyped, AgreeParts DEF JobsOK, AnyJob
  <2>2. PICK k : k = pc[p]
    OBVIOUS
  <2>3. PICK c : c = j.copies[m]
    OBVIOUS
  <2>4. CopyOK(l, m, c)'
    BY <2>1, <2>2, <2>3, CopyStays DEF CopiesAgree
  <2>5. QED
    BY <2>3, <2>4 DEF CopyOK
<1>2. QED
  BY <1>1, AgreeMoves

------------------------------------------------------------------------------
(* Where the facts are.                                                     *)

DoomsNoMore == Doomed' \subseteq Doomed

LEMMA DoomedAsBefore ==
  ASSUME UNCHANGED <<pc, job>> PROVE DoomsNoMore
BY DEF DoomsNoMore, Doomed

\* A job that has no sources to delete, or goes on with some of those it had.
LEMMA DoomedShrinks ==
  ASSUME JobsOK, NEW p \in Proc, NEW l \in PC, NEW j \in AnyJob,
         pc' = [pc EXCEPT ![p] = l], job' = [job EXCEPT ![p] = j],
         l \in {"replace", "trash"} =>
            pc[p] \in {"replace", "trash"} /\ DOMAIN j.copies \subseteq DOMAIN job[p].copies
  PROVE  DoomsNoMore
BY DEF DoomsNoMore, Doomed, JobsOK

LEMMA DoneDooms == ASSUME JobsOK, NEW p \in Proc, Done(p) PROVE DoomsNoMore
<1>1. "idle" \in PC /\ "idle" \notin {"replace", "trash"}
  BY DEF PC
<1>2. QED
  BY <1>1, NoJobTyped, DoomedShrinks DEF Done, Goto

\* Nothing is deleted, and no live memory loses what must be kept.
LEMMA SafeKept ==
  ASSUME FactsSafe, DoomsNoMore, Kept' \subseteq Kept,
         \A m \in Live : row'[m].status = "live" /\ Kept' \cap row[m].facts \subseteq row'[m].facts
  PROVE  FactsSafe'
<1>1. Live \ Doomed \subseteq (Live \ Doomed)'
  BY DEF Live, DoomsNoMore
<1>2. QED
  BY <1>1 DEF FactsSafe, Live

\* Memories S are deleted: by others than consolidations, which drops their
\* facts, or by a consolidation as one of its sources.
LEMMA SafeWithoutTrashed ==
  ASSUME FactsSafe, DoomsNoMore, NEW S \in SUBSET Live, Kept' \subseteq Kept,
         \A m \in Memory : row'[m].facts = row[m].facts,
         \A m \in Memory : row'[m].status = IF m \in S THEN "deleted" ELSE row[m].status,
         S \subseteq Doomed \/ \A m \in S : row[m].facts \cap Kept' = {}
  PROVE  FactsSafe'
<1>1. (Live \ Doomed) \ S \subseteq (Live \ Doomed)'
  BY DEF Live, DoomsNoMore
<1>2. SUFFICES ASSUME NEW f \in Kept'
               PROVE  \E m \in (Live \ Doomed) \ S : f \in row[m].facts
  BY <1>1 DEF FactsSafe, Live
<1>3. PICK m \in Live \ Doomed : f \in row[m].facts
  BY <1>2 DEF FactsSafe
<1>4. m \notin S
  BY <1>2, <1>3
<1>5. QED
  BY <1>3, <1>4

\* A new memory holds what it is told, and what it takes over from sources that
\* are doomed henceforth.
LEMMA SafeWithNew ==
  ASSUME FactsSafe, NEW m \in Absent, m \notin Doomed', NEW sources \in SUBSET Memory,
         Doomed' \subseteq Doomed \cup sources, Kept' \subseteq Kept \cup row'[m].facts,
         row'[m].status = "live", \A n \in Memory \ {m} : row'[n] = row[n],
         \A n \in sources : Kept \cap row[n].facts \subseteq row'[m].facts
  PROVE  FactsSafe'
<1>1. m \in Memory /\ m \in (Live \ Doomed)'
  BY DEF Absent, Live
<1>2. SUFFICES ASSUME NEW f \in Kept', f \notin row'[m].facts
               PROVE  \E n \in (Live \ Doomed)' : f \in row'[n].facts
  BY <1>1 DEF FactsSafe
<1>3. f \in Kept
  BY <1>2
<1>4. PICK n \in Live \ Doomed : f \in row[n].facts
  BY <1>2, <1>3 DEF FactsSafe
<1>5. n # m /\ n \notin sources
  BY <1>2, <1>3, <1>4 DEF Live, Absent
<1>6. n \in (Live \ Doomed)' /\ f \in row'[n].facts
  BY <1>4, <1>5 DEF Live
<1>7. QED
  BY <1>6

------------------------------------------------------------------------------
(* Each step keeps the parts of the invariant.                              *)

LEMMA CopiedPresent ==
  JobsOK => \A p \in Proc : \A m \in DOMAIN job[p].copies : m \in Memory /\ m \notin Absent
<1>1. SUFFICES ASSUME JobsOK, NEW p \in Proc, NEW m \in DOMAIN job[p].copies
               PROVE  m \in Memory /\ m \notin Absent
  OBVIOUS
<1>2. QED
  BY <1>1, CopiesTyped DEF JobsOK, AnyJob, CopiesSound, Absent

LEMMA DoomedPresent == JobsOK => Doomed \cap Absent = {}
BY CopiedPresent DEF Doomed

\* No text changes, and nobody tells anything.
TextsStand ==
    /\ \A m \in Memory : row'[m].facts = row[m].facts
    /\ told' = told /\ dropped \subseteq dropped' /\ risked \subseteq risked'

\* The texts say what was told, and no copy is contradicted.
TextsAgree == NothingTakenBack /\ \A m \in Memory : row'[m].facts \subseteq told' /\ Steady(m)

LEMMA StandingTexts ==
  ASSUME CopiesAgree, TextsStand
  PROVE  TextsAgree /\ Kept' \subseteq Kept
BY DEF TextsAgree, CopiesAgree, TextsStand, NothingTakenBack, Kept, Steady

\* A step of clients that changes no text.
LEMMA ClientKeeps ==
  ASSUME Fine, RowsOK', HistoryOK', Grows, TextsStand, UNCHANGED <<pc, job>>,
         DoomsNoMore => FactsSafe'
  PROVE  Fine'
<1>1. JobsOK'
  BY JobsStay DEF Fine
<1>2. CopiesAgree'
  BY StandingTexts, AgreeStays, CopiedPresent DEF Fine, TextsAgree
<1>3. FactsSafe'
  BY DoomedAsBefore
<1>4. QED
  BY <1>1, <1>2, <1>3 DEF Fine

LEMMA CreateKeeps == ASSUME Fine, plan \in Plans, Create PROVE Fine'
<1>1. PICK text \in GivenTexts :
         /\ told' = told \cup text
         /\ \/ \E m \in Answers(text) :
                  /\ StoreReinforce(m)
                  /\ risked' = risked \cup (text \ row[m].facts)
                  /\ UNCHANGED given
            \/ /\ \E m \in Absent, t \in GivenTiers, e \in {FALSE, plan.expiry} :
                  \E d \in {t} \cup GivenRates : StoreInsert(m, NewRow(text, text, t, d, e))
               /\ UNCHANGED <<earned, risked>>
  BY DEF Create
<1>2. UNCHANGED <<pc, job, dropped>> /\ DoomsNoMore
  BY DoomedAsBefore DEF Create
<1>3. text \in SUBSET Fact
  BY GivenAssumption
<1>4. ASSUME NEW m \in Answers(text), StoreReinforce(m), UNCHANGED given,
             risked' = risked \cup (text \ row[m].facts)
      PROVE  Fine'
  <2>1. m \in Memory
    BY <1>4 DEF Answers, TakenBy, Live
  <2>2. RowsOK' /\ Grows
        /\ \A n \in Memory : row'[n].status = row[n].status /\ row'[n].facts = row[n].facts
    BY <1>4, <2>1, ReinforceGrows DEF Fine
  <2>3. JobsOK' /\ HistoryOK'
    BY <1>1, <1>2, <1>3, <1>4, <2>2, JobsStay DEF Fine, HistoryOK
  <2>4. NothingTakenBack /\ Kept' \subseteq Kept
    BY <1>1, <1>2, <1>4, <2>1 DEF Fine, CopiesAgree, NothingTakenBack, Kept
  <2>5. \A n \in Memory : row'[n].facts \subseteq told' /\ Steady(n)
    BY <1>1, <2>2 DEF Fine, CopiesAgree, Steady
  <2>6. CopiesAgree'
    BY <1>2, <2>4, <2>5, CopiedPresent, AgreeStays DEF Fine
  <2>7. FactsSafe'
    BY <1>2, <2>2, <2>4, SafeKept DEF Live, Fine
  <2>8. QED
    BY <2>2, <2>3, <2>6, <2>7 DEF Fine
<1>5. ASSUME NEW m \in Absent, NEW t \in GivenTiers, NEW e \in {FALSE, plan.expiry},
             NEW d \in {t} \cup GivenRates, StoreInsert(m, NewRow(text, text, t, d, e)),
             UNCHANGED <<earned, risked>>
      PROVE  Fine'
  <2>1. /\ RowsOK' /\ Grows /\ row'[m].status = "live" /\ row'[m].facts = text
        /\ \A n \in Memory \ {m} : row'[n] = row[n]
    <3>1. t \in Tier /\ e \in BOOLEAN
      BY <1>5, GivenAssumption, PlansAssumption
    <3>2. QED
      BY <1>3, <1>5, <3>1, InsertGrows DEF Fine
  <2>2. JobsOK' /\ HistoryOK'
    BY <1>1, <1>2, <1>3, <1>5, <2>1, JobsStay DEF Fine, HistoryOK
  <2>3. NothingTakenBack /\ Kept' \subseteq Kept \cup row'[m].facts
    BY <1>1, <1>2, <1>5, <2>1 DEF NothingTakenBack, Kept
  <2>4. \A n \in Memory : row'[n].facts \subseteq told'
    BY <1>1, <2>1 DEF Fine, CopiesAgree
  <2>5. \A n \in Memory : n \notin Absent => Steady(n)
    BY <1>5, <2>1 DEF Steady
  <2>6. CopiesAgree'
    BY <1>2, <2>3, <2>4, <2>5, CopiedPresent, AgreeStays DEF Fine
  <2>7. m \notin Doomed' /\ Doomed' \subseteq Doomed \cup {}
    BY <1>2, <1>5, DoomedPresent DEF DoomsNoMore, Fine
  <2>8. FactsSafe'
    <3>1. {} \in SUBSET Memory /\ \A n \in {} : Kept \cap row[n].facts \subseteq row'[m].facts
      OBVIOUS
    <3>2. QED
      BY <1>5, <2>1, <2>3, <2>7, <3>1, SafeWithNew DEF Fine
  <2>9. QED
    BY <2>1, <2>2, <2>6, <2>8 DEF Fine
<1>6. QED
  BY <1>1, <1>4, <1>5

\* Deletion of memories S, by others than consolidations.
LEMMA DropKeeps ==
  ASSUME Fine, NEW S \in SUBSET Live, StoreTrash(S), UNCHANGED <<given, earned, told, risked>>
  PROVE  /\ RowsOK' /\ HistoryOK' /\ Grows /\ TextsStand
         /\ DoomsNoMore => FactsSafe'
<1>1. row' = Trashed(S) /\ dropped' = dropped \cup UNION {row[m].facts : m \in S}
  BY DEF StoreTrash
<1>2. HistoryOK'
  BY <1>1 DEF Fine, HistoryOK, RowsOK, Row, Live
<1>3. /\ RowsOK' /\ Grows
      /\ \A n \in Memory : row'[n].facts = row[n].facts
      /\ \A n \in Memory : row'[n].status = IF n \in S THEN "deleted" ELSE row[n].status
  BY <1>1, TrashGrows DEF Fine
<1>4. TextsStand
  BY <1>1, <1>3 DEF TextsStand
<1>5. \A m \in S : row[m].facts \cap Kept' = {}
  BY <1>1 DEF Kept
<1>6. DoomsNoMore => FactsSafe'
  BY <1>3, <1>4, <1>5, StandingTexts, SafeWithoutTrashed DEF Fine
<1>7. QED
  BY <1>2, <1>3, <1>4, <1>6

LEMMA DeleteKeeps == ASSUME Fine, Delete \/ Cleanup PROVE Fine'
<1>1. PICK S \in SUBSET Live : StoreTrash(S)
  BY DEF Delete, Cleanup, CleanupExpired
<1>2. UNCHANGED <<pc, job, given, earned, told, risked>>
  BY DEF Delete, Cleanup
<1>3. QED
  BY <1>1, <1>2, DropKeeps, ClientKeeps

LEMMA RestoreKeeps == ASSUME Fine, Restore PROVE Fine'
<1>1. PICK m \in Deleted : row' = [row EXCEPT ![m].status = "live"]
  BY DEF Restore
<1>2. UNCHANGED <<pc, job, given, earned, told, dropped, risked>>
  BY DEF Restore
<1>3. /\ row' \in [Memory -> Row]
      /\ \A n \in Memory :
            /\ row'[n].status \in {"live", row[n].status}
            /\ row'[n].facts = row[n].facts /\ row'[n].tier = row[n].tier
            /\ row'[n].rate = row[n].rate /\ row'[n].count = row[n].count
  BY <1>1 DEF Fine, RowsOK, Row, Deleted
<1>4. RowsOK' /\ HistoryOK'
  BY <1>2, <1>3 DEF Fine, RowsOK, HistoryOK, Sound
<1>5. Grows
  BY <1>2, <1>3 DEF Fine, RowsOK, Grows, Tier, Ephemeral, Permanent
<1>6. TextsStand
  BY <1>2, <1>3 DEF TextsStand
<1>7. DoomsNoMore => FactsSafe'
  BY <1>3, <1>6, StandingTexts, SafeKept DEF Live, Fine
<1>8. QED
  BY <1>2, <1>4, <1>5, <1>6, <1>7, ClientKeeps

\* The copy of an edit says what the client wrote, and the facts that this
\* replaces need not be kept.
LEMMA EditKeeps == ASSUME Fine, plan \in Plans, NEW p \in Proc, Edit(p) PROVE Fine'
<1>1. PICK m \in Live : \E text \in {row[m].facts} \cup GivenTexts, s \in Standings(row[m]),
                           e \in {row[m].expires, row[m].expires \/ plan.expiry} :
         /\ job' = [job EXCEPT ![p] =
               [NoJob EXCEPT !.mem = m,
                             !.copies = [n \in {m} |->
                                [row[m] EXCEPT !.facts = text, !.tier = s[1], !.rate = s[2],
                                               !.expires = e]]]]
         /\ given' = [given EXCEPT ![m] = IF @ < s[1] THEN s[1] ELSE @]
         /\ dropped' = dropped \cup (row[m].facts \ text)
  BY DEF Edit
<1>2. PICK text \in {row[m].facts} \cup GivenTexts, s \in Standings(row[m]),
           e \in {row[m].expires, row[m].expires \/ plan.expiry} :
         /\ job' = [job EXCEPT ![p] =
               [NoJob EXCEPT !.mem = m,
                             !.copies = [n \in {m} |->
                                [row[m] EXCEPT !.facts = text, !.tier = s[1], !.rate = s[2],
                                               !.expires = e]]]]
         /\ given' = [given EXCEPT ![m] = IF @ < s[1] THEN s[1] ELSE @]
         /\ dropped' = dropped \cup (row[m].facts \ text)
  BY <1>1
<1>3. pc' = [pc EXCEPT ![p] = "write"] /\ UNCHANGED <<row, earned, told, risked>>
  BY DEF Edit, Goto
<1>4. m \in Memory /\ row[m] \in Row /\ row[m].status = "live" /\ Sound(m, row[m])
  BY DEF Live, Fine, RowsOK
<1>5. /\ text \in SUBSET Fact /\ e \in BOOLEAN
      /\ s[1] \in Tier /\ s[2] \in Tier \cup GivenRates /\ s[2] \in {s[1]} \cup GivenRates
  BY <1>4, GivenAssumption, PlansAssumption DEF Standings, Row, Sound
<1>6. PICK t, d : t = s[1] /\ d = s[2]
  OBVIOUS
<1>7. PICK c : c = [row[m] EXCEPT !.facts = text, !.tier = t, !.rate = d, !.expires = e]
  OBVIOUS
<1>8. /\ c \in Row /\ c.facts = text /\ c.tier = t /\ c.rate = d /\ c.count = row[m].count
  BY <1>4, <1>5, <1>6, <1>7 DEF Row
<1>9. /\ given' \in [Memory -> Tier] /\ given'[m] >= t
      /\ \A n \in Memory : given'[n] >= given[n]
  BY <1>2, <1>4, <1>5, <1>6 DEF Fine, RowsOK, Tier, Ephemeral, Permanent
<1>10. RowsOK' /\ Grows /\ HistoryOK'
  <2>1. \A n \in Memory : row[n].tier \in Int /\ given[n] \in Int /\ given'[n] \in Int
    BY <1>9 DEF Fine, RowsOK, Row, Tier, Ephemeral, Permanent
  <2>2. RowsOK' /\ Grows
    BY <1>3, <1>9, <2>1 DEF Fine, RowsOK, Sound, Grows, Tier, Ephemeral, Permanent
  <2>3. HistoryOK'
    BY <1>2, <1>3, <1>4 DEF Fine, HistoryOK, Row
  <2>4. QED
    BY <2>2, <2>3
<1>11. PICK f : f = [n \in {m} |-> c]
  OBVIOUS
<1>12. f \in Copies /\ CopiesSound(f)'
  <2>1. f \in Copies
    BY <1>4, <1>8, <1>11 DEF Copies
  <2>2. Sound(m, c)'
    BY <1>3, <1>4, <1>5, <1>6, <1>8, <1>9 DEF Sound, Fine, RowsOK, Tier, Ephemeral, Permanent
  <2>3. QED
    BY <1>3, <1>4, <1>11, <2>1, <2>2 DEF CopiesSound
<1>13. PICK j : j = [NoJob EXCEPT !.mem = m, !.copies = f]
  OBVIOUS
<1>14. j \in AnyJob /\ j.copies = f /\ j.mem = m
  BY <1>4, <1>12, <1>13, NoJobTyped DEF NoJob, AnyJob
<1>15. job' = [job EXCEPT ![p] = j] /\ Fits("write", j) /\ "write" \in PC
  BY <1>2, <1>4, <1>6, <1>7, <1>11, <1>13, <1>14 DEF Fits, PC
<1>16. JobsOK'
  BY <1>3, <1>10, <1>12, <1>14, <1>15, JobMoves DEF Fine
<1>17. TextsStand
  BY <1>2, <1>3 DEF TextsStand
<1>18. CopiesAgree'
  <2>1. CopyOK("write", m, c)'
    BY <1>2, <1>3, <1>8 DEF CopyOK, Kept
  <2>2. \A n \in DOMAIN j.copies : CopyOK("write", n, j.copies[n])'
    BY <1>11, <1>14, <2>1
  <2>3. QED
    BY <1>3, <1>14, <1>15, <1>17, <2>2, StandingTexts, CopiedPresent, AgreeMoves
       DEF Fine, TextsAgree
<1>19. DoomsNoMore
  BY <1>3, <1>14, <1>15, DoomedShrinks DEF Fine
<1>20. FactsSafe'
  BY <1>3, <1>17, <1>19, StandingTexts, SafeKept DEF Live, Fine
<1>21. QED
  BY <1>10, <1>16, <1>18, <1>20 DEF Fine

\* A job ends, or moves on with some of its copies, or without any.
LEMMA JobKeeps ==
  ASSUME Fine, RowsOK', HistoryOK', Grows, TextsAgree, NEW p \in Proc, NEW l \in PC,
         NEW j \in AnyJob, pc' = [pc EXCEPT ![p] = l], job' = [job EXCEPT ![p] = j],
         Fits(l, j), DoomsNoMore => FactsSafe',
         pc[p] # "write" \/ DOMAIN j.copies = {},
         \A m \in DOMAIN j.copies : m \in DOMAIN job[p].copies /\ j.copies[m] = job[p].copies[m],
         l \in {"replace", "trash"} => pc[p] \in {"replace", "trash"}
  PROVE  Fine'
<1>1. CopiesSound(j.copies)
  BY DEF CopiesSound, Fine, JobsOK
<1>2. JobsOK'
  BY <1>1, JobMoves DEF Fine
<1>3. CopiesAgree'
  <2>1. JobsOK /\ CopiesAgree
    BY DEF Fine
  <2>2. /\ NothingTakenBack
        /\ \A m \in Memory : row'[m].facts \subseteq told' /\ Steady(m)
    BY DEF TextsAgree
  <2>3. \A q \in Proc : \A m \in DOMAIN job[q].copies : Steady(m)
    BY <2>1, <2>2, CopiedPresent
  <2>4. QED
    BY <2>1, <2>2, <2>3, AgreeShrinks
<1>4. FactsSafe'
  BY DoomedShrinks DEF Fine
<1>5. QED
  BY <1>2, <1>3, <1>4 DEF Fine

LEMMA DoneKeeps ==
  ASSUME Fine, RowsOK', HistoryOK', Grows, TextsAgree, NEW p \in Proc, Done(p),
         DoomsNoMore => FactsSafe'
  PROVE  Fine'
<1>1. "idle" \in PC /\ Fits("idle", NoJob)
  BY DEF PC, Fits
<1>2. QED
  BY <1>1, NoJobTyped, JobKeeps DEF Done, Goto

LEMMA ReinforceKeeps == ASSUME Fine, NEW p \in Proc, Reinforce(p) PROVE Fine'
<1>1. PICK m \in Live : StoreReinforce(m) /\ job' = [job EXCEPT ![p] = [NoJob EXCEPT !.mem = m]]
  BY DEF Reinforce
<1>2. m \in Memory /\ pc' = [pc EXCEPT ![p] = "crystal"] /\ UNCHANGED <<given, told, dropped, risked>>
  BY DEF Live, Reinforce, Goto
<1>3. RowsOK' /\ Grows
      /\ \A n \in Memory : row'[n].status = row[n].status /\ row'[n].facts = row[n].facts
  BY <1>1, <1>2, ReinforceGrows DEF Fine
<1>4. PICK j : j = [NoJob EXCEPT !.mem = m]
  OBVIOUS
<1>5. j \in AnyJob /\ Fits("crystal", j) /\ DOMAIN j.copies = {} /\ "crystal" \in PC
  BY <1>2, <1>4, NoJobTyped DEF NoJob, AnyJob, Fits, PC
<1>6. TextsStand /\ HistoryOK'
  BY <1>2, <1>3 DEF TextsStand, Fine, HistoryOK
<1>7. TextsAgree /\ (DoomsNoMore => FactsSafe')
  BY <1>3, <1>6, StandingTexts, SafeKept DEF Live, Fine
<1>8. pc[p] # "write"
  BY DEF Reinforce
<1>9. QED
  BY <1>1, <1>2, <1>3, <1>4, <1>5, <1>6, <1>7, <1>8, JobKeeps

Nothing == UNCHANGED <<row, given, earned, told, dropped, risked>>

LEMMA NothingElse ==
  ASSUME Fine, Nothing
  PROVE  RowsOK' /\ HistoryOK' /\ Grows /\ TextsAgree /\ (DoomsNoMore => FactsSafe')
<1>1. RowsOK' /\ Grows
  BY NothingMoves DEF Fine, Nothing
<1>2. TextsStand /\ HistoryOK'
  BY DEF Nothing, TextsStand, Fine, HistoryOK
<1>3. TextsAgree /\ Kept' \subseteq Kept
  BY <1>2, StandingTexts DEF Fine
<1>4. DoomsNoMore => FactsSafe'
  BY <1>3, SafeKept DEF Fine, Nothing, Live
<1>5. QED
  BY <1>1, <1>2, <1>3, <1>4

\* A job moves on with copies it has just made, and nothing else changes.
LEMMA OnlyJobMoves ==
  ASSUME Fine, Nothing, NEW p \in Proc, NEW l \in PC, NEW j \in AnyJob,
         pc' = [pc EXCEPT ![p] = l], job' = [job EXCEPT ![p] = j],
         Fits(l, j), CopiesSound(j.copies), l \notin {"replace", "trash"},
         \A m \in DOMAIN j.copies : CopyOK(l, m, j.copies[m])
  PROVE  Fine'
<1>1. JobsOK'
  BY NothingElse, JobMoves DEF Fine
<1>2. \A m \in DOMAIN j.copies : CopyOK(l, m, j.copies[m])'
  BY DEF CopyOK, Nothing, Kept
<1>3. CopiesAgree'
  <2>1. TextsAgree
    BY NothingElse
  <2>2. QED
    BY <1>2, <2>1, CopiedPresent, AgreeMoves DEF Fine, TextsAgree
<1>4. DoomsNoMore
  BY DoomedShrinks DEF Fine
<1>5. QED
  BY <1>1, <1>3, <1>4, NothingElse DEF Fine

LEMMA OnlyJobEnds ==
  ASSUME Fine, Nothing, NEW p \in Proc, Done(p) PROVE Fine'
BY NothingElse, DoneKeeps

\* A job goes on as it is.
LEMMA OnlyPlaceChanges ==
  ASSUME Fine, Nothing, NEW p \in Proc, NEW l \in {"promotion", "expiry"},
         pc' = [pc EXCEPT ![p] = l], UNCHANGED job, pc[p] # "write"
  PROVE  Fine'
<1>1. PICK j \in AnyJob : j = job[p]
  BY DEF Fine, JobsOK
<1>2. job' = [job EXCEPT ![p] = j] /\ Fits(l, j) /\ l \in PC
  BY <1>1 DEF Fine, JobsOK, Fits, PC
<1>3. QED
  BY <1>1, <1>2, NothingElse, JobKeeps

LEMMA CrystallizeKeeps == ASSUME Fine, NEW p \in Proc, Crystallize(p) PROVE Fine'
<1>1. Nothing
  BY DEF Crystallize, Nothing
<1>2. PICK m : m = job[p].mem /\ pc[p] = "crystal"
  BY DEF Crystallize
<1>3. m \in Memory /\ job[p] \in AnyJob /\ pc \in [Proc -> PC] /\ job \in [Proc -> AnyJob]
  BY <1>2 DEF Fine, JobsOK, Fits
<1>4. ASSUME m \in Live, ShouldCrystallize(row[m]), Goto(p, "write"),
             job' = [job EXCEPT ![p].copies = [n \in {m} |-> Promoted(row[m])]]
      PROVE  Fine'
  <2>1. PICK c : c = Promoted(row[m])
    OBVIOUS
  <2>2. row[m] \in Row /\ row[m].status # "absent"
    BY <1>3, <1>4 DEF Fine, RowsOK, Live
  <2>3. /\ c \in Row /\ c.facts = row[m].facts /\ c.rate = c.tier /\ c.count = row[m].count
        /\ row[m].count >= MinReinforce
    <3>1. PICK t : t = row[m].tier + 1
      OBVIOUS
    <3>2. t \in Tier
      BY <1>4, <2>2, <3>1 DEF ShouldCrystallize, Row, Tier, Permanent, Ephemeral
    <3>3. c = [row[m] EXCEPT !.tier = t, !.rate = t]
      BY <2>1, <3>1 DEF Promoted
    <3>4. row[m].count >= MinReinforce
      BY <1>4 DEF ShouldCrystallize
    <3>5. QED
      BY <2>2, <3>2, <3>3, <3>4 DEF Row
  <2>4. Sound(m, c)
    <3>1. row[m].count \in Nat /\ earned[m] \in Nat /\ MinReinforce \in Nat
      BY <1>3, <2>2, ThresholdAssumption DEF Row, Fine, RowsOK
    <3>2. row[m].count <= earned[m]
      BY <1>3 DEF Fine, RowsOK, Sound
    <3>3. QED
      BY <2>3, <3>1, <3>2 DEF Sound
  <2>5. PICK f : f = [n \in {m} |-> c]
    OBVIOUS
  <2>6. f \in Copies /\ CopiesSound(f)
    BY <1>3, <2>2, <2>3, <2>4, <2>5 DEF Copies, CopiesSound
  <2>7. PICK j : j = [job[p] EXCEPT !.copies = f]
    OBVIOUS
  <2>8. j \in AnyJob /\ j.mem = m /\ j.copies = f
    BY <1>2, <1>3, <2>6, <2>7 DEF AnyJob
  <2>9. /\ Fits("write", j) /\ "write" \in PC
        /\ job' = [job EXCEPT ![p] = j] /\ pc' = [pc EXCEPT ![p] = "write"]
    BY <1>3, <1>4, <2>1, <2>5, <2>7, <2>8 DEF Fits, PC, Goto
  <2>10. CopyOK("write", m, c)
    BY <2>3 DEF CopyOK
  <2>11. \A n \in DOMAIN j.copies : CopyOK("write", n, j.copies[n])
    BY <2>5, <2>8, <2>10
  <2>12. CopiesSound(j.copies) /\ "write" \notin {"replace", "trash"}
    BY <2>6, <2>8
  <2>13. QED
    BY <1>1, <2>8, <2>9, <2>11, <2>12, OnlyJobMoves
<1>5. QED
  BY <1>1, <1>2, <1>4, OnlyJobEnds DEF Crystallize

\* What another job has copied of the memory is not contradicted: what the write
\* adds is risked, and what it takes away need not be kept.  Where no job has a
\* copy, the memory is not doomed.
LEMMA WriteKeeps == ASSUME Fine, NEW p \in Proc, Write(p) PROVE Fine'
<1>1. PICK m : m = job[p].mem
  OBVIOUS
<1>2. PICK r : r = job[p].copies[m]
  OBVIOUS
<1>3. m \in Memory /\ m \in DOMAIN job[p].copies /\ r \in Row /\ Sound(m, r)
  BY <1>1, <1>2, CopiesTyped DEF Write, Fine, JobsOK, Fits, CopiesSound, AnyJob
<1>4. /\ row' = Updated(m, r) /\ told' = told \cup r.facts
      /\ risked' = IF Exposed(p, m) THEN risked \cup (r.facts \ row[m].facts) ELSE risked
      /\ Done(p) /\ UNCHANGED <<given, earned, dropped>> /\ pc[p] = "write"
  BY <1>1, <1>2 DEF Write
<1>5. /\ RowsOK' /\ Grows
      /\ \A n \in Memory : row'[n].status = row[n].status
      /\ \A n \in Memory : row'[n].facts = IF n = m THEN r.facts ELSE row[n].facts
  BY <1>3, <1>4, UpdateGrows DEF Fine
<1>6. JobsOK' /\ HistoryOK' /\ DoomsNoMore
  BY <1>3, <1>4, <1>5, JobEnds, DoneDooms DEF Fine, HistoryOK, Row
<1>7. NothingTakenBack /\ Kept' \subseteq Kept \cup r.facts
  BY <1>4 DEF NothingTakenBack, Kept
<1>8. Kept \cap row[m].facts \subseteq r.facts
  BY <1>1, <1>2, <1>3 DEF Fine, CopiesAgree
<1>9. Kept' \cap row[m].facts \subseteq r.facts
  BY <1>3, <1>7, <1>8 DEF Fine, CopiesAgree, NothingTakenBack
<1>10. Exposed(p, m) => Kept' \cap r.facts \subseteq row[m].facts
  BY <1>4 DEF Kept
<1>11. \A n \in Memory : row'[n].facts \subseteq told'
  BY <1>4, <1>5 DEF Fine, CopiesAgree
<1>12. ASSUME NEW q \in Proc \ {p}, NEW n \in DOMAIN job[q].copies PROVE Steady(n)
  <2>1. n \in Memory
    BY <1>12, CopiedPresent DEF Fine
  <2>2. n = m => Exposed(p, m)
    BY <1>12 DEF Exposed
  <2>3. QED
    BY <1>5, <1>9, <1>10, <2>1, <2>2 DEF Steady
<1>13. CopiesAgree'
  <2>1. "idle" \in PC /\ pc' = [pc EXCEPT ![p] = "idle"] /\ job' = [job EXCEPT ![p] = NoJob]
    BY <1>4 DEF PC, Done, Goto
  <2>2. QED
    BY <1>7, <1>11, <1>12, <2>1, NoJobTyped, AgreeMoves DEF Fine
<1>14. FactsSafe'
  <2>1. SUFFICES ASSUME NEW f \in Kept' PROVE \E n \in (Live \ Doomed)' : f \in row'[n].facts
    BY DEF FactsSafe
  <2>2. Live' = Live
    BY <1>5 DEF Live
  <2>3. CASE f \in Kept
    <3>1. PICK n \in Live \ Doomed : f \in row[n].facts
      BY <2>3 DEF Fine, FactsSafe
    <3>2. f \in row'[n].facts
      BY <1>5, <1>9, <2>1, <3>1 DEF Live
    <3>3. QED
      BY <1>6, <2>2, <3>1, <3>2 DEF DoomsNoMore
  <2>4. CASE f \notin Kept
    <3>1. f \in r.facts /\ f \notin told
      BY <1>7, <2>1, <2>4 DEF NothingTakenBack
    <3>2. ~Exposed(p, m)
      BY <1>3, <1>10, <2>1, <3>1 DEF Fine, CopiesAgree
    <3>3. m \in Live /\ m \notin Doomed'
      <4>1. \A q \in Proc \ {p} : m \notin DOMAIN job[q].copies
        BY <3>2 DEF Exposed
      <4>2. \A q \in Proc : q # p => pc'[q] = pc[q] /\ job'[q] = job[q]
        BY <1>4 DEF Done, Goto, Fine, JobsOK
      <4>3. pc'[p] = "idle"
        BY <1>4 DEF Done, Goto, Fine, JobsOK
      <4>4. QED
        BY <3>2, <4>1, <4>2, <4>3 DEF Exposed, Doomed
    <3>4. QED
      BY <1>3, <1>5, <2>2, <3>1, <3>3
  <2>5. QED
    BY <2>3, <2>4
<1>15. QED
  BY <1>5, <1>6, <1>13, <1>14 DEF Fine

LEMMA SelectKeeps ==
  ASSUME Fine, NEW p \in Proc, Select(p) \/ ListWeak(p) PROVE Fine'
<1>1. PICK S \in SUBSET Live :
         job' = [job EXCEPT ![p] = [NoJob EXCEPT !.copies = [m \in S |-> row[m]]]]
  BY DEF Select, ListWeak, Candidates
<1>2. PICK l \in {"merge", "audit"} : pc' = [pc EXCEPT ![p] = l]
  BY DEF Select, ListWeak, Goto
<1>3. Nothing
  BY DEF Select, ListWeak, Nothing
<1>4. PICK j : j = [NoJob EXCEPT !.copies = [m \in S |-> row[m]]]
  OBVIOUS
<1>5. j.copies = [m \in S |-> row[m]]
  BY <1>4 DEF NoJob
<1>6. j \in AnyJob /\ CopiesSound(j.copies)
  BY <1>4, <1>5, RowsCopied DEF Fine
<1>7. Fits(l, j) /\ l \in PC
  BY <1>2 DEF Fits, PC
<1>8. \A m \in DOMAIN j.copies : CopyOK(l, m, j.copies[m])
  BY <1>5, FreshCopyOK DEF Live, Fine
<1>9. QED
  BY <1>1, <1>2, <1>3, <1>4, <1>6, <1>7, <1>8, OnlyJobMoves

\* A merged text takes over the facts of its sources, which are doomed.
LEMMA MergeKeeps == ASSUME Fine, NEW p \in Proc, Merge(p) PROVE Fine'
<1>1. PICK text : text = MergedText(job[p].copies)
  OBVIOUS
<1>2. /\ pc[p] = "merge" /\ UNCHANGED <<told, dropped>>
      /\ \/ /\ \E m \in Live :
                  /\ StoreReinforce(m)
                  /\ job' = [job EXCEPT ![p].answer = m]
                  /\ risked' = risked \cup IF m \in DOMAIN job[p].copies \cup Doomed
                                          THEN text ELSE text \ row[m].facts
            /\ Goto(p, "replace") /\ UNCHANGED given
         \/ /\ \E m \in Absent, hash \in SUBSET Fact :
                  /\ StoreInsert(m, NewRow(text, hash, Permanent, Permanent, FALSE))
                  /\ job' = [job EXCEPT ![p].answer = m]
            /\ Goto(p, "replace") /\ UNCHANGED <<earned, risked>>
         \/ Done(p) /\ UNCHANGED <<row, given, earned, risked>>
  <2>1. text \in SUBSET Fact
    BY <1>1, CopiesTyped DEF MergedText, Fine, JobsOK, AnyJob, Row
  <2>2. TakenBy(text) \subseteq Live
    BY DEF TakenBy
  <2>3. {{}} \cup (IF Repeats THEN {text} ELSE {}) \subseteq SUBSET Fact
    BY <2>1
  <2>4. /\ pc[p] = "merge" /\ UNCHANGED <<told, dropped>>
        /\ \/ MergedCreation(p, text) /\ Goto(p, "replace")
           \/ Done(p) /\ UNCHANGED <<row, given, earned, risked>>
    BY <1>1 DEF Merge
  <2>5. QED
    BY <2>2, <2>3, <2>4 DEF MergedCreation
<1>3. job[p] \in AnyJob /\ DOMAIN job[p].copies \subseteq Memory /\ CopiesSound(job[p].copies)
      /\ \A m \in DOMAIN job[p].copies : job[p].copies[m] \in Row
  BY CopiesTyped DEF Fine, JobsOK, AnyJob
<1>4. text \in SUBSET Fact
  BY <1>1, <1>3 DEF MergedText, Row
<1>5. \A m \in DOMAIN job[p].copies : Kept \cap row[m].facts \subseteq text
  BY <1>1 DEF Fine, CopiesAgree, MergedText
<1>6. ASSUME NEW m \in Memory, job' = [job EXCEPT ![p].answer = m], Goto(p, "replace"),
             NothingTakenBack, \A n \in Memory : row'[n].facts \subseteq told',
             \A n \in Memory \ Absent : Steady(n), RowsOK', Grows
      PROVE  JobsOK' /\ CopiesAgree' /\ Doomed' \subseteq Doomed \cup DOMAIN job[p].copies
  <2>1. PICK j : j = [job[p] EXCEPT !.answer = m]
    OBVIOUS
  <2>2. /\ j \in AnyJob /\ j.copies = job[p].copies /\ Fits("replace", j) /\ "replace" \in PC
        /\ job' = [job EXCEPT ![p] = j] /\ pc' = [pc EXCEPT ![p] = "replace"]
    BY <1>3, <1>6, <2>1 DEF AnyJob, Fits, Goto, PC
  <2>3. JobsOK'
    BY <1>3, <1>6, <2>2, JobMoves DEF Fine
  <2>4. CopiesAgree'
    BY <1>2, <1>6, <2>2, CopiedPresent, AgreeShrinks DEF Fine
  <2>5. QED
    BY <2>2, <2>3, <2>4 DEF Doomed, Fine, JobsOK
<1>7. ASSUME NEW m \in Live, StoreReinforce(m), UNCHANGED given,
             job' = [job EXCEPT ![p].answer = m], Goto(p, "replace"),
             risked' = risked \cup IF m \in DOMAIN job[p].copies \cup Doomed
                                  THEN text ELSE text \ row[m].facts
      PROVE  Fine'
  <2>1. m \in Memory
    BY DEF Live
  <2>2. RowsOK' /\ Grows
        /\ \A n \in Memory : row'[n].status = row[n].status /\ row'[n].facts = row[n].facts
    BY <1>7, <2>1, ReinforceGrows DEF Fine
  <2>3. TextsStand /\ HistoryOK'
    BY <1>2, <1>4, <1>7, <2>2 DEF TextsStand, Fine, HistoryOK
  <2>4. TextsAgree /\ Kept' \subseteq Kept
    BY <2>3, StandingTexts DEF Fine
  <2>5. JobsOK' /\ CopiesAgree' /\ Doomed' \subseteq Doomed \cup DOMAIN job[p].copies
    BY <1>6, <1>7, <2>1, <2>2, <2>4 DEF TextsAgree
  <2>6. FactsSafe'
    <3>1. SUFFICES ASSUME NEW f \in Kept' PROVE \E n \in (Live \ Doomed)' : f \in row'[n].facts
      BY DEF FactsSafe
    <3>2. Live' = Live
      BY <2>2 DEF Live
    <3>3. PICK n \in Live \ Doomed : f \in row[n].facts
      BY <2>4, <3>1 DEF Fine, FactsSafe
    <3>4. CASE n \notin DOMAIN job[p].copies
      BY <2>2, <2>5, <3>2, <3>3, <3>4 DEF Live
    <3>5. CASE n \in DOMAIN job[p].copies
      <4>1. f \in text /\ f \notin risked'
        BY <1>5, <2>4, <3>1, <3>3, <3>5 DEF Kept
      <4>2. m \notin DOMAIN job[p].copies \cup Doomed /\ f \in row[m].facts
        BY <1>7, <4>1
      <4>3. QED
        BY <2>1, <2>2, <2>5, <3>2, <4>2
    <3>6. QED
      BY <3>4, <3>5
  <2>7. QED
    BY <2>2, <2>3, <2>5, <2>6 DEF Fine
<1>8. ASSUME NEW m \in Absent, NEW hash \in SUBSET Fact,
             StoreInsert(m, NewRow(text, hash, Permanent, Permanent, FALSE)),
             job' = [job EXCEPT ![p].answer = m], Goto(p, "replace"), UNCHANGED <<earned, risked>>
      PROVE  Fine'
  <2>1. m \in Memory /\ Permanent \in Tier
    BY DEF Absent, Permanent, Tier, Ephemeral
  <2>2. /\ RowsOK' /\ Grows /\ row'[m].facts = text /\ row'[m].status = "live"
        /\ \A n \in Memory \ {m} : row'[n] = row[n]
    BY <1>4, <1>8, <2>1, InsertGrows DEF Fine
  <2>3. HistoryOK' /\ NothingTakenBack /\ Kept' = Kept
    BY <1>2, <1>8 DEF Fine, HistoryOK, NothingTakenBack, Kept
  <2>4. \A n \in Memory : row'[n].facts \subseteq told'
    <3>1. \A n \in DOMAIN job[p].copies : job[p].copies[n].facts \subseteq told
      BY <1>2 DEF Fine, CopiesAgree
    <3>2. text \subseteq told
      BY <1>1, <3>1 DEF MergedText
    <3>3. QED
      BY <1>2, <2>2, <3>2 DEF Fine, CopiesAgree
  <2>5. \A n \in Memory \ Absent : Steady(n)
    BY <1>8, <2>2 DEF Steady
  <2>6. JobsOK' /\ CopiesAgree' /\ Doomed' \subseteq Doomed \cup DOMAIN job[p].copies
    BY <1>6, <1>8, <2>1, <2>2, <2>3, <2>4, <2>5
  <2>7. m \notin Doomed'
    BY <1>8, <2>6, DoomedPresent, CopiedPresent DEF Fine
  <2>8. FactsSafe'
    <3>1. \A n \in DOMAIN job[p].copies : Kept \cap row[n].facts \subseteq row'[m].facts
      BY <1>5, <2>2
    <3>2. QED
      BY <1>3, <1>8, <2>2, <2>3, <2>6, <2>7, <3>1, SafeWithNew DEF Fine
  <2>9. QED
    BY <2>2, <2>3, <2>6, <2>8 DEF Fine
<1>9. ASSUME Done(p), UNCHANGED <<row, given, earned, risked>> PROVE Fine'
  BY <1>2, <1>9, OnlyJobEnds DEF Nothing
<1>10. QED
  BY <1>2, <1>7, <1>8, <1>9

\* A copy is written back late: it says of what must be kept what its row says.
LEMMA LateWrite ==
  ASSUME Fine, NEW p \in Proc, pc[p] # "write", NEW m \in DOMAIN job[p].copies,
         NEW x \in Memory \cup {None},
         row' = Updated(m, job[p].copies[m]) \/ row' = Updated(m, [job[p].copies[m] EXCEPT !.into = x]),
         UNCHANGED <<given, earned, told, dropped, risked>>
  PROVE  RowsOK' /\ HistoryOK' /\ Grows /\ TextsAgree /\ (DoomsNoMore => FactsSafe')
<1>1. PICK r : r = job[p].copies[m]
  OBVIOUS
<1>2. m \in Memory /\ r \in Row /\ Sound(m, r)
  BY <1>1, CopiesTyped DEF Fine, JobsOK, CopiesSound, AnyJob
<1>3. PICK c \in {r, [r EXCEPT !.into = x]} : row' = Updated(m, c)
  BY <1>1
<1>4. /\ RowsOK' /\ Grows
      /\ \A n \in Memory : row'[n].status = row[n].status
      /\ \A n \in Memory : row'[n].facts = IF n = m THEN r.facts ELSE row[n].facts
  BY <1>2, <1>3, UpdateGrows DEF Fine
<1>5. HistoryOK' /\ Kept' = Kept /\ NothingTakenBack
  BY DEF Fine, HistoryOK, Kept, NothingTakenBack
<1>6. r.facts \subseteq told /\ Kept \cap r.facts = Kept \cap row[m].facts
  BY <1>1 DEF Fine, CopiesAgree
<1>7. TextsAgree
  BY <1>4, <1>5, <1>6 DEF TextsAgree, Steady, Fine, CopiesAgree
<1>8. DoomsNoMore => FactsSafe'
  BY <1>4, <1>5, <1>6, SafeKept DEF Fine, Live
<1>9. QED
  BY <1>4, <1>5, <1>7, <1>8

LEMMA ReplaceKeeps == ASSUME Fine, NEW p \in Proc, Replace(p) PROVE Fine'
<1>1. PICK m \in DOMAIN job[p].copies :
         /\ row' = Updated(m, [job[p].copies[m] EXCEPT !.into = job[p].answer])
         /\ job' = [job EXCEPT ![p].mem = m]
  BY DEF Replace
<1>2. /\ pc[p] = "replace" /\ pc' = [pc EXCEPT ![p] = "trash"]
      /\ UNCHANGED <<given, earned, told, dropped, risked>>
  BY DEF Replace, Goto
<1>3. m \in Memory /\ job[p] \in AnyJob /\ job[p].answer \in Memory \cup {None}
  BY CopiedPresent DEF Fine, JobsOK, AnyJob
<1>4. PICK x \in Memory \cup {None} : x = job[p].answer
  BY <1>3
<1>5. RowsOK' /\ HistoryOK' /\ Grows /\ TextsAgree /\ (DoomsNoMore => FactsSafe')
  BY <1>1, <1>2, <1>4, LateWrite
<1>6. PICK j : j = [job[p] EXCEPT !.mem = m]
  OBVIOUS
<1>7. /\ j \in AnyJob /\ j.copies = job[p].copies /\ j.mem = m
      /\ job' = [job EXCEPT ![p] = j] /\ "trash" \in PC
  BY <1>1, <1>3, <1>6 DEF AnyJob, PC
<1>8. Fits("trash", j)
  BY <1>7 DEF Fits
<1>9. QED
  BY <1>2, <1>5, <1>7, <1>8, JobKeeps

\* The job goes on without the copy of m.
LEMMA WithoutKeeps ==
  ASSUME Fine, RowsOK', HistoryOK', Grows, TextsAgree, DoomsNoMore => FactsSafe',
         NEW p \in Proc, NEW m, NEW l \in PC \ {"crystal", "write", "trash"},
         pc' = [pc EXCEPT ![p] = l], pc[p] # "write",
         job' = [job EXCEPT ![p].copies = Without(job[p].copies, m)],
         l = "replace" => pc[p] = "trash"
  PROVE  Fine'
<1>1. PICK f : f = Without(job[p].copies, m)
  OBVIOUS
<1>2. job[p] \in AnyJob /\ job[p].copies \in Copies /\ CopiesSound(job[p].copies)
  BY DEF Fine, JobsOK, AnyJob
<1>3. /\ f \in Copies
      /\ \A n \in DOMAIN f : n \in DOMAIN job[p].copies /\ f[n] = job[p].copies[n]
  BY <1>1, <1>2, WithoutSound DEF Without
<1>4. PICK j : j = [job[p] EXCEPT !.copies = f]
  OBVIOUS
<1>5. j \in AnyJob /\ j.copies = f /\ job' = [job EXCEPT ![p] = j]
  BY <1>1, <1>2, <1>3, <1>4 DEF AnyJob
<1>6. Fits(l, j)
  BY DEF Fits
<1>7. QED
  BY <1>3, <1>5, <1>6, JobKeeps

\* A source that is deleted is doomed already.
LEMMA TrashKeeps == ASSUME Fine, NEW p \in Proc, Trash(p) PROVE Fine'
<1>1. PICK m : m = job[p].mem
  OBVIOUS
<1>2. /\ pc[p] = "trash" /\ UNCHANGED <<given, earned, told, dropped, risked>>
      /\ row' = Trashed({m} \cap Live)
      /\ \/ Done(p)
         \/ /\ job' = [job EXCEPT ![p].copies = Without(job[p].copies, m)]
            /\ pc' = [pc EXCEPT ![p] = "replace"]
  BY <1>1 DEF Trash, Goto
<1>3. {m} \cap Live \subseteq Doomed
  BY <1>1, <1>2 DEF Fine, JobsOK, Fits, Doomed, Live
<1>4. /\ RowsOK' /\ Grows
      /\ \A n \in Memory : row'[n].facts = row[n].facts
      /\ \A n \in Memory : row'[n].status = IF n \in {m} \cap Live THEN "deleted" ELSE row[n].status
  <2>1. {m} \cap Live \in SUBSET Live
    OBVIOUS
  <2>2. QED
    BY <1>2, <2>1, TrashGrows DEF Fine
<1>5. TextsStand /\ HistoryOK'
  BY <1>2, <1>4 DEF TextsStand, Fine, HistoryOK
<1>6. TextsAgree /\ Kept' \subseteq Kept
  BY <1>5, StandingTexts DEF Fine
<1>7. DoomsNoMore => FactsSafe'
  BY <1>3, <1>4, <1>6, SafeWithoutTrashed DEF Fine
<1>8. CASE Done(p)
  BY <1>4, <1>5, <1>6, <1>7, <1>8, DoneKeeps
<1>9. CASE job' = [job EXCEPT ![p].copies = Without(job[p].copies, m)]
           /\ pc' = [pc EXCEPT ![p] = "replace"]
  <2>1. "replace" \in PC \ {"crystal", "write", "trash"}
    BY DEF PC
  <2>2. QED
    BY <1>2, <1>4, <1>5, <1>6, <1>7, <1>9, <2>1, WithoutKeeps
<1>10. QED
  BY <1>2, <1>8, <1>9

LEMMA AuditKeeps == ASSUME Fine, NEW p \in Proc, Audit(p) PROVE Fine'
<1>1. pc[p] = "audit" /\ UNCHANGED <<given, earned, told, risked>> /\ pc \in [Proc -> PC]
  BY DEF Audit, Fine, JobsOK
<1>2. ASSUME NEW m \in DOMAIN job[p].copies, StoreTrash({m} \cap Live), UNCHANGED pc,
             job' = [job EXCEPT ![p].copies = Without(job[p].copies, m)]
      PROVE  Fine'
  <2>1. /\ RowsOK' /\ HistoryOK' /\ Grows /\ TextsStand /\ (DoomsNoMore => FactsSafe')
    <3>1. {m} \cap Live \in SUBSET Live
      OBVIOUS
    <3>2. QED
      BY <1>1, <1>2, <3>1, DropKeeps
  <2>2. pc' = [pc EXCEPT ![p] = "audit"] /\ "audit" \in PC \ {"crystal", "write", "trash"}
    BY <1>1, <1>2 DEF PC
  <2>3. TextsAgree
    BY <2>1, StandingTexts DEF Fine
  <2>4. QED
    BY <1>1, <1>2, <2>1, <2>2, <2>3, WithoutKeeps
<1>3. ASSUME NEW S \in SUBSET Live, Goto(p, "backfill"), UNCHANGED <<row, dropped>>,
             job' = [job EXCEPT ![p].copies = [m \in S |-> row[m]]]
      PROVE  Fine'
  <2>1. PICK f : f = [m \in S |-> row[m]]
    OBVIOUS
  <2>2. f \in Copies /\ CopiesSound(f)
    BY <2>1 DEF Copies, CopiesSound, Fine, RowsOK, Live
  <2>3. PICK j : j = [job[p] EXCEPT !.copies = f]
    OBVIOUS
  <2>4. j \in AnyJob /\ j.copies = f /\ job' = [job EXCEPT ![p] = j]
    BY <1>3, <2>1, <2>2, <2>3 DEF AnyJob, Fine, JobsOK
  <2>5. Fits("backfill", j) /\ "backfill" \in PC /\ pc' = [pc EXCEPT ![p] = "backfill"]
    BY <1>3 DEF Fits, PC, Goto
  <2>6. \A m \in DOMAIN j.copies : CopyOK("backfill", m, j.copies[m])
    BY <2>1, <2>4, FreshCopyOK DEF Live, Fine
  <2>7. Nothing
    BY <1>1, <1>3 DEF Nothing
  <2>8. QED
    BY <2>2, <2>4, <2>5, <2>6, <2>7, OnlyJobMoves
<1>4. QED
  BY <1>2, <1>3 DEF Audit

LEMMA BackfillKeeps == ASSUME Fine, NEW p \in Proc, Backfill(p) PROVE Fine'
<1>1. /\ pc[p] = "backfill" /\ UNCHANGED <<given, earned, told, dropped, risked>>
      /\ pc \in [Proc -> PC] /\ job \in [Proc -> AnyJob]
  BY DEF Backfill, Fine, JobsOK
<1>2. ASSUME NEW m \in DOMAIN job[p].copies, row' \in {row, Updated(m, job[p].copies[m])},
             job' = [job EXCEPT ![p].copies = Without(job[p].copies, m)], UNCHANGED pc
      PROVE  Fine'
  <2>1. RowsOK' /\ HistoryOK' /\ Grows /\ TextsAgree /\ (DoomsNoMore => FactsSafe')
    <3>1. CASE row' = row
      BY <1>1, <3>1, NothingElse DEF Nothing
    <3>2. CASE row' = Updated(m, job[p].copies[m])
      BY <1>1, <1>2, <3>2, LateWrite
    <3>3. QED
      BY <1>2, <3>1, <3>2
  <2>2. pc' = [pc EXCEPT ![p] = "backfill"] /\ "backfill" \in PC \ {"crystal", "write", "trash"}
    BY <1>1, <1>2 DEF PC
  <2>3. QED
    BY <1>1, <1>2, <2>1, <2>2, WithoutKeeps
<1>3. ASSUME Goto(p, "promotion"), UNCHANGED <<row, job>> PROVE Fine'
  BY <1>1, <1>3, OnlyPlaceChanges DEF Goto, Nothing
<1>4. QED
  BY <1>1, <1>2, <1>3 DEF Backfill

LEMMA PromotionKeeps == ASSUME Fine, NEW p \in Proc, Promotion(p) PROVE Fine'
<1>1. Nothing /\ pc[p] = "promotion"
  BY DEF Promotion, Nothing
<1>2. ASSUME Goto(p, "expiry"), UNCHANGED job PROVE Fine'
  BY <1>1, <1>2, OnlyPlaceChanges DEF Goto
<1>3. QED
  BY <1>1, <1>2, OnlyJobEnds DEF Promotion

LEMMA ExpiryKeeps == ASSUME Fine, NEW p \in Proc, Expiry(p) PROVE Fine'
<1>1. PICK S \in SUBSET Live : StoreTrash(S)
  BY DEF Expiry, CleanupExpired
<1>2. Done(p) /\ UNCHANGED <<given, earned, told, risked>>
  BY DEF Expiry
<1>3. RowsOK' /\ HistoryOK' /\ Grows /\ TextsStand /\ (DoomsNoMore => FactsSafe')
  BY <1>1, <1>2, DropKeeps
<1>4. TextsAgree
  BY <1>3, StandingTexts DEF Fine
<1>5. QED
  BY <1>2, <1>3, <1>4, DoneKeeps

------------------------------------------------------------------------------
(* The theorems.                                                            *)

LEMMA StepKeeps == ASSUME Fine, NEW p \in Proc, Step(p), plan \in Plans PROVE Fine'
<1>1. CASE Edit(p) \/ Reinforce(p) \/ Crystallize(p) \/ Write(p)
  BY <1>1, EditKeeps, ReinforceKeeps, CrystallizeKeeps, WriteKeeps
<1>2. CASE Select(p) \/ Merge(p) \/ Replace(p) \/ Trash(p)
  BY <1>2, SelectKeeps, MergeKeeps, ReplaceKeeps, TrashKeeps
<1>3. CASE ListWeak(p) \/ Audit(p) \/ Backfill(p) \/ Promotion(p) \/ Expiry(p)
  BY <1>3, SelectKeeps, AuditKeeps, BackfillKeeps, PromotionKeeps, ExpiryKeeps
<1>4. CASE Crash(p)
  BY <1>4, OnlyJobEnds DEF Crash, Nothing
<1>5. QED
  BY <1>1, <1>2, <1>3, <1>4 DEF Step

LEMMA StepIInv == IInv /\ [Next]_vars => IInv'
<1>1. ASSUME Fine, plan \in Plans, [Next]_vars PROVE Fine' /\ plan' = plan
  <2>1. CASE Next
    <3>1. ASSUME Create \/ Delete \/ Restore \/ Cleanup PROVE Fine'
      BY <1>1, <3>1, CreateKeeps, DeleteKeeps, RestoreKeeps
    <3>2. ASSUME NEW p \in Proc, Step(p) PROVE Fine'
      BY <1>1, <3>2, StepKeeps
    <3>3. Fine'
      BY <2>1, <3>1, <3>2 DEF Next
    <3>4. plan' = plan
      BY <2>1 DEF Next
    <3>5. QED
      BY <3>3, <3>4
  <2>2. CASE UNCHANGED vars
    <3>1. Nothing /\ UNCHANGED <<plan, pc, job>>
      BY <2>2 DEF vars, Nothing
    <3>2. TextsStand
      BY <3>1 DEF TextsStand, Nothing
    <3>3. Fine'
      BY <1>1, <3>1, <3>2, NothingElse, ClientKeeps
    <3>4. QED
      BY <3>1, <3>3
  <2>3. QED
    BY <1>1, <2>1, <2>2
<1>2. Fine /\ plan \in Plans /\ Fine' /\ plan' = plan => (plan \in Plans /\ Fine)'
  OBVIOUS
<1>3. QED
  BY <1>1, <1>2, Parts, PTL

\* The invariant holds of every behaviour, for any constants.
THEOREM Invariance == Spec => []IInv
BY InitIInv, StepIInv, PTL DEF Spec

\* No row, and no copy that a job holds, has the default decay rate of another
\* tier: it has that of its own, or one that a client gave, in a creation or an
\* update, whatever is written back late.
THEOREM RatesFollowTiers == Spec => []RateFollowsTier
<1>1. IInv => RateFollowsTier
  BY DEF IInv
<1>2. QED
  BY <1>1, Invariance, PTL

\* No memory rises above the tiers asked for it without the reinforcements that
\* crystallization demands, whatever copies jobs write back and when.
THEOREM StandingEarned == Spec => []StandingIsEarned
<1>1. IInv => StandingIsEarned
  BY DEF IInv
<1>2. QED
  BY <1>1, Invariance, PTL

\* What clients stored stays in a live memory until a client replaces it or its
\* memory is deleted other than by a consolidation, but for the facts that are
\* risked: a source is deleted only while a memory that is not a source says what
\* it said, and a late copy overwrites no fact that must be kept.
THEOREM FactsStay == Spec => []FactsKept
<1>1. IInv => FactsKept
  BY DEF IInv, FactsSafe, FactsKept, Held, Doomed
<1>2. QED
  BY <1>1, Invariance, PTL
==============================================================================
