------------------------ MODULE DocumentPipelineProofs ------------------------
(***************************************************************************)
(* The document pipeline, for any documents, files, texts, plans and number *)
(* of slots: a document that reads ready has all its chunks, and a deleted *)
(* one stays deleted.                                                      *)
(***************************************************************************)
EXTENDS DocumentPipeline, TLAPS

------------------------------------------------------------------------------
(* What a step may do to the rows and to the chunks.                        *)

\* Rows that are not there stay as they are.
RowsSafe ==
    /\ row' \in [Doc -> Row]
    /\ \A d \in Doc : ~Stored(d) => row'[d] = row[d]

\* No document becomes ready.
NoNewReady ==
    \A d \in Doc : row'[d].status = "ready" /\ ~row'[d].error
        => row[d].status = "ready" /\ ~row[d].error /\ row'[d].hash = row[d].hash

\* What is stored stays, until somebody deletes a document.
ChunksStay ==
    /\ chunk' \in [Content -> Doc \cup {None}]
    /\ Quiet' => Quiet /\ \A c \in Content : chunk[c] # None => chunk'[c] # None

\* A manual run that has begun has begun.
ManualStays == \A d \in Doc : run'[<<d, "manual">>].pc = "idle" => run[<<d, "manual">>].pc = "idle"

LEMMA TextsHaveChunks == ASSUME NEW h \in Hash PROVE Chunks[h] \subseteq Content
BY ChunkAssumption

LEMMA RowsUnchanged == ASSUME TypeOK, row' = row PROVE RowsSafe /\ NoNewReady
BY DEF TypeOK, RowsSafe, NoNewReady

LEMMA ChunksUnchanged ==
  ASSUME TypeOK, UNCHANGED <<chunk, deletion>> PROVE ChunksStay
BY DEF TypeOK, ChunksStay, Quiet

(* Writing one row.                                                         *)
LEMMA OneRow ==
  ASSUME TypeOK, NEW d \in Doc, NEW x \in Row, Stored(d), row' = [row EXCEPT ![d] = x]
  PROVE  /\ RowsSafe
         /\ (x.status = "ready" /\ ~x.error
                => row[d].status = "ready" /\ ~row[d].error /\ x.hash = row[d].hash) => NoNewReady
BY DEF TypeOK, RowsSafe, NoNewReady

LEMMA StatusRow ==
  ASSUME TypeOK, NEW d \in Doc, NEW s \in Status \ {"ready"}, UpdateStatus(d, s)
  PROVE  RowsSafe /\ NoNewReady
<1>1. CASE ~Stored(d)
  <2>1. row' = row BY <1>1 DEF UpdateStatus
  <2> QED BY <2>1, RowsUnchanged
<1>2. CASE Stored(d)
  <2> DEFINE x == [row[d] EXCEPT !.status = s]
  <2>1. row[d] \in Row BY DEF TypeOK
  <2>2. x \in Row /\ x.status # "ready" BY <2>1 DEF Row
  <2>3. row' = [row EXCEPT ![d] = x] BY <1>2 DEF UpdateStatus
  <2> HIDE DEF x
  <2> QED BY <1>2, <2>2, <2>3, OneRow
<1> QED BY <1>1, <1>2

LEMMA MarkRow ==
  ASSUME TypeOK, NEW d \in Doc, NEW r \in Run, r[1] = d, NEW s \in Status \ {"ready"}, Mark(r, s)
  PROVE  RowsSafe /\ NoNewReady
BY StatusRow, RowsUnchanged DEF Mark

LEMMA UpdateRow ==
  ASSUME TypeOK, NEW d \in Doc, NEW x \in Row, Update(d, x)
  PROVE  /\ RowsSafe
         /\ \A e \in Doc : row'[e] = row[e] \/ (e = d /\ row'[e] = x)
<1>1. CASE ~Stored(d)
  <2>1. row' = row BY <1>1 DEF Update
  <2> QED BY <2>1, RowsUnchanged
<1>2. CASE Stored(d)
  <2>1. row' = [row EXCEPT ![d] = x] BY <1>2 DEF Update
  <2>2. RowsSafe BY <1>2, <2>1, OneRow
  <2> QED BY <2>1, <2>2 DEF TypeOK
<1> QED BY <1>1, <1>2

(* A step after which no more is ready, and no less stored.                 *)
LEMMA ReadyKept ==
  ASSUME TypeOK, ReadyHasText, ReadyIsComplete, NoNewReady, ChunksStay, ManualStays
  PROVE  ReadyHasText' /\ ReadyIsComplete'
<1>1. ReadyHasText' BY DEF ReadyHasText, NoNewReady
<1>2. SUFFICES ASSUME NEW d \in Doc, row'[d].status = "ready", ~row'[d].error,
                      run'[<<d, "manual">>].pc = "idle", Quiet',
                      NEW c \in Chunks[row'[d].hash]
               PROVE  chunk'[c] # None
  BY <1>1 DEF ReadyIsComplete, Quiet
<1>3. row[d].status = "ready" /\ ~row[d].error /\ row'[d].hash = row[d].hash
  BY <1>2 DEF NoNewReady
<1>4. run[<<d, "manual">>].pc = "idle" BY <1>2 DEF ManualStays
<1>5. Quiet /\ \A k \in Content : chunk[k] # None => chunk'[k] # None BY <1>2 DEF ChunksStay
<1>6. c \in Chunks[row[d].hash] /\ c \in Content
  BY <1>2, <1>3, TextsHaveChunks DEF ReadyHasText
<1>7. chunk[c] # None BY <1>3, <1>4, <1>5, <1>6 DEF ReadyIsComplete, Quiet
<1> QED BY <1>5, <1>6, <1>7

(* What other steps store does not hurt the account of a job.               *)
LEMMA AccountKept ==
  ASSUME NEW r \in Run, NEW j, Accounted(r, j, Quiet, chunk), ChunksStay
  PROVE  Accounted(r, j, Quiet', chunk')
<1>1. ASSUME j.hash \in Hash, Quiet', NEW c \in Chunks[j.hash], chunk[c] # None PROVE chunk'[c] # None
  <2>1. c \in Content BY <1>1, TextsHaveChunks
  <2> QED BY <1>1, <2>1 DEF ChunksStay
<1>2. Quiet' => Quiet BY DEF ChunksStay
<1> QED BY <1>1, <1>2 DEF Accounted

LEMMA UploadsKept ==
  ASSUME TypeOK, UploadsOK, RowsSafe, UNCHANGED <<upload, deletion>>
  PROVE  UploadsOK'
BY DEF UploadsOK, RowsSafe, Stored

(* A step of one run: it begins, or goes on.                                *)
LEMMA RunStep ==
  ASSUME IInv, NEW r \in Run, NEW j \in Job, Accounted(r, j, Quiet', chunk'), j.pc # "idle",
         run' = [run EXCEPT ![r] = j], RowsSafe, ChunksStay, UNCHANGED <<plan, upload, deletion>>,
         disk' \in [Doc -> File \cup {None}],
         NoNewReady \/ (ReadyHasText' /\ ReadyIsComplete')
  PROVE  IInv'
<1>1. TypeOK /\ UploadsOK /\ RunsOK /\ ReadyHasText /\ ReadyIsComplete BY DEF IInv
<1>2. TypeOK' BY <1>1 DEF TypeOK, RowsSafe, ChunksStay
<1>3. UploadsOK' BY <1>1, UploadsKept
<1>4. run'[r] = j /\ \A q \in Run \ {r} : run'[q] = run[q] BY <1>1 DEF TypeOK
<1>5. ASSUME NEW q \in Run PROVE Accounted(q, run'[q], Quiet', chunk')
  <2>1. CASE q = r BY <1>4, <2>1
  <2>2. CASE q # r
    <3>1. Accounted(q, run[q], Quiet, chunk) BY <1>1 DEF RunsOK
    <3>2. Accounted(q, run[q], Quiet', chunk') BY <3>1, AccountKept
    <3> QED BY <1>4, <2>2, <3>2
  <2> QED BY <2>1, <2>2
<1>6. RunsOK' BY <1>5 DEF RunsOK
<1>7. ManualStays BY <1>4 DEF ManualStays, Run
<1>8. ReadyHasText' /\ ReadyIsComplete' BY <1>1, <1>7, ReadyKept
<1> QED BY <1>2, <1>3, <1>6, <1>8 DEF IInv

------------------------------------------------------------------------------
(* The steps of a run.                                                      *)

LEMMA JobTyped == ASSUME IInv, NEW r \in Run PROVE run[r] \in Job /\ Accounted(r, run[r], Quiet, chunk)
BY DEF IInv, TypeOK, RunsOK

LEMMA RunsOf == ASSUME NEW d \in Doc PROVE /\ <<d, "async">> \in Run /\ <<d, "manual">> \in Run
                                           /\ <<d, "async">>[1] = d /\ <<d, "manual">>[1] = d
                                           /\ <<d, "async">>[2] = "async" /\ <<d, "manual">>[2] = "manual"
BY DEF Run

\* Where a run has no account to give.
Free == {"wait", "get", "start", "parse", "failing", "panicked", "end"}

(* A step that stores no chunk, and makes no document ready.                *)
LEMMA PlainStep ==
  ASSUME IInv, NEW r \in Run, NEW j \in Job, j.pc # "idle",
         j.pc \in Free \/ Accounted(r, j, Quiet, chunk),
         run' = [run EXCEPT ![r] = j], RowsSafe, NoNewReady,
         UNCHANGED <<plan, upload, deletion, chunk>>, disk' \in [Doc -> File \cup {None}]
  PROVE  IInv'
<1>1. ChunksStay BY ChunksUnchanged DEF IInv
<1>2. Accounted(r, j, Quiet, chunk) BY DEF Free, Accounted
<1>3. Accounted(r, j, Quiet', chunk') BY <1>1, <1>2, AccountKept
<1> QED BY <1>1, <1>3, RunStep

(* The same, for a step that only goes elsewhere.                           *)
LEMMA GotoStep ==
  ASSUME IInv, NEW r \in Run, NEW l \in RunPC \ {"idle"}, Goto(r, l),
         l \in Free \/ Accounted(r, [run[r] EXCEPT !.pc = l], Quiet, chunk), RowsSafe, NoNewReady,
         UNCHANGED <<plan, upload, deletion, chunk>>, disk' \in [Doc -> File \cup {None}]
  PROVE  IInv'
<1> DEFINE j == [run[r] EXCEPT !.pc = l]
<1>1. run[r] \in Job BY JobTyped
<1>2. j \in Job /\ j.pc = l BY <1>1 DEF Job
<1>3. run' = [run EXCEPT ![r] = j] BY DEF Goto
<1>4. j.pc \in Free \/ Accounted(r, j, Quiet, chunk) BY <1>2
<1> HIDE DEF j
<1> QED BY <1>2, <1>3, <1>4, PlainStep

LEMMA DiskTyped == ASSUME IInv, disk' = disk PROVE disk' \in [Doc -> File \cup {None}]
BY DEF IInv, TypeOK

LEMMA RowsKept == ASSUME IInv, row' = row PROVE RowsSafe /\ NoNewReady
BY RowsUnchanged DEF IInv

LEMMA AcquireKeeps == ASSUME IInv, NEW d \in Doc, Acquire(d) PROVE IInv'
<1>1. UNCHANGED <<plan, row, disk, chunk, upload, deletion>> /\ Goto(<<d, "async">>, "get")
  BY DEF Acquire
<1> QED BY <1>1, RunsOf, RowsKept, DiskTyped, GotoStep DEF RunPC, Free

LEMMA GetKeeps == ASSUME IInv, NEW d \in Doc, Get(d) PROVE IInv'
<1> DEFINE r == <<d, "async">>
           j == [run[r] EXCEPT !.pc = "start", !.path = row[d].path, !.error = row[d].error]
<1>1. r \in Run BY RunsOf
<1>2. UNCHANGED <<plan, row, disk, chunk, upload, deletion>> BY DEF Get
<1>3. RowsSafe /\ NoNewReady /\ disk' \in [Doc -> File \cup {None}] BY <1>2, RowsKept, DiskTyped
<1>4. CASE run' = [run EXCEPT ![r] = j]
  <2>1. run[r] \in Job /\ row[d] \in Row BY <1>1, JobTyped DEF IInv, TypeOK
  <2>2. j \in Job /\ j.pc = "start" BY <2>1 DEF Job, Row, RunPC
  <2> HIDE DEF j
  <2> QED BY <1>1, <1>2, <1>3, <1>4, <2>2, PlainStep DEF Free
<1>5. CASE Goto(r, "failing")
  BY <1>1, <1>2, <1>3, <1>5, GotoStep DEF RunPC, Free
<1> QED BY <1>4, <1>5 DEF Get

LEMMA StartParsingKeeps == ASSUME IInv, NEW d \in Doc, StartParsing(d) PROVE IInv'
<1> DEFINE r == <<d, "async">>
<1>1. r \in Run /\ r[1] = d BY RunsOf
<1>2. UNCHANGED <<plan, disk, chunk, upload, deletion>> /\ Goto(r, "parse") /\ Mark(r, "parsing")
  BY DEF StartParsing
<1>3. RowsSafe /\ NoNewReady BY <1>1, <1>2, MarkRow DEF IInv, Status
<1>4. disk' \in [Doc -> File \cup {None}] BY <1>2, DiskTyped
<1> QED BY <1>1, <1>2, <1>3, <1>4, GotoStep DEF RunPC, Free

LEMMA ParseKeeps == ASSUME IInv, NEW d \in Doc, Parse(d) PROVE IInv'
<1> DEFINE r == <<d, "async">>
           j == [run[r] EXCEPT !.pc = "chunk", !.hash = TextHash[disk[d]]]
<1>1. r \in Run BY RunsOf
<1>2. UNCHANGED <<plan, row, disk, chunk, upload, deletion>> BY DEF Parse
<1>3. RowsSafe /\ NoNewReady /\ disk' \in [Doc -> File \cup {None}] BY <1>2, RowsKept, DiskTyped
<1>4. CASE disk[d] # None /\ run' = [run EXCEPT ![r] = j]
  <2>1. run[r] \in Job BY <1>1, JobTyped
  <2>2. TextHash[disk[d]] \in Hash BY <1>4, HashAssumption DEF IInv, TypeOK
  <2>3. j \in Job /\ j.pc = "chunk" /\ j.hash \in Hash BY <2>1, <2>2 DEF Job, RunPC
  <2> HIDE DEF j
  <2>4. Accounted(r, j, Quiet, chunk) BY <2>3 DEF Accounted
  <2> QED BY <1>1, <1>2, <1>3, <1>4, <2>3, <2>4, PlainStep
<1>5. CASE Goto(r, "failing")
  BY <1>1, <1>2, <1>3, <1>5, GotoStep DEF RunPC, Free
<1> QED BY <1>4, <1>5 DEF Parse

(* All the chunks of the text are still to do.                              *)
LEMMA ChunkKeeps == ASSUME IInv, NEW d \in Doc, Chunk(d) PROVE IInv'
<1> DEFINE r == <<d, "async">>
           j == [run[r] EXCEPT !.pc = "embed", !.todo = Chunks[run[r].hash]]
<1>1. r \in Run /\ r[1] = d BY RunsOf
<1>2. /\ UNCHANGED <<plan, disk, chunk, upload, deletion>>
      /\ Mark(r, "chunking") /\ run' = [run EXCEPT ![r] = j] /\ run[r].pc = "chunk"
  BY DEF Chunk
<1>3. RowsSafe /\ NoNewReady BY <1>1, <1>2, MarkRow DEF IInv, Status
<1>4. disk' \in [Doc -> File \cup {None}] BY <1>2, DiskTyped
<1>5. run[r] \in Job /\ Accounted(r, run[r], Quiet, chunk) BY <1>1, JobTyped
<1>6. run[r].hash \in Hash BY <1>2, <1>5 DEF Accounted
<1>7. Chunks[run[r].hash] \subseteq Content BY <1>6, TextsHaveChunks
<1>8. j \in Job /\ j.pc = "embed" /\ j.hash = run[r].hash /\ j.todo = Chunks[run[r].hash]
  BY <1>5, <1>7 DEF Job, RunPC
<1> HIDE DEF j
<1>9. Accounted(r, j, Quiet, chunk) BY <1>6, <1>8 DEF Accounted
<1> QED BY <1>1, <1>2, <1>3, <1>4, <1>8, <1>9, PlainStep

(* The account goes on with the run.                                        *)
LEMMA EmbedKeeps == ASSUME IInv, NEW d \in Doc, Embed(d) PROVE IInv'
<1> DEFINE r == <<d, "async">>
           j == [run[r] EXCEPT !.pc = "ingest"]
<1>1. r \in Run /\ r[1] = d BY RunsOf
<1>2. /\ UNCHANGED <<plan, disk, chunk, upload, deletion>>
      /\ Mark(r, "embedding") /\ Goto(r, "ingest") /\ run[r].pc = "embed"
  BY DEF Embed
<1>3. RowsSafe /\ NoNewReady BY <1>1, <1>2, MarkRow DEF IInv, Status
<1>4. disk' \in [Doc -> File \cup {None}] BY <1>2, DiskTyped
<1>5. run[r] \in Job /\ Accounted(r, run[r], Quiet, chunk) BY <1>1, JobTyped
<1>6. Accounted(r, j, Quiet, chunk) BY <1>2, <1>5 DEF Accounted, Job
<1> QED BY <1>1, <1>2, <1>3, <1>4, <1>6, GotoStep DEF RunPC

(* A chunk is stored, is stored already, or is missed.                      *)
LEMMA IngestKeeps == ASSUME IInv, NEW r \in Run, Ingest(r) PROVE IInv'
<1>1. UNCHANGED <<plan, row, disk, upload, deletion>> /\ run[r].pc = "ingest" BY DEF Ingest
<1>2. RowsSafe /\ NoNewReady /\ disk' \in [Doc -> File \cup {None}] BY <1>1, RowsKept, DiskTyped
<1>3. run[r] \in Job /\ Accounted(r, run[r], Quiet, chunk) BY JobTyped
<1>4. PICK c \in run[r].todo :
        \/ /\ chunk' = [chunk EXCEPT ![c] = IF @ = None THEN Owner(r) ELSE @]
           /\ run' = [run EXCEPT ![r].todo = @ \ {c}]
        \/ /\ run' = [run EXCEPT ![r].todo = @ \ {c}, ![r].missed = @ \/ r[2] = "async"]
           /\ chunk' = chunk
  BY DEF Ingest
<1>5. c \in Content BY <1>3 DEF Job
<1>6. CASE /\ chunk' = [chunk EXCEPT ![c] = IF @ = None THEN Owner(r) ELSE @]
           /\ run' = [run EXCEPT ![r].todo = @ \ {c}]
  <2> DEFINE j == [run[r] EXCEPT !.todo = @ \ {c}]
  <2>1. chunk \in [Content -> Doc \cup {None}] /\ Owner(r) \in Doc BY DEF IInv, TypeOK, Owner, Run
  <2>2. Owner(r) # None BY <2>1, NoneAssumption
  <2>3. chunk' \in [Content -> Doc \cup {None}] BY <1>5, <1>6, <2>1
  <2>4. chunk'[c] # None /\ \A k \in Content : chunk[k] # None => chunk'[k] # None
    BY <1>5, <1>6, <2>1, <2>2
  <2>5. ChunksStay BY <1>1, <2>3, <2>4 DEF ChunksStay, Quiet
  <2>6. /\ j \in Job /\ j.pc = "ingest" /\ j.todo = run[r].todo \ {c}
        /\ j.hash = run[r].hash /\ j.missed = run[r].missed
    BY <1>1, <1>3 DEF Job
  <2>7. run' = [run EXCEPT ![r] = j] BY <1>6
  <2> HIDE DEF j
  <2>8. Accounted(r, run[r], Quiet', chunk') BY <1>3, <2>5, AccountKept
  <2>9. Accounted(r, j, Quiet', chunk') BY <1>1, <2>4, <2>6, <2>8 DEF Accounted
  <2> QED BY <1>1, <1>2, <2>5, <2>6, <2>7, <2>9, RunStep
<1>7. CASE /\ run' = [run EXCEPT ![r].todo = @ \ {c}, ![r].missed = @ \/ r[2] = "async"]
           /\ chunk' = chunk
  <2> DEFINE m == run[r].missed \/ r[2] = "async"
             j == [run[r] EXCEPT !.todo = @ \ {c}, !.missed = m]
  <2>1. m \in BOOLEAN /\ (~m => r[2] # "async") OBVIOUS
  <2>2. run' = [run EXCEPT ![r] = j] BY <1>7
  <2> HIDE DEF m
  <2>3. j \in Job /\ j.pc = "ingest" /\ j.hash = run[r].hash /\ j.missed = m
    BY <1>1, <1>3, <2>1 DEF Job
  <2> HIDE DEF j
  <2>4. Accounted(r, j, Quiet, chunk) BY <1>1, <1>3, <2>1, <2>3 DEF Accounted
  <2> QED BY <1>1, <1>2, <1>7, <2>2, <2>3, <2>4, PlainStep
<1> QED BY <1>4, <1>6, <1>7

LEMMA IngestDoneKeeps == ASSUME IInv, NEW r \in Run, IngestDone(r) PROVE IInv'
<1>1. /\ UNCHANGED <<plan, row, disk, chunk, upload, deletion>>
      /\ run[r].pc = "ingest" /\ run[r].todo = {}
  BY DEF IngestDone
<1>2. PICK l \in {"cleanup", "finish"} : Goto(r, l) BY DEF IngestDone
<1>3. run[r] \in Job /\ Accounted(r, run[r], Quiet, chunk) BY JobTyped
<1>4. Accounted(r, [run[r] EXCEPT !.pc = l], Quiet, chunk) BY <1>1, <1>3 DEF Accounted, Job
<1>5. RowsSafe /\ NoNewReady /\ disk' \in [Doc -> File \cup {None}] BY <1>1, RowsKept, DiskTyped
<1> QED BY <1>1, <1>2, <1>4, <1>5, GotoStep DEF RunPC

LEMMA CleanupKeeps == ASSUME IInv, NEW d \in Doc, Cleanup(d) PROVE IInv'
<1> DEFINE r == <<d, "async">>
<1>1. r \in Run BY RunsOf
<1>2. UNCHANGED <<plan, row, chunk, upload, deletion>> /\ Goto(r, "finish") /\ run[r].pc = "cleanup"
  BY DEF Cleanup
<1>3. disk' \in [Doc -> File \cup {None}] BY DEF Cleanup, IInv, TypeOK
<1>4. run[r] \in Job /\ Accounted(r, run[r], Quiet, chunk) BY <1>1, JobTyped
<1>5. Accounted(r, [run[r] EXCEPT !.pc = "finish"], Quiet, chunk) BY <1>2, <1>4 DEF Accounted, Job
<1>6. RowsSafe /\ NoNewReady BY <1>2, RowsKept
<1> QED BY <1>1, <1>2, <1>3, <1>5, <1>6, GotoStep DEF RunPC

(* The last write: of a run that missed nothing and has nothing to do.      *)
LEMMA FinishKeeps == ASSUME IInv, NEW r \in Run, Finish(r) PROVE IInv' /\ RowsSafe
<1> DEFINE x == Outcome(run[r])
           j == [run[r] EXCEPT !.pc = "end"]
<1>1. UNCHANGED <<plan, disk, chunk, upload, deletion>> /\ Goto(r, "end") /\ run[r].pc = "finish"
  BY DEF Finish
<1>2. PICK d \in Doc : r = <<d, "async">> \/ r = <<d, "manual">> BY DEF Run
<1>3. run[r] \in Job /\ Accounted(r, run[r], Quiet, chunk) BY JobTyped
<1>4. run[r].hash \in Hash /\ run[r].todo = {} BY <1>1, <1>3 DEF Accounted
<1>5. x \in Row /\ x.hash = run[r].hash /\ (~x.error => ~run[r].missed)
  BY <1>3 DEF Outcome, Row, Job, Status
<1>6. disk' \in [Doc -> File \cup {None}] BY <1>1, DiskTyped
<1>7. CASE row' = row
  <2>1. RowsSafe /\ NoNewReady BY <1>7, RowsKept
  <2> QED BY <1>1, <1>6, <2>1, GotoStep DEF RunPC, Free
<1>8. CASE Update(d, x)
  <2> HIDE DEF x
  <2>1. RowsSafe /\ \A e \in Doc : row'[e] = row[e] \/ (e = d /\ row'[e] = x)
    BY <1>5, <1>8, UpdateRow DEF IInv
  <2>2. j \in Job /\ j.pc = "end" BY <1>3 DEF Job, RunPC
  <2>3. run' = [run EXCEPT ![r] = j] BY <1>1 DEF Goto
  <2> HIDE DEF j
  <2>4. ChunksStay BY <1>1, ChunksUnchanged DEF IInv
  <2>5. Accounted(r, j, Quiet', chunk') BY <2>2 DEF Accounted
  <2>6. ReadyHasText' BY <1>4, <1>5, <2>1 DEF IInv, ReadyHasText
  <2>7. run'[r] = j /\ \A q \in Run \ {r} : run'[q] = run[q] BY <2>3 DEF IInv, TypeOK
  <2>8. ReadyIsComplete'
    <3> SUFFICES ASSUME NEW e \in Doc, row'[e].status = "ready", ~row'[e].error,
                        run'[<<e, "manual">>].pc = "idle", Quiet', NEW c \in Chunks[row'[e].hash]
                 PROVE  chunk'[c] # None
      BY DEF ReadyIsComplete, Quiet
    <3>1. run[<<e, "manual">>].pc = "idle" /\ r # <<e, "manual">> BY <2>2, <2>7, RunsOf
    <3>2. CASE row'[e] = row[e]
      BY <1>1, <3>1, <3>2 DEF IInv, ReadyIsComplete, Quiet
    <3>3. CASE e = d /\ row'[e] = x
      <4>1. r[2] = "async" BY <1>2, <3>1, <3>3, RunsOf
      <4>2. Quiet /\ ~run[r].missed BY <1>1, <1>5, <3>3 DEF Quiet
      <4>3. c \in Chunks[run[r].hash] BY <1>5, <3>3
      <4>4. chunk[c] # None BY <1>1, <1>3, <1>4, <4>1, <4>2, <4>3 DEF Accounted
      <4> QED BY <1>1, <4>4
    <3> QED BY <2>1, <3>2, <3>3
  <2> QED BY <1>1, <1>6, <2>1, <2>2, <2>3, <2>4, <2>5, <2>6, <2>8, RunStep
<1>9. r[1] = d BY <1>2, RunsOf
<1> QED BY <1>7, <1>8, <1>9 DEF Finish

LEMMA RecordFailureKeeps == ASSUME IInv, NEW d \in Doc, RecordFailure(d) PROVE IInv' /\ RowsSafe
<1> DEFINE r == <<d, "async">>
<1>1. r \in Run BY RunsOf
<1>2. UNCHANGED <<plan, disk, chunk, upload, deletion>> /\ Goto(r, "end") BY DEF RecordFailure
<1>3. disk' \in [Doc -> File \cup {None}] BY <1>2, DiskTyped
<1>4. RowsSafe /\ NoNewReady
  <2>1. CASE ~Stored(d)
    <3>1. row' = row BY <2>1 DEF RecordFailure
    <3> QED BY <3>1, RowsKept
  <2>2. CASE Stored(d)
    <3>1. PICK done \in SUBSET {"status", "error"} :
            row' = [row EXCEPT ![d].status = IF "status" \in done THEN "failed" ELSE @,
                               ![d].error = @ \/ "error" \in done]
      BY <2>2 DEF RecordFailure
    <3> DEFINE s == IF "status" \in done THEN "failed" ELSE row[d].status
               b == row[d].error \/ "error" \in done
               x == [row[d] EXCEPT !.status = s, !.error = b]
    <3>2. row[d] \in Row BY DEF IInv, TypeOK
    <3>3. s \in Status /\ (s = "ready" => row[d].status = "ready") BY <3>2 DEF Status, Row
    <3>4. b \in BOOLEAN /\ (~b => ~row[d].error) OBVIOUS
    <3>5. row' = [row EXCEPT ![d] = x] BY <3>1
    <3> HIDE DEF s, b
    <3>6. x \in Row /\ x.status = s /\ x.error = b /\ x.hash = row[d].hash
      BY <3>2, <3>3, <3>4 DEF Row
    <3> HIDE DEF x
    <3> QED BY <2>2, <3>3, <3>4, <3>5, <3>6, OneRow DEF IInv
  <2> QED BY <2>1, <2>2
<1> QED BY <1>1, <1>2, <1>3, <1>4, GotoStep DEF RunPC, Free

LEMMA PanicKeeps == ASSUME IInv, NEW d \in Doc, Panic(d) PROVE IInv'
<1>1. UNCHANGED <<plan, row, disk, chunk, upload, deletion>> /\ Goto(<<d, "async">>, "panicked")
  BY DEF Panic
<1> QED BY <1>1, RunsOf, RowsKept, DiskTyped, GotoStep DEF RunPC, Free

LEMMA RecoverKeeps == ASSUME IInv, NEW d \in Doc, Recover(d) PROVE IInv' /\ RowsSafe
<1> DEFINE r == <<d, "async">>
           x == [row[d] EXCEPT !.status = "failed", !.error = TRUE]
<1>1. r \in Run BY RunsOf
<1>2. UNCHANGED <<plan, disk, chunk, upload, deletion>> /\ Goto(r, "end") BY DEF Recover
<1>3. disk' \in [Doc -> File \cup {None}] BY <1>2, DiskTyped
<1>4. RowsSafe /\ NoNewReady
  <2>1. CASE row' = row BY <2>1, RowsKept
  <2>2. CASE Stored(d) /\ row' = [row EXCEPT ![d] = x]
    <3>1. row[d] \in Row BY DEF IInv, TypeOK
    <3>2. x \in Row /\ x.status = "failed" BY <3>1 DEF Row, Status
    <3> HIDE DEF x
    <3> QED BY <2>2, <3>2, OneRow DEF IInv
  <2> QED BY <2>1, <2>2 DEF Recover
<1> QED BY <1>1, <1>2, <1>3, <1>4, GotoStep DEF RunPC, Free

(* A context that is over changes nothing of the account.                   *)
LEMMA ExpireKeeps == ASSUME IInv, NEW r \in Run, Expire(r) PROVE IInv'
<1> DEFINE j == [run[r] EXCEPT !.expired = TRUE]
<1>1. UNCHANGED <<plan, row, disk, chunk, upload, deletion>> /\ run[r].pc # "idle"
  BY DEF Expire, Holds
<1>2. run' = [run EXCEPT ![r] = j] BY DEF Expire
<1>3. run[r] \in Job /\ Accounted(r, run[r], Quiet, chunk) BY JobTyped
<1>4. j \in Job /\ j.pc # "idle" BY <1>1, <1>3 DEF Job
<1>5. Accounted(r, j, Quiet, chunk) BY <1>3 DEF Accounted, Job
<1>6. RowsSafe /\ NoNewReady /\ disk' \in [Doc -> File \cup {None}] BY <1>1, RowsKept, DiskTyped
<1> HIDE DEF j
<1> QED BY <1>1, <1>2, <1>4, <1>5, <1>6, PlainStep

LEMMA ReprocessKeeps == ASSUME IInv, NEW d \in Doc, Reprocess(d) PROVE IInv'
<1> DEFINE r == <<d, "manual">>
<1>1. r \in Run /\ r[2] = "manual" BY RunsOf
<1>2. UNCHANGED <<plan, row, disk, chunk, upload, deletion>> BY DEF Reprocess
<1>3. PICK h \in Hash :
        run' = [run EXCEPT ![r] = [@ EXCEPT !.pc = "mark", !.path = row[d].path,
                                            !.error = row[d].error, !.hash = h, !.todo = Chunks[h]]]
  BY DEF Reprocess
<1> DEFINE j == [run[r] EXCEPT !.pc = "mark", !.path = row[d].path,
                               !.error = row[d].error, !.hash = h, !.todo = Chunks[h]]
<1>4. run' = [run EXCEPT ![r] = j] BY <1>3
<1>5. run[r] \in Job /\ row[d] \in Row BY <1>1, JobTyped DEF IInv, TypeOK
<1>6. Chunks[h] \subseteq Content BY TextsHaveChunks
<1>7. j \in Job /\ j.pc = "mark" /\ j.hash \in Hash BY <1>5, <1>6 DEF Job, Row, RunPC
<1> HIDE DEF j
<1>8. Accounted(r, j, Quiet, chunk) BY <1>7 DEF Accounted
<1>9. RowsSafe /\ NoNewReady /\ disk' \in [Doc -> File \cup {None}] BY <1>2, RowsKept, DiskTyped
<1> QED BY <1>1, <1>2, <1>4, <1>7, <1>8, <1>9, PlainStep

LEMMA MarkProcessingKeeps == ASSUME IInv, NEW d \in Doc, MarkProcessing(d) PROVE IInv'
<1> DEFINE r == <<d, "manual">>
<1>1. r \in Run /\ r[1] = d /\ r[2] = "manual" BY RunsOf
<1>2. /\ UNCHANGED <<plan, disk, chunk, upload, deletion>>
      /\ Goto(r, "ingest") /\ Mark(r, "processing") /\ run[r].pc = "mark"
  BY DEF MarkProcessing
<1>3. RowsSafe /\ NoNewReady BY <1>1, <1>2, MarkRow DEF IInv, Status
<1>4. disk' \in [Doc -> File \cup {None}] BY <1>2, DiskTyped
<1>5. run[r] \in Job /\ Accounted(r, run[r], Quiet, chunk) BY <1>1, JobTyped
<1>6. Accounted(r, [run[r] EXCEPT !.pc = "ingest"], Quiet, chunk)
  BY <1>1, <1>2, <1>5 DEF Accounted, Job
<1> QED BY <1>1, <1>2, <1>3, <1>4, <1>6, GotoStep DEF RunPC

------------------------------------------------------------------------------
(* Uploads.                                                                 *)

(* A step of one upload request.                                            *)
LEMMA IntakeStep ==
  ASSUME IInv, NEW d \in Doc, NEW u \in Intake, upload' = [upload EXCEPT ![d] = u], u.pc # "idle",
         u.pc \in {"save", "check", "path"} => u.file \in File,
         row' \in [Doc -> Row], NoNewReady, \A e \in Doc \ {d} : ~Stored(e) => row'[e] = row[e],
         run' \in [Run -> Job], ManualStays, RunsOK',
         disk' \in [Doc -> File \cup {None}], UNCHANGED <<plan, chunk, deletion>>
  PROVE  IInv'
<1>1. TypeOK /\ UploadsOK /\ ReadyHasText /\ ReadyIsComplete BY DEF IInv
<1>2. TypeOK' BY <1>1 DEF TypeOK
<1>3. upload'[d] = u /\ \A e \in Doc \ {d} : upload'[e] = upload[e] BY <1>1 DEF TypeOK
<1>4. UploadsOK' BY <1>1, <1>3 DEF UploadsOK, Stored
<1>5. ChunksStay BY <1>1, ChunksUnchanged
<1>6. ReadyHasText' /\ ReadyIsComplete' BY <1>1, <1>5, ReadyKept
<1> QED BY <1>2, <1>4, <1>6 DEF IInv

LEMMA SameRuns ==
  ASSUME IInv, UNCHANGED <<run, chunk, deletion>> PROVE run' \in [Run -> Job] /\ ManualStays /\ RunsOK'
BY DEF IInv, TypeOK, ManualStays, RunsOK, Quiet

LEMMA UploadKeeps == ASSUME IInv, NEW d \in Doc, Upload(d) PROVE IInv'
<1>1. PICK f \in File, s \in Scope : upload' = [upload EXCEPT ![d] = [pc |-> "save", file |-> f, scope |-> s]]
  BY PlansAssumption DEF Upload, IInv, TypeOK
<1> DEFINE u == [pc |-> "save", file |-> f, scope |-> s]
           x == [NewRow EXCEPT !.status = "pending"]
<1>2. u \in Intake /\ u.pc = "save" /\ u.file \in File BY DEF Intake
<1>3. row' = [row EXCEPT ![d] = x] /\ UNCHANGED <<plan, disk, chunk, run, deletion>> BY DEF Upload
<1>4. x \in Row /\ x.status = "pending" BY DEF NewRow, Row, Status
<1>5. upload' = [upload EXCEPT ![d] = u] BY <1>1
<1> HIDE DEF u, x
<1>6. row' \in [Doc -> Row] /\ NoNewReady /\ \A e \in Doc \ {d} : row'[e] = row[e]
  BY <1>3, <1>4 DEF IInv, TypeOK, NoNewReady
<1>7. disk' \in [Doc -> File \cup {None}] BY <1>3, DiskTyped
<1> QED BY <1>2, <1>3, <1>5, <1>6, <1>7, SameRuns, IntakeStep

(* The steps that only move the request on.                                 *)
LEMMA IntakeMoves ==
  ASSUME IInv, NEW d \in Doc, NEW l \in {"check", "path", "end"}, upload' = [upload EXCEPT ![d].pc = l],
         upload[d].pc \in {"save", "check", "path"}, RowsSafe, NoNewReady,
         run' \in [Run -> Job], ManualStays, RunsOK',
         disk' \in [Doc -> File \cup {None}], UNCHANGED <<plan, chunk, deletion>>
  PROVE  IInv'
<1> DEFINE u == [upload[d] EXCEPT !.pc = l]
<1>1. upload[d] \in Intake /\ upload[d].file \in File BY DEF IInv, TypeOK, UploadsOK
<1>2. u \in Intake /\ u.pc # "idle" /\ u.file \in File BY <1>1 DEF Intake
<1>3. upload' = [upload EXCEPT ![d] = u] OBVIOUS
<1> HIDE DEF u
<1> QED BY <1>2, <1>3, IntakeStep DEF RowsSafe

LEMMA IntakeKeeps ==
  ASSUME IInv, NEW d \in Doc, SaveFile(d) \/ CheckDuplicate(d) \/ UploadFails(d) PROVE IInv'
<1>1. UNCHANGED <<plan, row, chunk, run, deletion>> BY DEF SaveFile, CheckDuplicate, UploadFails
<1>2. upload[d].pc \in {"save", "check", "path"} BY DEF SaveFile, CheckDuplicate, UploadFails
<1>3. PICK l \in {"check", "path", "end"} : upload' = [upload EXCEPT ![d].pc = l]
  BY DEF SaveFile, CheckDuplicate, UploadFails
<1>4. disk' \in [Doc -> File \cup {None}]
  <2>1. disk \in [Doc -> File \cup {None}] /\ upload[d].file \in File
    BY <1>2 DEF IInv, TypeOK, UploadsOK
  <2> QED BY <2>1 DEF SaveFile, CheckDuplicate, UploadFails
<1> QED BY <1>1, <1>2, <1>3, <1>4, RowsKept, SameRuns, IntakeMoves

LEMMA StartProcessingKeeps == ASSUME IInv, NEW d \in Doc, StartProcessing(d) PROVE IInv' /\ RowsSafe
<1> DEFINE h == FileHash[upload[d].file]
           x == [status |-> "pending", hash |-> h, path |-> TRUE, error |-> FALSE]
           r == <<d, "async">>
<1>1. upload[d].pc = "path" /\ upload[d].file \in File BY DEF StartProcessing, IInv, UploadsOK
<1>2. h \in Hash BY <1>1, HashAssumption
<1>3. x \in Row /\ x.status = "pending" BY <1>2 DEF Row, Status
<1>4. Update(d, x) \/ row' = row BY DEF StartProcessing
<1>5. /\ upload' = [upload EXCEPT ![d].pc = "end"]
      /\ run' = [run EXCEPT ![r].pc = "wait"]
      /\ UNCHANGED <<plan, disk, chunk, deletion>>
  BY DEF StartProcessing
<1> HIDE DEF x
<1>6. RowsSafe /\ NoNewReady
  <2>1. CASE row' = row BY <2>1, RowsKept
  <2>2. CASE Update(d, x)
    <3>1. RowsSafe /\ \A e \in Doc : row'[e] = row[e] \/ (e = d /\ row'[e] = x)
      BY <1>3, <2>2, UpdateRow DEF IInv
    <3> QED BY <1>3, <3>1 DEF NoNewReady
  <2> QED BY <1>4, <2>1, <2>2
<1>7. r \in Run /\ run[r] \in Job /\ run \in [Run -> Job] BY RunsOf DEF IInv, TypeOK
<1> DEFINE j == [run[r] EXCEPT !.pc = "wait"]
<1>8. j \in Job /\ j.pc = "wait" BY <1>7 DEF Job, RunPC
<1>9. run' = [run EXCEPT ![r] = j] BY <1>5
<1> HIDE DEF j
<1>10. run' \in [Run -> Job] /\ run'[r] = j /\ \A q \in Run \ {r} : run'[q] = run[q]
  BY <1>7, <1>8, <1>9
<1>11. ManualStays BY <1>8, <1>10 DEF ManualStays, Run
<1>12. ASSUME NEW q \in Run PROVE Accounted(q, run'[q], Quiet', chunk')
  <2>1. CASE q = r BY <1>8, <1>10, <2>1 DEF Accounted
  <2>2. CASE q # r
    <3>1. Accounted(q, run[q], Quiet, chunk) /\ run'[q] = run[q] BY <1>10, <2>2, JobTyped
    <3> QED BY <1>5, <3>1 DEF Quiet
  <2> QED BY <2>1, <2>2
<1>13. RunsOK' BY <1>12 DEF RunsOK
<1>14. disk' \in [Doc -> File \cup {None}] BY <1>5, DiskTyped
<1> QED BY <1>1, <1>5, <1>6, <1>10, <1>11, <1>13, <1>14, IntakeMoves

------------------------------------------------------------------------------
(* Deletions, and the end of the process.                                   *)

(* Once somebody deletes, less is promised: of ready documents, nothing.    *)
LEMMA DeletionStep ==
  ASSUME IInv, NEW d \in Doc, NEW l \in Withdrawal, l.pc # "idle",
         deletion' = [deletion EXCEPT ![d] = l], upload[d].pc # "idle",
         row' \in [Doc -> Row], \A e \in Doc \ {d} : row'[e] = row[e], ReadyHasText',
         chunk' \in [Content -> Doc \cup {None}], disk' \in [Doc -> File \cup {None}],
         UNCHANGED <<plan, upload, run>>
  PROVE  IInv'
<1>1. TypeOK /\ UploadsOK /\ RunsOK BY DEF IInv
<1>2. TypeOK' BY <1>1 DEF TypeOK
<1>3. deletion'[d] = l /\ \A e \in Doc \ {d} : deletion'[e] = deletion[e] BY <1>1 DEF TypeOK
<1>4. UploadsOK' BY <1>1, <1>3 DEF UploadsOK
<1>5. ~Quiet' BY <1>3 DEF Quiet
<1>6. RunsOK' BY <1>1, <1>5 DEF RunsOK, Accounted
<1>7. ReadyIsComplete' BY <1>5 DEF ReadyIsComplete, Quiet
<1> QED BY <1>2, <1>4, <1>6, <1>7 DEF IInv

LEMMA DeleteKeeps == ASSUME IInv, NEW d \in Doc, DeleteStep(d) PROVE IInv'
<1>1. UNCHANGED <<plan, upload, run>> BY DEF DeleteStep, Delete, DeleteChunks, DeleteFile, DeleteRow
<1>2. PICK l \in Withdrawal : l.pc # "idle" /\ deletion' = [deletion EXCEPT ![d] = l]
  <2>1. deletion \in [Doc -> Withdrawal] /\ row[d] \in Row BY DEF IInv, TypeOK
  <2>2. CASE Delete(d)
    <3>1. [pc |-> "chunks", path |-> row[d].path] \in Withdrawal BY <2>1 DEF Withdrawal, Row
    <3> QED BY <2>2, <3>1 DEF Delete
  <2>3. ASSUME NEW s \in {"file", "row", "end"}, deletion' = [deletion EXCEPT ![d].pc = s]
        PROVE  \E l \in Withdrawal : l.pc # "idle" /\ deletion' = [deletion EXCEPT ![d] = l]
    <3>1. [deletion[d] EXCEPT !.pc = s] \in Withdrawal /\ [deletion[d] EXCEPT !.pc = s].pc # "idle"
      BY <2>1 DEF Withdrawal
    <3>2. deletion' = [deletion EXCEPT ![d] = [deletion[d] EXCEPT !.pc = s]] BY <2>1, <2>3
    <3> QED BY <3>1, <3>2
  <2> QED BY <2>2, <2>3 DEF DeleteStep, DeleteChunks, DeleteFile, DeleteRow
<1>3. upload[d].pc # "idle"
  <2>1. deletion[d].pc # "idle" \/ Stored(d)
    BY DEF DeleteStep, Delete, DeleteChunks, DeleteFile, DeleteRow
  <2> QED BY <2>1 DEF IInv, UploadsOK, Stored
<1>4. disk \in [Doc -> File \cup {None}] /\ chunk \in [Content -> Doc \cup {None}] /\ row \in [Doc -> Row]
  BY DEF IInv, TypeOK
<1>5. disk' \in [Doc -> File \cup {None}]
  BY <1>4 DEF DeleteStep, Delete, DeleteChunks, DeleteFile, DeleteRow
<1>6. chunk' \in [Content -> Doc \cup {None}]
  BY <1>4 DEF DeleteStep, Delete, DeleteChunks, DeleteFile, DeleteRow
<1>7. /\ row' \in [Doc -> Row] /\ \A e \in Doc \ {d} : row'[e] = row[e]
      /\ ReadyHasText'
  <2>1. CASE row' = row BY <1>4, <2>1 DEF IInv, ReadyHasText
  <2>2. CASE row' = [row EXCEPT ![d].status = "deleted"]
    <3> DEFINE x == [row[d] EXCEPT !.status = "deleted"]
    <3>1. x \in Row /\ x.status = "deleted" BY <1>4 DEF Row, Status
    <3>2. row' = [row EXCEPT ![d] = x] BY <2>2
    <3> HIDE DEF x
    <3> QED BY <1>4, <3>1, <3>2 DEF IInv, ReadyHasText
  <2> QED BY <2>1, <2>2 DEF DeleteStep, Delete, DeleteChunks, DeleteFile, DeleteRow
<1> QED BY <1>1, <1>2, <1>3, <1>5, <1>6, <1>7, DeletionStep

LEMMA CrashKeeps == ASSUME IInv, Crash PROVE IInv'
<1>1. TypeOK /\ UploadsOK /\ RunsOK /\ ReadyHasText /\ ReadyIsComplete BY DEF IInv
<1>2. UNCHANGED <<plan, row, disk, chunk>> BY DEF Crash
<1>3. ASSUME NEW d \in Doc
      PROVE  /\ upload'[d] \in Intake /\ (upload'[d].pc = "idle" => upload[d].pc = "idle")
             /\ upload'[d].pc \notin {"save", "check", "path"}
  BY <1>1 DEF Crash, TypeOK, Intake
<1>4. ASSUME NEW r \in Run
      PROVE  /\ run'[r] \in Job /\ (run'[r].pc = "idle" => run[r].pc = "idle")
             /\ run'[r].pc \in {"idle", "end"}
  BY <1>1 DEF Crash, TypeOK, Job, RunPC
<1>5. deletion' \in [Doc -> Withdrawal] /\ \A d \in Doc : deletion'[d].pc = "idle" <=> deletion[d].pc = "idle"
  BY <1>1 DEF Crash, TypeOK, Withdrawal
<1>6. upload' \in [Doc -> Intake] /\ run' \in [Run -> Job] BY <1>3, <1>4 DEF Crash
<1>7. TypeOK' BY <1>1, <1>2, <1>5, <1>6 DEF TypeOK
<1>8. UploadsOK' BY <1>1, <1>2, <1>3, <1>5 DEF UploadsOK
<1>9. RunsOK' BY <1>4 DEF RunsOK, Accounted
<1>10. ManualStays BY <1>4, RunsOf DEF ManualStays
<1>11. NoNewReady BY <1>1, <1>2, RowsUnchanged
<1>12. ChunksStay BY <1>1, <1>2, <1>5 DEF ChunksStay, TypeOK, Quiet
<1>13. ReadyHasText' /\ ReadyIsComplete' BY <1>1, <1>10, <1>11, <1>12, ReadyKept
<1> QED BY <1>7, <1>8, <1>9, <1>13 DEF IInv

------------------------------------------------------------------------------
(* All of it.                                                               *)

LEMMA InitInv == Init => IInv
<1> SUFFICES ASSUME Init PROVE IInv
  OBVIOUS
<1>1. NewRow \in Row /\ NewRow.status = "absent" BY DEF NewRow, Row, Status
<1>2. NewRun \in Job /\ NewRun.pc = "idle" BY DEF NewRun, Job, RunPC
<1>3. \A d \in Doc : row[d].status = "absent" /\ deletion[d].pc = "idle" /\ upload[d].pc = "idle"
  BY <1>1 DEF Init
<1>4. \A r \in Run : run[r].pc = "idle" BY <1>2 DEF Init
<1>5. TypeOK
  <2>1. upload \in [Doc -> Intake] BY DEF Init, Intake
  <2>2. row \in [Doc -> Row] /\ run \in [Run -> Job] BY <1>1, <1>2 DEF Init
  <2> QED BY <2>1, <2>2 DEF Init, TypeOK, Withdrawal
<1>6. UploadsOK BY <1>3 DEF UploadsOK
<1>7. RunsOK BY <1>4 DEF RunsOK, Accounted
<1>8. ReadyHasText /\ ReadyIsComplete BY <1>3 DEF ReadyHasText, ReadyIsComplete
<1> QED BY <1>5, <1>6, <1>7, <1>8 DEF IInv

LEMMA ProcessKeeps == ASSUME IInv, NEW d \in Doc, ProcessStep(d) PROVE IInv'
<1>1. <<d, "async">> \in Run BY RunsOf
<1>2. CASE Get(d) BY <1>2, GetKeeps
<1>3. CASE StartParsing(d) BY <1>3, StartParsingKeeps
<1>4. CASE Parse(d) BY <1>4, ParseKeeps
<1>5. CASE Chunk(d) BY <1>5, ChunkKeeps
<1>6. CASE Embed(d) BY <1>6, EmbedKeeps
<1>7. CASE Ingest(<<d, "async">>) BY <1>1, <1>7, IngestKeeps
<1>8. CASE IngestDone(<<d, "async">>) BY <1>1, <1>8, IngestDoneKeeps
<1>9. CASE Cleanup(d) BY <1>9, CleanupKeeps
<1>10. CASE Finish(<<d, "async">>) BY <1>1, <1>10, FinishKeeps
<1>11. CASE RecordFailure(d) BY <1>11, RecordFailureKeeps
<1>12. CASE Recover(d) BY <1>12, RecoverKeeps
<1> QED BY <1>2, <1>3, <1>4, <1>5, <1>6, <1>7, <1>8, <1>9, <1>10, <1>11, <1>12 DEF ProcessStep

LEMMA ManualKeeps == ASSUME IInv, NEW d \in Doc, ManualStep(d) PROVE IInv'
<1>1. <<d, "manual">> \in Run BY RunsOf
<1> QED BY <1>1, ReprocessKeeps, MarkProcessingKeeps, IngestKeeps, IngestDoneKeeps, FinishKeeps DEF ManualStep

LEMMA UploadStepKeeps == ASSUME IInv, NEW d \in Doc, UploadStep(d) PROVE IInv'
BY UploadKeeps, IntakeKeeps, StartProcessingKeeps DEF UploadStep

(* Every step keeps the invariant.                                          *)
LEMMA StepInv == IInv /\ [Next]_vars => IInv'
<1> SUFFICES ASSUME IInv, [Next]_vars PROVE IInv'
  OBVIOUS
<1>1. CASE UNCHANGED vars
  BY <1>1 DEF vars, IInv, TypeOK, UploadsOK, RunsOK, ReadyHasText, ReadyIsComplete, Quiet
<1>2. ASSUME NEW d \in Doc, UploadStep(d) \/ Acquire(d) \/ ProcessStep(d) \/ Panic(d)
                            \/ ManualStep(d) \/ DeleteStep(d)
      PROVE  IInv'
  BY <1>2, UploadStepKeeps, AcquireKeeps, ProcessKeeps, PanicKeeps, ManualKeeps, DeleteKeeps
<1>3. ASSUME NEW r \in Run, Expire(r) PROVE IInv' BY <1>3, ExpireKeeps
<1>4. CASE Crash BY <1>4, CrashKeeps
<1> QED BY <1>1, <1>2, <1>3, <1>4 DEF Next

(* Rows that are gone: an upload writes only where nothing was; the other   *)
(* statements find nothing to write to.                                     *)
GoneStay == \A d \in Doc : row[d].status = "deleted" => row'[d] = row[d]

LEMMA SafeIsGone == ASSUME RowsSafe PROVE GoneStay
BY DEF RowsSafe, GoneStay, Stored

LEMMA MarksSafe ==
  ASSUME IInv, NEW d \in Doc, StartParsing(d) \/ Chunk(d) \/ Embed(d) \/ MarkProcessing(d)
  PROVE  GoneStay
<1>1. PICK r \in Run, s \in Status \ {"ready"} : r[1] = d /\ Mark(r, s)
  BY RunsOf DEF StartParsing, Chunk, Embed, MarkProcessing, Status
<1> QED BY <1>1, MarkRow, SafeIsGone DEF IInv

LEMMA UploadIsNew == ASSUME IInv, NEW d \in Doc, Upload(d) PROVE GoneStay
<1>1. row[d].status # "deleted" BY DEF Upload, IInv, UploadsOK
<1>2. \A e \in Doc \ {d} : row'[e] = row[e] BY DEF Upload, IInv, TypeOK
<1> QED BY <1>1, <1>2 DEF GoneStay

LEMMA DeletedTwice == ASSUME IInv, NEW d \in Doc, DeleteRow(d) PROVE GoneStay
<1>1. row \in [Doc -> Row] BY DEF IInv, TypeOK
<1>2. CASE row' = row BY <1>2 DEF GoneStay
<1>3. CASE row' = [row EXCEPT ![d].status = "deleted"]
  <2>1. row[d].status = "deleted" => row'[d] = row[d] BY <1>1, <1>3 DEF Row
  <2>2. \A e \in Doc \ {d} : row'[e] = row[e] BY <1>1, <1>3
  <2> QED BY <2>1, <2>2 DEF GoneStay
<1> QED BY <1>2, <1>3 DEF DeleteRow

LEMMA StepGone == IInv /\ [Next]_vars => [\A d \in Doc : row[d].status = "deleted" => row'[d] = row[d]]_vars
<1> SUFFICES ASSUME IInv, Next PROVE GoneStay
  BY DEF GoneStay
<1>1. CASE row' = row BY <1>1 DEF GoneStay
<1>2. ASSUME NEW d \in Doc, UploadStep(d) PROVE GoneStay \/ row' = row
  <2>1. CASE Upload(d) BY <2>1, UploadIsNew
  <2>2. CASE StartProcessing(d) BY <2>2, StartProcessingKeeps, SafeIsGone
  <2>3. CASE SaveFile(d) \/ CheckDuplicate(d) \/ UploadFails(d)
    BY <2>3 DEF SaveFile, CheckDuplicate, UploadFails
  <2> QED BY <1>2, <2>1, <2>2, <2>3 DEF UploadStep
<1>3. ASSUME NEW r \in Run, Ingest(r) \/ IngestDone(r) \/ Finish(r) \/ Expire(r)
      PROVE  GoneStay \/ row' = row
  <2>1. CASE Finish(r) BY <2>1, FinishKeeps, SafeIsGone
  <2>2. CASE Ingest(r) \/ IngestDone(r) \/ Expire(r) BY <2>2 DEF Ingest, IngestDone, Expire
  <2> QED BY <1>3, <2>1, <2>2
<1>4. ASSUME NEW d \in Doc, ProcessStep(d) PROVE GoneStay \/ row' = row
  <2>1. CASE StartParsing(d) \/ Chunk(d) \/ Embed(d) BY <2>1, MarksSafe
  <2>2. CASE RecordFailure(d) \/ Recover(d)
    BY <2>2, RecordFailureKeeps, RecoverKeeps, SafeIsGone
  <2>3. CASE Get(d) \/ Parse(d) \/ Cleanup(d) BY <2>3 DEF Get, Parse, Cleanup
  <2>4. CASE Ingest(<<d, "async">>) \/ IngestDone(<<d, "async">>) \/ Finish(<<d, "async">>)
    BY <1>3, <2>4, RunsOf
  <2> QED BY <1>4, <2>1, <2>2, <2>3, <2>4 DEF ProcessStep
<1>5. ASSUME NEW d \in Doc, ManualStep(d) PROVE GoneStay \/ row' = row
  <2>1. CASE MarkProcessing(d) BY <2>1, MarksSafe
  <2>2. CASE Reprocess(d) BY <2>2 DEF Reprocess
  <2>3. CASE Ingest(<<d, "manual">>) \/ IngestDone(<<d, "manual">>) \/ Finish(<<d, "manual">>)
    BY <1>3, <2>3, RunsOf
  <2> QED BY <1>5, <2>1, <2>2, <2>3 DEF ManualStep
<1>6. ASSUME NEW d \in Doc, DeleteStep(d) PROVE GoneStay \/ row' = row
  BY <1>6, DeletedTwice DEF DeleteStep, Delete, DeleteChunks, DeleteFile
<1>7. ASSUME NEW d \in Doc, Acquire(d) \/ Panic(d) PROVE row' = row BY <1>7 DEF Acquire, Panic
<1>8. CASE Crash BY <1>1, <1>8 DEF Crash
<1> QED BY <1>1, <1>2, <1>3, <1>4, <1>5, <1>6, <1>7, <1>8 DEF Next

(* The inductive invariant holds in every state, for any documents, files,  *)
(* texts, requests, faults and number of slots (document/processor.go,      *)
(* api/document_handler.go).                                                *)
THEOREM Invariance == Spec => []IInv
BY InitInv, StepInv, PTL DEF Spec

(* Types of the documents table, the requests and the runs.                 *)
THEOREM Typed == Spec => []TypeOK
<1>1. IInv => TypeOK BY DEF IInv
<1> QED BY <1>1, Invariance, PTL

(* processDocument: a document that reads ready, without an error message,  *)
(* has every chunk of its text in the store, if nobody deletes documents or *)
(* reprocesses this one.                                                    *)
THEOREM ReadyMeansComplete == Spec => []ReadyIsComplete
<1>1. IInv => ReadyIsComplete BY DEF IInv
<1> QED BY <1>1, Invariance, PTL

(* UpdateStatus, Update, SoftDelete: no late write brings a document back.  *)
THEOREM NoResurrection == Spec => DeletedStaysGone
BY Invariance, StepGone, PTL DEF Spec, DeletedStaysGone
===============================================================================
