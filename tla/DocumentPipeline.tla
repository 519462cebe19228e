--------------------------- MODULE DocumentPipeline ---------------------------
(***************************************************************************)
(* Documents (internal/document, api/document_handler, the documents       *)
(* table): upload with file-level deduplication, asynchronous processing   *)
(* behind a semaphore, manual reprocessing and deletion, over one table    *)
(* with a unique index on content_hash, one directory per document, and    *)
(* the chunk memories.                                                     *)
(*                                                                         *)
(* Every store call is one statement, hence one action; an upload request, *)
(* the processing goroutine, a reprocess request and a delete request of   *)
(* one document run concurrently.  Chunk memories are known by content, as *)
(* Manager.Create deduplicates them (module MemoryStore).                  *)
(***************************************************************************)
EXTENDS Naturals, FiniteSets

CONSTANTS
    Doc, File, Scope, Content,
    Hash,           \* hashes of files and of parsed texts
    FileHash,       \* [File -> Hash]: what the upload handler computes
    TextHash,       \* [File -> Hash]: of the text the parser returns
    Chunks,         \* [Hash -> SUBSET Content]: the chunks of a text
    MaxConcurrent,  \* document.max_concurrent
    Plans,          \* which files are uploaded as which documents, which requests
                    \* there are besides, whether processing may exceed ProcessTimeout,
                    \* and whether parsers, statements and processes may fail;
                    \* a choice, made at the start
    None

ASSUME HashAssumption  == FileHash \in [File -> Hash] /\ TextHash \in [File -> Hash]
ASSUME ChunkAssumption == Chunks \in [Hash -> SUBSET Content]
ASSUME LimitAssumption == MaxConcurrent \in Nat \ {0}
ASSUME PlansAssumption ==
    Plans \subseteq [docs : SUBSET Doc, files : SUBSET File, requests : SUBSET {"reprocess", "delete"},
                    timeouts : BOOLEAN, faults : BOOLEAN]
ASSUME NoneAssumption  == None \notin Doc \cup File \cup Scope \cup Hash

VARIABLES
    plan,
    row,      \* the documents table; path says whether file_path is set
    disk,     \* the file in data/uploads/<doc>, or None
    chunk,    \* the document whose live chunk memory has that content, or None
    upload,   \* each document's upload request: where it is, and its input
    run,      \* each processing run, asynchronous or manual
    deletion  \* each document's delete request, and whether the document it read had a path

vars == <<plan, row, disk, chunk, upload, run, deletion>>

Requests == plan.requests
Timeouts == plan.timeouts
Faults   == plan.faults

Run    == Doc \X {"async", "manual"}
Status == {"absent", "pending", "parsing", "chunking", "embedding", "processing",
           "ready", "failed", "deleted"}
RunPC  == {"idle", "wait", "get", "start", "parse", "chunk", "embed", "mark", "ingest", "cleanup",
           "finish", "failing", "panicked", "end"}
NewRow == [status |-> "absent", hash |-> None, path |-> FALSE, error |-> FALSE]
NewRun == [pc |-> "idle", path |-> FALSE, error |-> FALSE, hash |-> None, todo |-> {},
           missed |-> FALSE, expired |-> FALSE]

\* The rows of the table, and what requests and runs keep.
Row    == [status : Status, hash : Hash \cup {None}, path : BOOLEAN, error : BOOLEAN]
Job    == [pc : RunPC, path : BOOLEAN, error : BOOLEAN, hash : Hash \cup {None},
           todo : SUBSET Content, missed : BOOLEAN, expired : BOOLEAN]
Intake == [pc : {"idle", "save", "check", "path", "end"},
           file : File \cup {None}, scope : Scope \cup {None}]
Withdrawal == [pc : {"idle", "chunks", "file", "row", "end"}, path : BOOLEAN]

TypeOK ==
    /\ plan \in Plans
    /\ row \in [Doc -> Row]
    /\ disk \in [Doc -> File \cup {None}]
    /\ chunk \in [Content -> Doc \cup {None}]
    /\ upload \in [Doc -> Intake]
    /\ run \in [Run -> Job]
    /\ deletion \in [Doc -> Withdrawal]

Init ==
    /\ plan \in Plans
    /\ row = [d \in Doc |-> NewRow]
    /\ disk = [d \in Doc |-> None]
    /\ chunk = [c \in Content |-> None]
    /\ upload = [d \in Doc |-> [pc |-> "idle", file |-> None, scope |-> None]]
    /\ run = [r \in Run |-> NewRun]
    /\ deletion = [d \in Doc |-> [pc |-> "idle", path |-> FALSE]]

------------------------------------------------------------------------------
(* The documents table.                                                     *)

Stored(d) == row[d].status \notin {"absent", "deleted"}

\* idx_documents_content_hash_unique would be violated.
Conflict(d, h) == h # None /\ \E e \in Doc \ {d} : Stored(e) /\ row[e].hash = h

UpdateStatus_Inserts(d, s) == row' = [row EXCEPT ![d].status = s]

\* UpdateStatus: nothing happens to a row that is not there.
UpdateStatus(d, s) ==
    row' = IF Stored(d) THEN [row EXCEPT ![d].status = s] ELSE row

\* SQLiteDocumentStore.Update: the whole row, or nothing when it is not there.
Update(d, r) ==
    /\ ~Conflict(d, r.hash)
    /\ row' = IF Stored(d) THEN [row EXCEPT ![d] = r] ELSE row

\* A statement of run r fails: always once its context has expired.
Fails(r) == Faults \/ run[r].expired

------------------------------------------------------------------------------
(* DocumentHandler.Upload.                                                  *)

Upload(d) ==
    /\ upload[d].pc = "idle" /\ d \in plan.docs
    /\ \E f \in plan.files, s \in Scope :
          upload' = [upload EXCEPT ![d] = [pc |-> "save", file |-> f, scope |-> s]]
    /\ row' = [row EXCEPT ![d] = [NewRow EXCEPT !.status = "pending"]]
    /\ UNCHANGED <<plan, disk, chunk, run, deletion>>

SaveFile(d) ==
    /\ upload[d].pc = "save"
    /\ disk' = [disk EXCEPT ![d] = upload[d].file]
    /\ upload' = [upload EXCEPT ![d].pc = "check"]
    /\ UNCHANGED <<plan, row, chunk, run, deletion>>

\* GetDocumentByHash: the row with that hash, if it is of the same scope.
Duplicate(d) ==
    \E e \in Doc : /\ Stored(e)
                   /\ row[e].hash = FileHash[upload[d].file]
                   /\ upload[e].scope = upload[d].scope

\* A duplicate: the file goes, the existing document is returned, and the new
\* row stays as it is.
CheckDuplicate(d) ==
    /\ upload[d].pc = "check"
    /\ \/ /\ Duplicate(d)
          /\ disk' = [disk EXCEPT ![d] = None]
          /\ upload' = [upload EXCEPT ![d].pc = "end"]
       \/ /\ ~Duplicate(d) \/ Faults
          /\ upload' = [upload EXCEPT ![d].pc = "path"]
          /\ UNCHANGED disk
    /\ UNCHANGED <<plan, row, chunk, run, deletion>>

\* UpdateDocFilePath, whose error is ignored, and ProcessAsync.
StartProcessing(d) ==
    /\ upload[d].pc = "path"
    /\ LET h == FileHash[upload[d].file] IN
       \/ Update(d, [status |-> "pending", hash |-> h, path |-> TRUE, error |-> FALSE])
       \/ (Conflict(d, h) \/ Faults) /\ UNCHANGED row
    /\ upload' = [upload EXCEPT ![d].pc = "end"]
    /\ run' = [run EXCEPT ![<<d, "async">>].pc = "wait"]
    /\ UNCHANGED <<plan, disk, chunk, deletion>>

\* The request ends at an error or is cancelled.
UploadFails(d) ==
    /\ Faults
    /\ upload[d].pc \in {"save", "check", "path"}
    /\ upload' = [upload EXCEPT ![d].pc = "end"]
    /\ UNCHANGED <<plan, row, disk, chunk, run, deletion>>

------------------------------------------------------------------------------
(* Processor.ProcessAsync and processDocument.                              *)

Goto(r, l) == run' = [run EXCEPT ![r].pc = l]

Holds_Leaked(r) == run[r].pc \notin {"idle", "wait"}

\* The runs between p.sem <- struct{}{} and <-p.sem.
Holds(r) == run[r].pc \notin {"idle", "wait", "panicked", "end"}

Acquire(d) ==
    LET r == <<d, "async">> IN
    /\ run[r].pc = "wait"
    /\ Cardinality({e \in Doc : Holds(<<e, "async">>)}) < MaxConcurrent
    /\ Goto(r, "get")
    /\ UNCHANGED <<plan, row, disk, chunk, upload, deletion>>

\* The run reads the document and works on that copy from now on.
Get(d) ==
    LET r == <<d, "async">> IN
    /\ run[r].pc = "get"
    /\ \/ /\ Stored(d) /\ ~run[r].expired
          /\ run' = [run EXCEPT ![r] = [@ EXCEPT !.pc = "start", !.path = row[d].path,
                                                 !.error = row[d].error]]
       \/ (~Stored(d) \/ Fails(r)) /\ Goto(r, "failing")
    /\ UNCHANGED <<plan, row, disk, chunk, upload, deletion>>

Mark(r, s) ==
    \/ ~run[r].expired /\ UpdateStatus(r[1], s)
    \/ Fails(r) /\ UNCHANGED row

StartParsing(d) ==
    LET r == <<d, "async">> IN
    /\ run[r].pc = "start"
    /\ Mark(r, "parsing")
    /\ Goto(r, "parse")
    /\ UNCHANGED <<plan, disk, chunk, upload, deletion>>

\* Parsing, with whichever parser.
Parse(d) ==
    LET r == <<d, "async">> IN
    /\ run[r].pc = "parse"
    /\ \/ /\ run[r].path /\ disk[d] # None /\ ~run[r].expired
          /\ run' = [run EXCEPT ![r] = [@ EXCEPT !.pc = "chunk", !.hash = TextHash[disk[d]]]]
       \/ (~run[r].path \/ disk[d] = None \/ Fails(r)) /\ Goto(r, "failing")
    /\ UNCHANGED <<plan, row, disk, chunk, upload, deletion>>

Chunk(d) ==
    LET r == <<d, "async">> IN
    /\ run[r].pc = "chunk"
    /\ Mark(r, "chunking")
    /\ run' = [run EXCEPT ![r] = [@ EXCEPT !.pc = "embed", !.todo = Chunks[run[r].hash]]]
    /\ UNCHANGED <<plan, disk, chunk, upload, deletion>>

Embed(d) ==
    LET r == <<d, "async">> IN
    /\ run[r].pc = "embed"
    /\ Mark(r, "embedding")
    /\ Goto(r, "ingest")
    /\ UNCHANGED <<plan, disk, chunk, upload, deletion>>

\* The DocumentID of the memories a run creates.
Owner(r) == r[1]

\* One chunk: Manager.Create makes a memory of the document, or answers with
\* the one that has this content; an error is logged and, unless the run is
\* manual, the chunk noted.
Ingest(r) ==
    /\ run[r].pc = "ingest"
    /\ \E c \in run[r].todo :
          \/ /\ ~run[r].expired
             /\ chunk' = [chunk EXCEPT ![c] = IF @ = None THEN Owner(r) ELSE @]
             /\ run' = [run EXCEPT ![r].todo = @ \ {c}]
          \/ /\ Fails(r)
             /\ run' = [run EXCEPT ![r].todo = @ \ {c}, ![r].missed = @ \/ r[2] = "async"]
             /\ UNCHANGED chunk
    /\ UNCHANGED <<plan, row, disk, upload, deletion>>

IngestDone(r) ==
    /\ run[r].pc = "ingest"
    /\ run[r].todo = {}
    /\ Goto(r, IF r[2] = "async" THEN "cleanup" ELSE "finish")
    /\ UNCHANGED <<plan, row, disk, chunk, upload, deletion>>

\* CleanupAfterParse; images, which may be kept, are left out.
Cleanup(d) ==
    LET r == <<d, "async">> IN
    /\ run[r].pc = "cleanup"
    /\ \/ disk' = [disk EXCEPT ![d] = None]
       \/ Faults /\ UNCHANGED disk
    /\ Goto(r, "finish")
    /\ UNCHANGED <<plan, row, chunk, upload, deletion>>

Outcome_Clean(j) == [status |-> "ready", hash |-> j.hash, path |-> j.path, error |-> j.error]

\* The document as the run leaves it: ready, with the hash of its text.
Outcome(j) ==
    [status |-> "ready", hash |-> j.hash, path |-> j.path, error |-> j.error \/ j.missed]

\* The last write of a run; an error is logged and counts as success.
Finish(r) ==
    /\ run[r].pc = "finish"
    /\ \/ ~run[r].expired /\ Update(r[1], Outcome(run[r]))
       \/ (Fails(r) \/ Conflict(r[1], run[r].hash)) /\ UNCHANGED row
    /\ Goto(r, "end")
    /\ UNCHANGED <<plan, disk, chunk, upload, deletion>>

\* processDocument returned an error: UpdateStatus and UpdateErrorMsg, under
\* the context of the run, their errors ignored.
RecordFailure(d) ==
    LET r == <<d, "async">> IN
    /\ run[r].pc = "failing"
    /\ \E done \in SUBSET {"status", "error"} :
          /\ done = {"status", "error"} \/ Fails(r)
          /\ done = {} \/ ~run[r].expired
          /\ row' = IF Stored(d)
                    THEN [row EXCEPT ![d].status = IF "status" \in done THEN "failed" ELSE @,
                                     ![d].error = @ \/ "error" \in done]
                    ELSE row
    /\ Goto(r, "end")
    /\ UNCHANGED <<plan, disk, chunk, upload, deletion>>

\* The slot is released before recover() writes, under a fresh context.
Panic(d) ==
    /\ Faults
    /\ Holds(<<d, "async">>)
    /\ Goto(<<d, "async">>, "panicked")
    /\ UNCHANGED <<plan, row, disk, chunk, upload, deletion>>

Recover(d) ==
    /\ run[<<d, "async">>].pc = "panicked"
    /\ \/ row' = IF Stored(d) THEN [row EXCEPT ![d] = [@ EXCEPT !.status = "failed",
                                                             !.error = TRUE]] ELSE row
       \/ UNCHANGED row
    /\ Goto(<<d, "async">>, "end")
    /\ UNCHANGED <<plan, disk, chunk, upload, deletion>>

\* ProcessTimeout, or the client of a manual run goes away.
Expire(r) ==
    /\ Timeouts
    /\ Holds(r) /\ ~run[r].expired
    /\ run' = [run EXCEPT ![r].expired = TRUE]
    /\ UNCHANGED <<plan, row, disk, chunk, upload, deletion>>

------------------------------------------------------------------------------
(* Processor.Process: POST /documents/:id/reprocess with the text of some   *)
(* content, once per document (the bound on these requests).                *)

Reprocess(d) ==
    LET r == <<d, "manual">> IN
    /\ "reprocess" \in Requests
    /\ run[r].pc = "idle"
    /\ Stored(d)
    /\ \E h \in Hash :
          run' = [run EXCEPT ![r] = [@ EXCEPT !.pc = "mark", !.path = row[d].path,
                                              !.error = row[d].error, !.hash = h,
                                              !.todo = Chunks[h]]]
    /\ UNCHANGED <<plan, row, disk, chunk, upload, deletion>>

MarkProcessing(d) ==
    LET r == <<d, "manual">> IN
    /\ run[r].pc = "mark"
    /\ Mark(r, "processing")
    /\ Goto(r, "ingest")
    /\ UNCHANGED <<plan, disk, chunk, upload, deletion>>

------------------------------------------------------------------------------
(* Processor.DeleteDocument: the chunk memories, the directory, the row.    *)

Delete(d) ==
    /\ "delete" \in Requests
    /\ deletion[d].pc = "idle"
    /\ Stored(d)
    /\ deletion' = [deletion EXCEPT ![d] = [pc |-> "chunks", path |-> row[d].path]]
    /\ UNCHANGED <<plan, row, disk, chunk, upload, run>>

\* SoftDeleteByDocumentID, whose error is only logged.
DeleteChunks(d) ==
    /\ deletion[d].pc = "chunks"
    /\ \/ chunk' = [c \in Content |-> IF chunk[c] = d THEN None ELSE chunk[c]]
       \/ Faults /\ UNCHANGED chunk
    /\ deletion' = [deletion EXCEPT ![d].pc = "file"]
    /\ UNCHANGED <<plan, row, disk, upload, run>>

\* Only if the document read at the start had a file path; errors are ignored.
DeleteFile(d) ==
    /\ deletion[d].pc = "file"
    /\ \/ deletion[d].path /\ disk' = [disk EXCEPT ![d] = None]
       \/ (Faults \/ ~deletion[d].path) /\ UNCHANGED disk
    /\ deletion' = [deletion EXCEPT ![d].pc = "row"]
    /\ UNCHANGED <<plan, row, chunk, upload, run>>

DeleteRow(d) ==
    /\ deletion[d].pc = "row"
    /\ \/ row' = [row EXCEPT ![d].status = "deleted"]
       \/ Faults /\ UNCHANGED row
    /\ deletion' = [deletion EXCEPT ![d].pc = "end"]
    /\ UNCHANGED <<plan, disk, chunk, upload, run>>

------------------------------------------------------------------------------
\* The server dies: nothing resumes what was under way.
Crash ==
    /\ Faults
    /\ upload' = [d \in Doc |-> IF upload[d].pc = "idle" THEN upload[d]
                                ELSE [upload[d] EXCEPT !.pc = "end"]]
    /\ run' = [r \in Run |-> IF run[r].pc = "idle" THEN run[r] ELSE [run[r] EXCEPT !.pc = "end"]]
    /\ deletion' = [d \in Doc |-> IF deletion[d].pc = "idle" THEN deletion[d]
                                  ELSE [deletion[d] EXCEPT !.pc = "end"]]
    /\ UNCHANGED <<plan, row, disk, chunk>>

UploadStep(d) == \/ Upload(d) \/ SaveFile(d) \/ CheckDuplicate(d) \/ StartProcessing(d)
                 \/ UploadFails(d)
ProcessStep(d) == \/ Get(d) \/ StartParsing(d) \/ Parse(d) \/ Chunk(d) \/ Embed(d)
                  \/ Ingest(<<d, "async">>) \/ IngestDone(<<d, "async">>) \/ Cleanup(d)
                  \/ Finish(<<d, "async">>) \/ RecordFailure(d) \/ Recover(d)
ManualStep(d) == \/ Reprocess(d) \/ MarkProcessing(d) \/ Ingest(<<d, "manual">>)
                 \/ IngestDone(<<d, "manual">>) \/ Finish(<<d, "manual">>)
DeleteStep(d) == \/ Delete(d) \/ DeleteChunks(d) \/ DeleteFile(d) \/ DeleteRow(d)

Next == \/ \E d \in Doc : \/ UploadStep(d) \/ Acquire(d) \/ ProcessStep(d) \/ Panic(d)
                           \/ ManualStep(d) \/ DeleteStep(d)
        \/ \E r \in Run : Expire(r)
        \/ Crash

Spec == Init /\ [][Next]_vars

\* A goroutine that can go on goes on, and one blocked on the semaphore gets
\* the slot (Go's channels serve blocked senders in order).
FairSpec == Spec /\ \A d \in Doc : WF_vars(Acquire(d)) /\ WF_vars(ProcessStep(d))

------------------------------------------------------------------------------
(* What the pipeline guarantees.                                            *)

Terminal == {"ready", "failed"}

\* A document that reads ready, without an error message, has every chunk of
\* the text whose hash it carries in the store, whatever failed on the way, as
\* long as nobody deletes documents (which may share chunks) or reprocesses
\* this one (which does not note failed chunks).
ReadyIsComplete ==
    \A d \in Doc :
        /\ row[d].status = "ready" /\ ~row[d].error
        /\ run[<<d, "manual">>].pc = "idle"
        /\ \A e \in Doc : deletion[e].pc = "idle"
        => \A c \in Chunks[row[d].hash] : chunk[c] # None

\* Whatever a late run or a late request writes, a deleted document stays gone.
DeletedStaysGone ==
    [][\A d \in Doc : row[d].status = "deleted" => row'[d] = row[d]]_vars

\* Every document whose processing was scheduled is processed in spite of the
\* semaphore: whatever errors, timeouts and panics befall it and those before it,
\* its run ends.  Without faults and timeouts it ends with the document ready or
\* failed, unless it was deleted or another document holds its text.
EveryDocumentSettles ==
    \A d \in Doc :
        run[<<d, "async">>].pc = "wait" ~>
            /\ run[<<d, "async">>].pc = "end"
            /\ \/ Faults \/ Timeouts
               \/ row[d].status \in Terminal \cup {"deleted"}
               \/ Conflict(d, run[<<d, "async">>].hash)

------------------------------------------------------------------------------
(* An inductive invariant: the types; requests begin before there is a row; *)
(* and of the chunks of its text, those a run still has to do, those it     *)
(* missed and those that are stored are all.                                *)

Quiet == \A e \in Doc : deletion[e].pc = "idle"

UploadsOK ==
    \A d \in Doc :
        /\ upload[d].pc = "idle" => row[d].status = "absent" /\ deletion[d].pc = "idle"
        /\ upload[d].pc \in {"save", "check", "path"} => upload[d].file \in File

\* Of job j of run r, while ch is stored; quiet says that nobody has deleted.
Accounted(r, j, quiet, ch) ==
    /\ j.pc \in {"mark", "chunk", "embed", "ingest", "cleanup", "finish"} => j.hash \in Hash
    /\ j.pc \in {"cleanup", "finish"} => j.todo = {}
    /\ r[2] = "async" /\ j.pc \in {"embed", "ingest", "cleanup", "finish"} /\ quiet /\ ~j.missed
          => \A c \in Chunks[j.hash] : c \in j.todo \/ ch[c] # None

RunsOK == \A r \in Run : Accounted(r, run[r], Quiet, chunk)

ReadyHasText == \A d \in Doc : row[d].status = "ready" /\ ~row[d].error => row[d].hash \in Hash

IInv == TypeOK /\ UploadsOK /\ RunsOK /\ ReadyHasText /\ ReadyIsComplete

------------------------------------------------------------------------------
(* What the documentation says and the code does not do (README, Findings). *)

Idle(d) == run[<<d, "async">>].pc \in {"idle", "end"} /\ run[<<d, "manual">>].pc \in {"idle", "end"}

\* Processing ends ready or failed, timeouts included.
ProcessingEndsSettled ==
    \A d \in Doc : run[<<d, "async">>].pc = "end" /\ Idle(d) /\ Stored(d)
                       => row[d].status \in Terminal

\* Once a document is deleted and nothing works on it, its chunks are gone.
NoOrphanChunks ==
    \A d \in Doc : row[d].status = "deleted" /\ Idle(d) => \A c \in Content : chunk[c] # d

\* An upload of a file whose document, of the same scope, reads ready is
\* answered with that document.
UploadDeduplicated ==
    [][\A d, e \in Doc :
        /\ row[d].status = "ready" /\ upload[e].pc = "check"
        /\ upload[d].file = upload[e].file /\ upload[d].scope = upload[e].scope
        => upload'[e].pc # "path"]_vars
==============================================================================
