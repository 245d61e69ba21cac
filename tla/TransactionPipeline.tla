------------------------- MODULE TransactionPipeline -------------------------
(***************************************************************************)
(* The transaction half of the v1 program over any number of runs: the     *)
(* handler (internal/traderepublc/portfolio/transaction/handler.go), the   *)
(* processor (processor.go), the CSV reader and writer, the repository and *)
(* the document downloader, with a crash possible between any two effects  *)
(* and a failure possible at each of them.                                 *)
(*                                                                         *)
(* One process runs at a time.  Each action is one external effect         *)
(* together with the computation up to the next one.  The text of rows,    *)
(* replies and documents is abstracted to identities; amounts and          *)
(* logging are left out.  A write of one CSV row is atomic (the CSV writer *)
(* buffers it and flushes once), creating the file is a separate effect.   *)
(***************************************************************************)
EXTENDS DocumentStore, Sequences, Functions, SequencesExt

CONSTANTS Tx,            \* transaction ids of details responses
          NoDetails,     \* what a timeline item without timelineDetail action has
          Timeline,      \* the server's timeline, oldest first: Tx or NoDetails
          DocsOf,        \* the documents of a transaction, in response order
          PersistentDB,  \* TRUE: SQLite file (dev binary); FALSE: in memory
          Verdicts,      \* what the program can conclude of a details response
          MaxFaults      \* bound: crashes and I/O failures over all runs

(***************************************************************************)
(* Reading one item ends in one of these.  The first error the code meets  *)
(* is the one returned, so an item has a single verdict; it depends on the *)
(* data the server holds and is the same in each run.                      *)
(***************************************************************************)
FetchErrors == {"details error state", "event type unsupported", "normalize failed"}
BuildErrors == {"type unsupported", "insufficient data", "build failed"}
IOErrors    == {"details failed", "csv read", "repo create", "csv write"}
AllErrors   == FetchErrors \cup BuildErrors \cup IOErrors

\* Mutant: missing details end the run.
IgnorableWithoutMissing == {"details error state", "event type unsupported", "type unsupported"}

\* The errors Handle logs and counts as skipped; any other error ends the run.
Ignorable == {"details error state", "event type unsupported",
              "type unsupported", "insufficient data"}

ASSUME PipelineAssumption ==
  /\ NoDetails \notin Tx
  /\ Timeline \in Seq(Tx \cup {NoDetails})
  /\ DocsOf \in [Tx -> Seq(Doc)]
  /\ PersistentDB \in BOOLEAN
  /\ Verdicts \subseteq {"nil"} \cup FetchErrors \cup BuildErrors
  /\ MaxFaults \in Nat

Items == 1..Len(Timeline)
HasDetails(i) == Timeline[i] # NoDetails
Detailed == {i \in Items : HasDetails(i)}

VARIABLES
  pc,         \* what the process does next; "down" when it is not running
  verdict,    \* verdict[i]: what reading detailed item i concludes (fixed)
  published,  \* the timeline holds items 1..published so far
  items,      \* Handle's responses, a sequence of items
  idx,        \* index of the loop over responses
  err,        \* the error ProcessTransactionResponse returns
  newFile,    \* CSVWriter.Write's newFile
  docIdx,     \* index of the loop over transaction.Documents
  processed, skipped,  \* the items the two counters of Handle counted
  csv,        \* transactions.csv: [exists, header, rows]
  db,         \* the transactions table
  faults,     \* crashes and failures so far
  clean,      \* history: no fault since this run started
  base,       \* history: Len(csv.rows) when this run started
  outcome     \* how the last run ended

local == <<items, idx, err, newFile, docIdx, processed, skipped>>
disk  == <<csv, db, files>>
hist  == <<faults, clean, base, outcome>>
vars  == <<pc, verdict, published, local, disk, hist>>

Current == items[idx]
CurrentTx == Timeline[Current]
CurrentDoc == DocsOf[CurrentTx][docIdx]
Rows == Range(csv.rows)

Init == /\ pc = "down"
        /\ verdict \in [Detailed -> Verdicts]
        /\ published = 0
        /\ items = <<>> /\ idx = 1 /\ err = "nil" /\ newFile = FALSE /\ docIdx = 1
        /\ processed = {} /\ skipped = {}
        /\ csv = [exists |-> FALSE, header |-> FALSE, rows |-> <<>>]
        /\ db = {}
        /\ FilesInit
        /\ faults = 0 /\ clean = TRUE /\ base = 0 /\ outcome = "none"

Fault == faults < MaxFaults /\ faults' = faults + 1 /\ clean' = FALSE
NoFault == UNCHANGED <<faults, clean>>
Exit(o) == pc' = "down" /\ outcome' = o
Return(e) == pc' = "classify" /\ err' = e

(***************************************************************************)
(* The environment.                                                        *)
(***************************************************************************)
\* A new item appears at the head of the server's timeline.
Publish == /\ published < Len(Timeline)
           /\ published' = published + 1
           /\ UNCHANGED <<pc, verdict, local, disk, hist>>

\* The user starts the program; an in-memory database is empty then.
Start == /\ pc = "down"
         /\ pc' = "list"
         /\ items' = <<>> /\ idx' = 1 /\ err' = "nil" /\ newFile' = FALSE /\ docIdx' = 1
         /\ processed' = {} /\ skipped' = {}
         /\ db' = IF PersistentDB THEN db ELSE {}
         /\ clean' = TRUE /\ base' = Len(csv.rows) /\ outcome' = "none"
         /\ UNCHANGED <<verdict, published, csv, files, faults>>

\* The process dies between two effects.
Crash == /\ pc # "down"
         /\ Fault
         /\ Exit("crashed")
         /\ UNCHANGED <<verdict, published, local, disk, base>>

(***************************************************************************)
(* Handler.                                                                *)
(***************************************************************************)
\* The timeline arrives newest first.
ServerListPastEnd == Reverse([i \in 1..published + 1 |-> i])  \* mutant: one item too many
ServerList == Reverse([i \in 1..published |-> i])
NewestFirst(list) == list  \* mutant: the list is not reversed
Chronological(list) == Reverse(list)

FetchList == /\ pc = "list"
             /\ items' = Chronological(ServerList)
             /\ pc' = "item"
             /\ UNCHANGED <<verdict, published, idx, err, newFile, docIdx, processed, skipped, disk, hist>>

FetchListFails == /\ pc = "list"
                  /\ Fault
                  /\ Exit("failed")
                  /\ UNCHANGED <<verdict, published, local, disk, base>>

SkipNoDetails == /\ pc = "item" /\ idx <= Len(items)
                 /\ ~HasDetails(Current)
                 /\ idx' = idx + 1
                 /\ UNCHANGED <<pc, verdict, published, items, err, newFile, docIdx, processed, skipped, disk, hist>>

\* Details, then the event type, then the normaliser: no effect in between.
FetchDetails == /\ pc = "item" /\ idx <= Len(items)
                /\ HasDetails(Current)
                /\ IF verdict[Current] \in FetchErrors
                     THEN Return(verdict[Current])
                     ELSE pc' = "read" /\ err' = "nil"
                /\ UNCHANGED <<verdict, published, items, idx, newFile, docIdx, processed, skipped, disk, hist>>

FetchDetailsFails == /\ pc = "item" /\ idx <= Len(items)
                     /\ HasDetails(Current)
                     /\ Fault
                     /\ Return("details failed")
                     /\ UNCHANGED <<verdict, published, items, idx, newFile, docIdx, processed, skipped, disk, base, outcome>>

ClassifySkipsAll ==  \* mutant: every error is ignored, as the default of the switch
  /\ pc = "classify"
  /\ IF err = "nil" THEN processed' = processed \cup {Current} /\ UNCHANGED skipped
                    ELSE skipped' = skipped \cup {Current} /\ UNCHANGED processed
  /\ pc' = "item" /\ idx' = idx + 1
  /\ UNCHANGED <<verdict, published, items, err, newFile, docIdx, outcome, disk, faults, clean, base>>
\* The switch over the error of one item.
Classify ==
  /\ pc = "classify"
  /\ \/ /\ err = "nil"
        /\ processed' = processed \cup {Current}
        /\ pc' = "item" /\ idx' = idx + 1
        /\ UNCHANGED <<skipped, outcome>>
     \/ /\ err \in Ignorable
        /\ skipped' = skipped \cup {Current}
        /\ pc' = "item" /\ idx' = idx + 1
        /\ UNCHANGED <<processed, outcome>>
     \/ /\ err \notin Ignorable \cup {"nil"}
        /\ Exit("failed")
        /\ UNCHANGED <<idx, processed, skipped>>
  /\ UNCHANGED <<verdict, published, items, err, newFile, docIdx, disk, faults, clean, base>>

HandleDone == /\ pc = "item" /\ idx > Len(items)
              /\ Exit("ok")
              /\ UNCHANGED <<verdict, published, local, disk, faults, clean, base>>

(***************************************************************************)
(* Processor.Process.                                                      *)
(***************************************************************************)
\* gocsv returns an error for a file without a header line.
EmptyIsFine == FALSE  \* mutant: an empty file reads as no entries
Unreadable == csv.exists /\ ~csv.header
RecordedLast(t) == csv.rows # <<>> /\ Last(csv.rows) = t  \* mutant: only the last row is compared
Recorded(t) == t \in Rows

ReadCSV == /\ pc = "read"
           /\ \/ Unreadable /\ Return("csv read")
              \/ ~Unreadable /\ Recorded(CurrentTx) /\ Return("nil")
              \/ ~Unreadable /\ ~Recorded(CurrentTx) /\ pc' = "build" /\ UNCHANGED err
           /\ UNCHANGED <<verdict, published, items, idx, newFile, docIdx, processed, skipped, disk, hist>>

ReadCSVFails == /\ pc = "read"
                /\ Fault
                /\ Return("csv read")
                /\ UNCHANGED <<verdict, published, items, idx, newFile, docIdx, processed, skipped, disk, base, outcome>>

Build == /\ pc = "build"
         /\ IF verdict[Current] \in BuildErrors
              THEN Return(verdict[Current])
              ELSE pc' = "save" /\ UNCHANGED err
         /\ UNCHANGED <<verdict, published, items, idx, newFile, docIdx, processed, skipped, disk, hist>>

\* Repository.Create is gorm's Save: it inserts or overwrites.
SaveModel == /\ pc = "save"
             /\ db' = db \cup {CurrentTx}
             /\ pc' = "open"
             /\ UNCHANGED <<verdict, published, local, csv, files, hist>>

\* Mutant: the error of Create is not returned.
SaveModelErrorIgnored == /\ pc = "save" /\ Fault
                         /\ pc' = "open"
                         /\ UNCHANGED <<verdict, published, local, disk, base, outcome>>
SaveModelFails == /\ pc = "save"
                  /\ Fault
                  /\ Return("repo create")
                  /\ UNCHANGED <<verdict, published, items, idx, newFile, docIdx, processed, skipped, disk, base, outcome>>

\* CSVWriter.Write up to os.OpenFile, which creates a missing file empty.
OpenCSV == /\ pc = "open"
           /\ newFile' = ~csv.exists
           /\ csv' = [csv EXCEPT !.exists = TRUE]
           /\ pc' = "write"
           /\ UNCHANGED <<verdict, published, items, idx, err, docIdx, processed, skipped, db, files, hist>>

OpenCSVFails == /\ pc = "open"
                /\ Fault
                /\ Return("csv write")
                /\ UNCHANGED <<verdict, published, items, idx, newFile, docIdx, processed, skipped, disk, base, outcome>>

\* Marshalling: with the header line only when the file was new.
AppendRow == /\ pc = "write"
             /\ csv' = [csv EXCEPT !.header = @ \/ newFile,
                                   !.rows = Append(@, CurrentTx)]
             /\ pc' = "doc" /\ docIdx' = 1
             /\ UNCHANGED <<verdict, published, items, idx, err, newFile, processed, skipped, db, files, hist>>

\* Mutant: the error of Write is not returned.
AppendRowErrorIgnored == /\ pc = "write" /\ Fault
                         /\ Return("nil")
                         /\ UNCHANGED <<verdict, published, items, idx, newFile, docIdx, processed, skipped, disk, base, outcome>>
AppendRowFails == /\ pc = "write"
                  /\ Fault
                  /\ Return("csv write")
                  /\ UNCHANGED <<verdict, published, items, idx, newFile, docIdx, processed, skipped, disk, base, outcome>>

(***************************************************************************)
(* The document loop: Downloader.Download, whose errors are only logged.   *)
(***************************************************************************)
ButLast == docIdx < Len(DocsOf[CurrentTx])  \* mutant: the last document is left out
MoreDocs == docIdx <= Len(DocsOf[CurrentTx])
docUnchanged == <<verdict, published, items, idx, newFile, processed, skipped, csv, db, base, outcome>>

DocsDone == /\ pc = "doc" /\ ~MoreDocs
            /\ Return("nil")
            /\ UNCHANGED <<docUnchanged, docIdx, files, faults, clean>>

DocExists == /\ pc = "doc" /\ MoreDocs
             /\ Exists(CurrentDoc)
             /\ docIdx' = docIdx + 1
             /\ UNCHANGED <<docUnchanged, pc, err, files, faults, clean>>

\* The request is answered and the file created.
CreateDoc == /\ pc = "doc" /\ MoreDocs
             /\ ~Exists(CurrentDoc)
             /\ CreateFile(CurrentDoc)
             /\ pc' = "copy"
             /\ UNCHANGED <<docUnchanged, err, docIdx, faults, clean>>

\* MkdirAll, the request or os.Create fails.
RequestFails == /\ pc = "doc" /\ MoreDocs
                /\ ~Exists(CurrentDoc)
                /\ Fault
                /\ docIdx' = docIdx + 1
                /\ UNCHANGED <<docUnchanged, pc, err, files>>

CopyDoc == /\ pc = "copy"
           /\ CopyBody(CurrentDoc, "complete")
           /\ pc' = "doc" /\ docIdx' = docIdx + 1
           /\ UNCHANGED <<docUnchanged, err, faults, clean>>

\* The reply was an HTTP error: its body is saved all the same.
CopyErrorPage == /\ pc = "copy"
                 /\ Fault
                 /\ CopyBody(CurrentDoc, "error page")
                 /\ pc' = "doc" /\ docIdx' = docIdx + 1
                 /\ UNCHANGED <<docUnchanged, err>>

\* io.Copy fails: the file stays, unfinished.
CopyFails == /\ pc = "copy"
             /\ Fault
             /\ pc' = "doc" /\ docIdx' = docIdx + 1
             /\ UNCHANGED <<docUnchanged, err, files>>

HandlerStep == \/ FetchList \/ FetchListFails \/ SkipNoDetails \/ FetchDetails
               \/ FetchDetailsFails \/ Classify \/ HandleDone
ProcessorStep == \/ ReadCSV \/ ReadCSVFails \/ Build \/ SaveModel \/ SaveModelFails
                 \/ OpenCSV \/ OpenCSVFails \/ AppendRow \/ AppendRowFails
DownloadStep == \/ DocsDone \/ DocExists \/ CreateDoc \/ RequestFails
                \/ CopyDoc \/ CopyErrorPage \/ CopyFails

Program == HandlerStep \/ ProcessorStep \/ DownloadStep

Next == Publish \/ Start \/ Crash \/ Program

Spec == Init /\ [][Next]_vars

(***************************************************************************)
(* A running process keeps running, and the user runs the program again    *)
(* and again (it is a tool to be rerun for new transactions).              *)
(***************************************************************************)
FairSpec == Spec /\ WF_vars(Program) /\ WF_vars(Start)

(***************************************************************************)
(* Properties.                                                             *)
(***************************************************************************)
PCs == {"down", "list", "item", "read", "build", "save", "open", "write",
        "doc", "copy", "classify"}

\* Every variable has its type, and the loop indices stay within their lists
\* at the steps that use them.
ControlOK ==
  /\ pc \in PCs
  /\ published \in 0..Len(Timeline)
  /\ items \in Seq(Items) /\ idx \in Nat \ {0}
  /\ pc \notin {"down", "list", "item"} => idx <= Len(items) /\ HasDetails(Current)
  /\ docIdx \in Nat \ {0}
  /\ pc = "copy" => MoreDocs
ResultOK ==
  /\ verdict \in [Detailed -> Verdicts]
  /\ err \in AllErrors \cup {"nil"}
  /\ newFile \in BOOLEAN
  /\ processed \subseteq Items /\ skipped \subseteq Items
DiskOK ==
  /\ csv \in [exists : BOOLEAN, header : BOOLEAN, rows : Seq(Tx)]
  /\ db \subseteq Tx
  /\ FilesTypeOK
HistoryOK ==
  /\ faults \in 0..MaxFaults /\ clean \in BOOLEAN /\ base \in Nat
  /\ outcome \in {"none", "ok", "failed", "crashed"}
TypeOK == ControlOK /\ ResultOK /\ DiskOK /\ HistoryOK

\* transactions.csv never holds a transaction twice, although the timeline may
\* name one twice, runs are repeated and die anywhere (processor.go:55-64).
NoDuplicateRows == IsInjective(csv.rows)

\* The file never holds a row without the header line above it: the file a
\* crash leaves empty is rejected by the reader before the writer, which writes
\* the header only when the file is new, could append to it.
NoRowWithoutHeader == csv.rows # <<>> => csv.header

\* A row written during this run (any row, if the database is a file) has its
\* record in the database: the record is saved first (processor.go:86,95).
RowsBackedByDB ==
  \A n \in 1..Len(csv.rows) :
    (PersistentDB \/ (pc # "down" /\ n > base)) => csv.rows[n] \in db

\* The rows of one run are in the order the transactions happened, although
\* the server lists the newest first (handler.go:114).
RunIsChronological ==
  \A m, n \in base + 1..Len(csv.rows) :
    m < n => \E i, j \in Items : i < j /\ Timeline[i] = csv.rows[m] /\ Timeline[j] = csv.rows[n]

\* When Handle returns nil, every listed item with details was counted exactly
\* once, and the transaction of every item counted as processed is recorded.
SuccessAccountsForAll ==
  outcome = "ok" =>
    /\ processed \cap skipped = {}
    /\ processed \cup skipped = {i \in Range(items) : HasDetails(i)}
    /\ \A i \in processed : Timeline[i] \in Rows
    /\ \A i \in skipped : verdict[i] \in Ignorable

\* No transaction is recorded past one that was given up: each item with details that
\* is older than a recorded one is recorded as well, or its error is one Handle skips
\* (handler.go:68-90), in whichever runs they were reached and whatever failed there.
NoSilentGap ==
  \A t \in Rows : \E i \in Items :
    /\ Timeline[i] = t
    /\ \A j \in 1..i - 1 :
         HasDetails(j) => Timeline[j] \in Rows \/ verdict[j] \in Ignorable

\* As long as nothing ever failed, a finished run leaves every document of
\* every recorded transaction on disk (a path shared by two documents holds one
\* of them).
NoFaultNoGap ==
  faults = 0 /\ outcome = "ok" =>
    \A t \in Rows : \A d \in Range(DocsOf[t]) :
      Exists(d) /\ files[PathOf[d]].content = "complete"

\* The inductive invariant behind the safety properties: what each step of
\* Process knows of the file, the table and the documents.
Discovered == pc \in {"build", "save", "open", "write"} => ~Recorded(CurrentTx)
Filed == pc \in {"doc", "copy"} => Recorded(CurrentTx)
Readable == /\ pc \in {"build", "save", "open"} => ~Unreadable
            /\ pc = "write" => csv.exists /\ (newFile \/ csv.header)
            /\ ~csv.exists => ~csv.header /\ csv.rows = <<>>
Copying == pc = "copy" => /\ Exists(CurrentDoc)
                          /\ files[PathOf[CurrentDoc]] = [doc |-> CurrentDoc, content |-> "partial"]
Saved == /\ pc \in {"open", "write"} => CurrentTx \in db
         /\ base <= Len(csv.rows)

PipelineInv == /\ TypeOK /\ NoDuplicateRows /\ NoRowWithoutHeader /\ RowsBackedByDB
               /\ Discovered /\ Filed /\ Readable /\ Copying /\ Saved

\* The pipeline implements the ledger: rows are only appended and never twice,
\* documents are created once, for recorded transactions, and a finished one is
\* never written again.
L == INSTANCE Ledger WITH rows <- csv.rows
LedgerSpec == L!LSpec

\* Blocked(i): an earlier item whose error ends the run stands before i.
Aborting == {"normalize failed", "build failed"}
Blocked(i) == \E j \in 1..i : HasDetails(j) /\ verdict[j] \in Aborting

\* Once faults stop, every transaction the program can build is recorded in some
\* run, unless an older item aborts each run before it or a failure left the
\* file without its header.
EventuallyRecorded ==
  \A i \in Items :
    (published >= i /\ HasDetails(i) /\ verdict[i] = "nil" /\ ~Blocked(i))
      ~> (Unreadable \/ Timeline[i] \in Rows)

\* README.md:61 promises the download of transaction documents, so a run in
\* which nothing fails should leave the documents of all recorded transactions
\* on disk.  It does not: a transaction recorded by a run that died before its
\* documents is never looked at again.
CleanRunHasDocuments ==
  outcome = "ok" /\ clean => \A t \in Rows : \A d \in Range(DocsOf[t]) : Complete(d)
=============================================================================
