--------------------------- MODULE ActivityPipeline ---------------------------
(***************************************************************************)
(* The application (cmd/portfoliodownloader/app.go) with its second half,  *)
(* the activity log: the handler                                           *)
(* (internal/traderepublc/portfolio/activity/handler.go), the processor    *)
(* (processor.go) and the document downloader on the activity directory,   *)
(* over any number of runs.  The first half, TransactionPipeline, works on *)
(* other files; of it only the result of its Handle is kept.               *)
(*                                                                         *)
(* As there, each action is one external effect, a crash is possible       *)
(* between any two and a failure at each.                                  *)
(***************************************************************************)
EXTENDS DocumentStore, Sequences, Functions, SequencesExt

CONSTANTS Entry,      \* ids of activity log entries with details
          NoDetails,  \* an entry without timelineDetail action
          Log,        \* the server's activity log, oldest first
          DocsOf,     \* the documents of an entry
          Verdicts,   \* what reading the details of an entry can conclude
          TxResults,  \* what the transaction handler can conclude of the data there is
          MaxFaults   \* bound: crashes and failures over all runs

Aborting == {"details error state", "timestamp failed"}

ASSUME ActivityAssumption ==
  /\ NoDetails \notin Entry
  /\ Log \in Seq(Entry \cup {NoDetails})
  /\ DocsOf \in [Entry -> Seq(Doc)]
  /\ Verdicts \subseteq {"nil", "normalize failed"} \cup Aborting
  /\ TxResults \subseteq {"nil", "error"}
  /\ MaxFaults \in Nat

Items == 1..Len(Log)
HasDetails(i) == Log[i] # NoDetails
Detailed == {i \in Items : HasDetails(i)}

VARIABLES
  pc,                  \* what the process does next; "down" when it is not running
  verdict, txResult,   \* what the server's data leads to (fixed)
  published,           \* the log holds entries 1..published so far
  items, idx, docIdx,  \* Handle's entries, and the two loop indices
  processed, skipped,  \* the entries the two counters of Handle counted
  faults,              \* crashes and failures so far
  clean,               \* history: no fault since this run started
  outcome              \* how the last run ended

local == <<items, idx, docIdx, processed, skipped>>
given == <<verdict, txResult, published>>
hist  == <<faults, clean, outcome>>
vars  == <<pc, given, local, files, hist>>

Current == items[idx]
CurrentDoc == DocsOf[Log[Current]][docIdx]

Init == /\ pc = "down"
        /\ verdict \in [Detailed -> Verdicts] /\ txResult \in TxResults
        /\ published = 0
        /\ items = <<>> /\ idx = 1 /\ docIdx = 1 /\ processed = {} /\ skipped = {}
        /\ FilesInit
        /\ faults = 0 /\ clean = TRUE /\ outcome = "none"

Fault == faults < MaxFaults /\ faults' = faults + 1 /\ clean' = FALSE
Exit(o) == pc' = "down" /\ outcome' = o

\* A new entry appears in the server's log.
Publish == /\ published < Len(Log)
           /\ published' = published + 1
           /\ UNCHANGED <<pc, verdict, txResult, local, files, hist>>

Start == /\ pc = "down"
         /\ pc' = "transactions"
         /\ items' = <<>> /\ idx' = 1 /\ docIdx' = 1 /\ processed' = {} /\ skipped' = {}
         /\ clean' = TRUE /\ outcome' = "none"
         /\ UNCHANGED <<given, files, faults>>

Crash == /\ pc # "down"
         /\ Fault
         /\ Exit("crashed")
         /\ UNCHANGED <<given, local, files>>

(***************************************************************************)
(* App.Run: the activity log is read only after the transaction handler    *)
(* returned nil.                                                           *)
(***************************************************************************)
RunTransactions == /\ pc = "transactions"
                   /\ IF txResult = "nil" THEN pc' = "list" /\ UNCHANGED outcome
                                          ELSE Exit("failed")
                   /\ UNCHANGED <<given, local, files, faults, clean>>

TransactionsFail == /\ pc = "transactions"
                    /\ Fault
                    /\ Exit("failed")
                    /\ UNCHANGED <<given, local, files>>

(***************************************************************************)
(* Handler and processor.                                                  *)
(***************************************************************************)
\* The log arrives newest first and is turned around.
ServerLogPastEnd == Reverse([i \in 1..published + 1 |-> i])  \* mutant: one entry too many
ServerLog == Reverse([i \in 1..published |-> i])

FetchLog == /\ pc = "list"
            /\ items' = Reverse(ServerLog)
            /\ pc' = "entry"
            /\ UNCHANGED <<given, idx, docIdx, processed, skipped, files, hist>>

FetchFails == /\ pc = "list" \/ (pc = "entry" /\ idx <= Len(items) /\ HasDetails(Current))
              /\ Fault
              /\ Exit("failed")
              /\ UNCHANGED <<given, local, files>>

SkipNoDetails == /\ pc = "entry" /\ idx <= Len(items)
                 /\ ~HasDetails(Current)
                 /\ skipped' = skipped \cup {Current}
                 /\ idx' = idx + 1
                 /\ UNCHANGED <<pc, given, items, docIdx, processed, files, hist>>

\* Mutants: the skipped entry is not counted; an entry that cannot be normalised ends the run.
FetchEntryUncounted ==
  /\ pc = "entry" /\ idx <= Len(items) /\ HasDetails(Current)
  /\ \/ verdict[Current] = "nil" /\ pc' = "doc" /\ docIdx' = 1 /\ UNCHANGED <<idx, outcome>>
     \/ verdict[Current] = "normalize failed" /\ idx' = idx + 1 /\ UNCHANGED <<pc, docIdx, outcome>>
     \/ verdict[Current] \in Aborting /\ Exit("failed") /\ UNCHANGED <<idx, docIdx>>
  /\ UNCHANGED <<given, items, processed, skipped, files, faults, clean>>
FetchEntryStrict ==
  /\ pc = "entry" /\ idx <= Len(items) /\ HasDetails(Current)
  /\ \/ verdict[Current] = "nil" /\ pc' = "doc" /\ docIdx' = 1 /\ UNCHANGED outcome
     \/ verdict[Current] # "nil" /\ Exit("failed") /\ UNCHANGED docIdx
  /\ UNCHANGED <<given, items, idx, processed, skipped, files, faults, clean>>

\* Details, normaliser and timestamp: an error of the normaliser skips the entry, the
\* other errors end the run.
FetchEntry ==
  /\ pc = "entry" /\ idx <= Len(items) /\ HasDetails(Current)
  /\ \/ /\ verdict[Current] = "nil"
        /\ pc' = "doc" /\ docIdx' = 1
        /\ UNCHANGED <<idx, skipped, outcome>>
     \/ /\ verdict[Current] = "normalize failed"
        /\ skipped' = skipped \cup {Current}
        /\ idx' = idx + 1
        /\ UNCHANGED <<pc, docIdx, outcome>>
     \/ /\ verdict[Current] \in Aborting
        /\ Exit("failed")
        /\ UNCHANGED <<idx, docIdx, skipped>>
  /\ UNCHANGED <<given, items, processed, files, faults, clean>>

HandleDone == /\ pc = "entry" /\ idx > Len(items)
              /\ Exit("ok")
              /\ UNCHANGED <<given, local, files, faults, clean>>

(***************************************************************************)
(* The document loop, whose errors are only logged.                        *)
(***************************************************************************)
ButLast == docIdx < Len(DocsOf[Log[Current]])  \* mutant: the last document is left out
MoreDocs == docIdx <= Len(DocsOf[Log[Current]])
docUnchanged == <<given, items, outcome>>

DocsDone == /\ pc = "doc" /\ ~MoreDocs
            /\ processed' = processed \cup {Current}
            /\ pc' = "entry" /\ idx' = idx + 1
            /\ UNCHANGED <<docUnchanged, docIdx, skipped, files, faults, clean>>

NextDoc == pc' = "doc" /\ docIdx' = docIdx + 1 /\ UNCHANGED <<docUnchanged, idx, processed, skipped>>

DocExists == /\ pc = "doc" /\ MoreDocs /\ Exists(CurrentDoc)
             /\ NextDoc
             /\ UNCHANGED <<files, faults, clean>>

CreateDoc == /\ pc = "doc" /\ MoreDocs /\ ~Exists(CurrentDoc)
             /\ CreateFile(CurrentDoc)
             /\ pc' = "copy"
             /\ UNCHANGED <<docUnchanged, idx, docIdx, processed, skipped, faults, clean>>

RequestFails == /\ pc = "doc" /\ MoreDocs /\ ~Exists(CurrentDoc)
                /\ Fault
                /\ NextDoc
                /\ UNCHANGED files

CopyDoc == /\ pc = "copy"
           /\ CopyBody(CurrentDoc, "complete")
           /\ NextDoc
           /\ UNCHANGED <<faults, clean>>

CopyErrorPage == /\ pc = "copy"
                 /\ Fault
                 /\ CopyBody(CurrentDoc, "error page")
                 /\ NextDoc

CopyFails == /\ pc = "copy"
             /\ Fault
             /\ NextDoc
             /\ UNCHANGED files

Program == \/ RunTransactions \/ TransactionsFail
           \/ FetchLog \/ FetchFails \/ SkipNoDetails \/ FetchEntry \/ HandleDone
           \/ DocsDone \/ DocExists \/ CreateDoc \/ RequestFails
           \/ CopyDoc \/ CopyErrorPage \/ CopyFails

Next == Publish \/ Start \/ Crash \/ Program

Spec == Init /\ [][Next]_vars

\* A running process keeps running, and the user runs the program again and again.
FairSpec == Spec /\ WF_vars(Program) /\ WF_vars(Start)

(***************************************************************************)
(* Properties.                                                             *)
(***************************************************************************)
\* Every variable has its type, and the loops stay within their lists.
TypeOK ==
  /\ pc \in {"down", "transactions", "list", "entry", "doc", "copy"}
  /\ verdict \in [Detailed -> Verdicts] /\ txResult \in TxResults
  /\ published \in 0..Len(Log)
  /\ items \in Seq(Items) /\ idx \in Nat \ {0} /\ docIdx \in Nat \ {0}
  /\ pc \in {"doc", "copy"} => idx <= Len(items) /\ HasDetails(Current)
  /\ pc = "copy" => MoreDocs
  /\ processed \subseteq Items /\ skipped \subseteq Items
  /\ FilesTypeOK
  /\ faults \in 0..MaxFaults /\ clean \in BOOLEAN
  /\ outcome \in {"none", "ok", "failed", "crashed"}

\* When Run returns nil, every listed entry was counted exactly once, and only the
\* entries without details or with details nobody can read were skipped.
SuccessAccountsForAll ==
  outcome = "ok" =>
    /\ processed \cap skipped = {}
    /\ processed \cup skipped = Range(items)
    /\ \A i \in skipped : HasDetails(i) => verdict[i] = "normalize failed"

\* A run in which nothing fails leaves a file for every document of every entry it
\* processed, also of those an earlier run could not download: nothing but the file
\* itself keeps the documents of an entry from being asked for again
\* (activity/processor.go:52-63).
CleanRunHasFiles ==
  outcome = "ok" /\ clean =>
    \A i \in processed : \A d \in Range(DocsOf[Log[i]]) : Exists(d)

\* A document file that was finished never changes, and none ever goes away, whatever
\* fails and however often the program is run (document/downloader.go:43-47).
FilesSettleOnce ==
  [][\A p \in DOMAIN files :
       /\ p \in DOMAIN files'
       /\ files[p].content # "partial" => files'[p] = files[p]]_vars

\* Blocked(i): an entry whose error ends the run stands at or before i.
Blocked(i) == \E j \in 1..i : HasDetails(j) /\ verdict[j] \in Aborting

\* Once faults stop, every document of every readable entry is asked for until it
\* has a file, unless the transactions or an older entry end each run before it.
EventuallyFiled ==
  \A i \in Detailed :
    (published >= i /\ verdict[i] = "nil" /\ ~Blocked(i) /\ txResult = "nil")
      ~> (\A d \in Range(DocsOf[Log[i]]) : Exists(d))
=============================================================================
