------------------------ MODULE ActivityPipeline_proofs ------------------------
(***************************************************************************)
(* Theorems about ActivityPipeline, for every log, every set of documents  *)
(* and every number of faults: a run that ends well accounts for each      *)
(* entry, and without a fault it has a file for each document; a finished  *)
(* file stays as it is in all runs.                                        *)
(***************************************************************************)
EXTENDS ActivityPipeline, TLAPS

\* The loop of Handle walks the log from its oldest entry on.
InOrder == /\ \A k \in 1..Len(items) : items[k] = k
           /\ idx <= Len(items) + 1
           /\ pc \in {"transactions", "list"} => idx = 1
           /\ outcome = "ok" => pc = "down" /\ idx > Len(items)

\* The counters hold the entries the loop has passed.
Counting ==
  /\ processed \cap skipped = {}
  /\ processed \cup skipped = 1..idx - 1
  /\ processed \subseteq Detailed
  /\ \A i \in skipped : HasDetails(i) => verdict[i] = "normalize failed"

\* Without a fault in this run, the documents behind the two loops have files.
Filed == clean =>
  /\ \A i \in processed : \A k \in 1..Len(DocsOf[Log[i]]) : Exists(DocsOf[Log[i]][k])
  /\ pc \in {"doc", "copy"} =>
       \A k \in 1..Len(DocsOf[Log[Current]]) :
         k < docIdx => Exists(DocsOf[Log[Current]][k])

\* The file being copied is the one just created.
Copying == pc = "copy" => /\ Exists(CurrentDoc)
                          /\ files[PathOf[CurrentDoc]] = [doc |-> CurrentDoc, content |-> "partial"]

ActivityInv == TypeOK /\ InOrder /\ Counting /\ Filed /\ Copying

\* What the provers need of the constants.
LEMMA Constants ==
  /\ Len(Log) \in Nat /\ MaxFaults \in Nat
  /\ \A i \in Items : Log[i] \in Entry \cup {NoDetails}
  /\ \A e \in Entry : DocsOf[e] \in Seq(Doc) /\ Len(DocsOf[e]) \in Nat
  /\ \A d \in Doc : PathOf[d] \in Path
<1>1. /\ Log \in Seq(Entry \cup {NoDetails}) /\ DocsOf \in [Entry -> Seq(Doc)]
      /\ MaxFaults \in Nat /\ PathOf \in [Doc -> Path]
  BY PathOfAssumption, ActivityAssumption DEF ActivityAssumption, PathOfAssumption
<1> QED
  BY <1>1 DEF Items

\* The published prefix of the log, oldest entry first.
LEMMA ListedInOrder ==
  ASSUME published \in 0..Len(Log)
  PROVE  /\ Reverse(ServerLog) \in Seq(Items) /\ Len(Reverse(ServerLog)) = published
         /\ \A k \in 1..published : Reverse(ServerLog)[k] = k
<1>1. Len(Log) \in Nat
  BY Constants
<1> DEFINE S == [i \in 1..published |-> i]
<1>2. S \in Seq(Items) /\ Len(S) = published
  BY <1>1 DEF Items
<1>3. /\ Len(ServerLog) = published /\ ServerLog \in Seq(Items)
      /\ \A k \in 1..published : ServerLog[k] = published - k + 1
  BY <1>1, <1>2 DEF ServerLog, Reverse, Items
<1> QED
  BY <1>1, <1>3 DEF Reverse

\* Creating or finishing a file keeps the directory well typed.
LEMMA CreateFileType ==
  ASSUME FilesTypeOK, NEW d \in Doc, CreateFile(d)
  PROVE  FilesTypeOK'
  BY Constants DEF FilesTypeOK, CreateFile, FileRecord, Content

LEMMA CopyBodyType ==
  ASSUME FilesTypeOK, NEW d \in Doc, NEW c \in Content, CopyBody(d, c)
  PROVE  FilesTypeOK'
  BY Constants DEF FilesTypeOK, CopyBody, FileRecord, Content

\* The loop variables name what they should at the steps that use them.
LEMMA CurrentEntry ==
  ASSUME TypeOK, pc \in {"doc", "copy"}
  PROVE  /\ idx \in 1..Len(items) /\ Current \in Detailed
         /\ DocsOf[Log[Current]] \in Seq(Doc) /\ Len(DocsOf[Log[Current]]) \in Nat
         /\ MoreDocs => CurrentDoc \in Doc
<1>1. idx \in 1..Len(items) /\ Current \in Items /\ HasDetails(Current)
  BY DEF TypeOK, Current
<1>2. Log[Current] \in Entry /\ Current \in Detailed
  BY <1>1, Constants DEF HasDetails, Detailed
<1> QED
  BY <1>1, <1>2, Constants DEF TypeOK, MoreDocs, CurrentDoc

\* A fault stays within its bound.
LEMMA FaultType ==
  ASSUME faults \in 0..MaxFaults, Fault
  PROVE  faults' \in 0..MaxFaults /\ clean' \in BOOLEAN
<1>1. faults' \in 0..MaxFaults
  BY Constants DEF Fault
<1>2. clean' \in BOOLEAN
  BY Zenon DEF Fault
<1> QED
  BY <1>1, <1>2

\* How reading an entry with details ends.
LEMMA EntryRead ==
  ASSUME FetchEntry
  PROVE  /\ pc = "entry" /\ idx <= Len(items) /\ HasDetails(Current)
         /\ UNCHANGED <<given, items, processed, files, faults, clean>>
         /\ \/ /\ verdict[Current] = "nil" /\ pc' = "doc" /\ docIdx' = 1
               /\ UNCHANGED <<idx, skipped, outcome>>
            \/ /\ verdict[Current] = "normalize failed"
               /\ skipped' = skipped \cup {Current} /\ idx' = idx + 1
               /\ UNCHANGED <<pc, docIdx, outcome>>
            \/ /\ pc' = "down" /\ outcome' = "failed"
               /\ UNCHANGED <<idx, docIdx, skipped>>
  BY Zenon DEF FetchEntry, Exit

(***************************************************************************)
(* Type correctness, one step per action.                                  *)
(***************************************************************************)
LEMMA TypeInit == Init => TypeOK
  BY Constants DEF Init, TypeOK, FilesInit, FilesTypeOK

LEMMA TypeStep == TypeOK /\ [Next]_vars => TypeOK'
<1> SUFFICES ASSUME TypeOK, [Next]_vars PROVE TypeOK'
  OBVIOUS
<1> USE DEF TypeOK
<1>1. CASE Publish
  BY <1>1, Constants DEF Publish, local, hist, Current, HasDetails, MoreDocs, FilesTypeOK
<1>2. CASE Start
  BY <1>2 DEF Start, given, FilesTypeOK
<1>3. CASE Crash
  BY <1>3, FaultType DEF Crash, Exit, given, local, FilesTypeOK
<1>4. CASE RunTransactions
  BY <1>4 DEF RunTransactions, Exit, given, local, FilesTypeOK
<1>5. CASE TransactionsFail
  BY <1>5, FaultType DEF TransactionsFail, Exit, given, local, FilesTypeOK
<1>6. CASE FetchLog
  BY <1>6, ListedInOrder DEF FetchLog, given, hist, FilesTypeOK
<1>7. CASE FetchFails
  BY <1>7, FaultType DEF FetchFails, Exit, given, local, FilesTypeOK
<1>8. CASE SkipNoDetails
  BY <1>8 DEF SkipNoDetails, given, hist, Current, FilesTypeOK
<1>9. CASE FetchEntry
  <2>1. Current \in Items /\ idx + 1 \in Nat \ {0}
    <3>1. idx <= Len(items)
      BY <1>9, EntryRead
    <3>2. idx \in 1..Len(items) /\ items \in Seq(Items)
      BY <3>1
    <3> QED
      BY <3>2 DEF Current
  <2>2. CASE verdict[Current] = "nil"
    <3>1. /\ pc' = "doc" /\ docIdx' = 1 /\ UNCHANGED <<given, items, idx, processed, skipped, files, hist>>
          /\ idx <= Len(items) /\ HasDetails(Current)
      BY <1>9, <2>2 DEF FetchEntry, Aborting, hist
    <3> QED
      BY <3>1 DEF given, hist, Current, HasDetails, FilesTypeOK
  <2>3. CASE verdict[Current] # "nil"
    <3>1. /\ pc' \in {"entry", "down"} /\ docIdx' = docIdx /\ idx' \in {idx, idx + 1}
          /\ skipped' \in {skipped, skipped \cup {Current}} /\ outcome' \in {outcome, "failed"}
          /\ UNCHANGED <<given, items, processed, files, faults, clean>>
      BY <1>9, <2>3 DEF FetchEntry, Exit
    <3> QED
      BY <2>1, <3>1 DEF given, FilesTypeOK
  <2> QED
    BY <2>2, <2>3
<1>10. CASE HandleDone
  BY <1>10 DEF HandleDone, Exit, given, local, FilesTypeOK
<1>11. CASE DocsDone
  BY <1>11, CurrentEntry DEF DocsDone, docUnchanged, given, Detailed, FilesTypeOK
<1>12. CASE DocExists
  BY <1>12 DEF DocExists, NextDoc, docUnchanged, given, Current, HasDetails, FilesTypeOK
<1>13. CASE CreateDoc
  <2>1. FilesTypeOK'
    BY <1>13, CurrentEntry, CreateFileType DEF CreateDoc
  <2> QED
    BY <1>13, <2>1 DEF CreateDoc, docUnchanged, given, Current, HasDetails, MoreDocs
<1>14. CASE RequestFails
  BY <1>14, FaultType DEF RequestFails, NextDoc, docUnchanged, given, Current, HasDetails, FilesTypeOK
<1>15. CASE CopyDoc
  <2>1. FilesTypeOK'
    BY <1>15, CurrentEntry, CopyBodyType DEF CopyDoc, Content
  <2> QED
    BY <1>15, <2>1 DEF CopyDoc, NextDoc, docUnchanged, given, Current, HasDetails
<1>16. CASE CopyErrorPage
  <2>1. FilesTypeOK'
    BY <1>16, CurrentEntry, CopyBodyType DEF CopyErrorPage, Content
  <2> QED
    <3>1. faults' \in 0..MaxFaults /\ clean' \in BOOLEAN
      BY <1>16, FaultType DEF CopyErrorPage
    <3>2. /\ pc' = "doc" /\ pc = "copy" /\ docIdx' = docIdx + 1
          /\ UNCHANGED <<given, items, outcome, idx, processed, skipped>>
      BY <1>16 DEF CopyErrorPage, NextDoc, docUnchanged
    <3> QED
      BY <2>1, <3>1, <3>2 DEF given, Current, HasDetails
<1>17. CASE CopyFails
  BY <1>17, FaultType DEF CopyFails, NextDoc, docUnchanged, given, Current, HasDetails, FilesTypeOK
<1>18. CASE UNCHANGED vars
  BY <1>18 DEF vars, given, local, hist, Current, HasDetails, MoreDocs, FilesTypeOK
<1> QED
  BY <1>1, <1>2, <1>3, <1>4, <1>5, <1>6, <1>7, <1>8, <1>9, <1>10, <1>11, <1>12, <1>13, <1>14,
     <1>15, <1>16, <1>17, <1>18 DEF Next, Program

\* Every variable keeps its type, and the two loop indices stay within their lists.
THEOREM TypeCorrect == Spec => []TypeOK
<1> QED
  BY TypeInit, TypeStep, PTL DEF Spec

(***************************************************************************)
(* The inductive invariant.                                                *)
(***************************************************************************)
LEMMA InvInit == Init => ActivityInv
<1> SUFFICES ASSUME Init PROVE ActivityInv
  OBVIOUS
<1>1. /\ items = <<>> /\ idx = 1 /\ processed = {} /\ skipped = {} /\ pc = "down"
      /\ outcome = "none"
  BY DEF Init
<1> QED
  BY <1>1, TypeInit DEF ActivityInv, InOrder, Counting, Filed, Copying

\* Only these steps move the loop of Handle or its counters.
LEMMA LoopFrame ==
  ASSUME [Next]_vars
  PROVE  \/ Start \/ FetchLog \/ SkipNoDetails \/ FetchEntry \/ DocsDone
         \/ UNCHANGED <<items, idx, processed, skipped>>
  BY DEF Next, Program, Publish, Start, Crash, RunTransactions, TransactionsFail, FetchLog, FetchFails, SkipNoDetails, FetchEntry, HandleDone, DocsDone, DocExists, CreateDoc, RequestFails, CopyDoc, CopyErrorPage, CopyFails, NextDoc, vars, local, docUnchanged

\* Where the process can have come from when it is about to list, in the
\* document loop or stopped well.
LEMMA ControlFlow ==
  ASSUME [Next]_vars
  PROVE  /\ pc' \in {"transactions", "list"} =>
              Start \/ (pc \in {"transactions", "list"} /\ UNCHANGED <<items, idx>>)
         /\ pc' \in {"doc", "copy"} =>
              \/ FetchEntry \/ DocExists \/ CreateDoc \/ RequestFails
              \/ CopyDoc \/ CopyErrorPage \/ CopyFails
              \/ UNCHANGED <<pc, items, idx, docIdx, processed, files, clean>>
         /\ outcome' = "ok" =>
              HandleDone \/ (outcome = "ok" /\ (pc = "down" => UNCHANGED <<pc, items, idx>>))
<1>1. ASSUME Publish \/ UNCHANGED vars
      PROVE  UNCHANGED <<pc, outcome, items, idx, docIdx, processed, files, clean>>
  BY <1>1 DEF Publish, vars, local, hist
<1>2. ASSUME Next, ~Publish
      PROVE  /\ pc' \in {"transactions", "list"} =>
                  Start \/ (pc = "transactions" /\ UNCHANGED <<items, idx>>)
             /\ pc' \in {"doc", "copy"} =>
                  \/ FetchEntry \/ DocExists \/ CreateDoc \/ RequestFails
                  \/ CopyDoc \/ CopyErrorPage \/ CopyFails
             /\ outcome' = "ok" => HandleDone \/ (outcome = "ok" /\ pc # "down")
  BY <1>2 DEF Next, Program, Publish, Start, Crash, RunTransactions, TransactionsFail, FetchLog, FetchFails, SkipNoDetails, FetchEntry, HandleDone, DocsDone, DocExists, CreateDoc, RequestFails, CopyDoc, CopyErrorPage, CopyFails, NextDoc, Exit, local, hist, docUnchanged
<1> QED
  BY <1>1, <1>2

\* The loop keeps its order.
LEMMA OrderStep == ActivityInv /\ [Next]_vars => InOrder'
<1> SUFFICES ASSUME ActivityInv, [Next]_vars PROVE InOrder'
  OBVIOUS
<1>1. /\ items \in Seq(Items) /\ Len(items) \in Nat /\ idx \in Nat \ {0} /\ InOrder
      /\ published \in 0..Len(Log)
  BY DEF ActivityInv, TypeOK
<1>2. (\A k \in 1..Len(items') : items'[k] = k) /\ idx' <= Len(items') + 1
  <2>1. CASE Start
    BY <2>1 DEF Start
  <2>2. CASE FetchLog
    BY <1>1, <2>2, ListedInOrder, Constants DEF FetchLog, InOrder
  <2>3. CASE SkipNoDetails \/ FetchEntry
    <3>1. /\ items' = items /\ (idx' = idx \/ (idx' = idx + 1 /\ idx <= Len(items)))
      BY <2>3, EntryRead DEF SkipNoDetails
    <3> QED
      BY <1>1, <3>1 DEF InOrder
  <2>4. CASE DocsDone
    <3>1. items' = items /\ idx' = idx + 1 /\ idx <= Len(items)
      BY <2>4 DEF DocsDone, docUnchanged, ActivityInv, TypeOK
    <3> QED
      BY <1>1, <3>1 DEF InOrder
  <2>5. CASE UNCHANGED <<items, idx, processed, skipped>>
    BY <1>1, <2>5 DEF InOrder
  <2> QED
    BY <2>1, <2>2, <2>3, <2>4, <2>5, LoopFrame
<1>3. pc' \in {"transactions", "list"} => idx' = 1
  BY <1>1, ControlFlow DEF Start, InOrder
<1>4. outcome' = "ok" => pc' = "down" /\ idx' > Len(items')
  BY <1>1, ControlFlow DEF HandleDone, Exit, local, InOrder
<1> QED
  BY <1>2, <1>3, <1>4 DEF InOrder

\* The entry at hand is the one the loop counts.
LEMMA CurrentIsIndex ==
  ASSUME ActivityInv, idx <= Len(items)
  PROVE  idx \in Items /\ Current = idx
<1>1. items \in Seq(Items) /\ idx \in 1..Len(items) /\ items[idx] = idx
  BY DEF ActivityInv, TypeOK, InOrder
<1> QED
  BY <1>1 DEF Current

\* The counters keep the entries passed.
LEMMA CountingStep == ActivityInv /\ [Next]_vars => Counting'
<1> SUFFICES ASSUME ActivityInv, [Next]_vars PROVE Counting'
  OBVIOUS
<1>1. idx \in Nat \ {0} /\ Len(items) \in Nat /\ Counting
  BY DEF ActivityInv, TypeOK
<1>2. CASE Start
  BY <1>2 DEF Start, Counting
<1>3. verdict' = verdict
  BY DEF Next, Program, Publish, Start, Crash, RunTransactions, TransactionsFail, FetchLog, FetchFails, SkipNoDetails, FetchEntry, HandleDone, DocsDone, DocExists, CreateDoc, RequestFails, CopyDoc, CopyErrorPage, CopyFails, NextDoc, vars, given, docUnchanged
<1>4. idx \notin processed \cup skipped
  <2>1. processed \cup skipped = 1..idx - 1
    BY <1>1 DEF Counting
  <2>2. idx \notin 1..idx - 1
    BY <1>1
  <2> QED
    BY <2>1, <2>2
<1>5. idx' = idx + 1 => 1..idx' - 1 = (1..idx - 1) \cup {idx}
  BY <1>1
<1>6. CASE FetchLog
  BY <1>1, <1>3, <1>6 DEF FetchLog, Counting, HasDetails
<1>7. CASE SkipNoDetails
  <2>1. skipped' = skipped \cup {idx} /\ processed' = processed /\ idx' = idx + 1 /\ ~HasDetails(idx)
    BY <1>7, CurrentIsIndex DEF SkipNoDetails
  <2> QED
    BY <1>1, <1>3, <1>4, <1>5, <2>1 DEF Counting, HasDetails
<1>8. CASE FetchEntry
  <2>1. CASE UNCHANGED <<idx, processed, skipped>>
    BY <1>1, <1>3, <2>1 DEF Counting, HasDetails
  <2>2. CASE verdict[Current] = "normalize failed"
    <3>1. /\ skipped' = skipped \cup {idx} /\ processed' = processed /\ idx' = idx + 1
          /\ verdict[idx] = "normalize failed"
      BY <1>8, <2>2, CurrentIsIndex DEF FetchEntry, Aborting
    <3> QED
      BY <1>1, <1>3, <1>4, <1>5, <3>1 DEF Counting, HasDetails
  <2> QED
    BY <1>8, <2>1, <2>2 DEF FetchEntry
<1>9. CASE DocsDone
  <2>1. processed' = processed \cup {idx} /\ skipped' = skipped /\ idx' = idx + 1
    BY <1>9, CurrentIsIndex DEF DocsDone, ActivityInv, TypeOK
  <2>2. idx \in Detailed
    BY <1>9, CurrentEntry, CurrentIsIndex DEF DocsDone, ActivityInv, TypeOK
  <2> QED
    BY <1>1, <1>3, <1>4, <1>5, <2>1, <2>2 DEF Counting, HasDetails
<1>10. CASE UNCHANGED <<items, idx, processed, skipped>>
  BY <1>1, <1>3, <1>10 DEF Counting, HasDetails
<1> QED
  BY <1>2, <1>6, <1>7, <1>8, <1>9, <1>10, LoopFrame

\* Files stay, and finished ones stay as they are.
LEMMA FilesStay ==
  ASSUME ActivityInv, [Next]_vars
  PROVE  \A p \in DOMAIN files :
           /\ p \in DOMAIN files'
           /\ files[p].content # "partial" => files'[p] = files[p]
<1>1. CASE CreateDoc
  BY <1>1 DEF CreateDoc, CreateFile, Exists
<1>2. CASE CopyDoc \/ CopyErrorPage
  <2>1. /\ files[PathOf[CurrentDoc]].content = "partial"
        /\ DOMAIN files' = DOMAIN files
        /\ \A p \in DOMAIN files : p # PathOf[CurrentDoc] => files'[p] = files[p]
    <3>1. pc = "copy" /\ (CopyBody(CurrentDoc, "complete") \/ CopyBody(CurrentDoc, "error page"))
      BY <1>2 DEF CopyDoc, CopyErrorPage
    <3>2. files[PathOf[CurrentDoc]] = [doc |-> CurrentDoc, content |-> "partial"]
      BY <3>1 DEF ActivityInv, Copying
    <3>3. files[PathOf[CurrentDoc]].content = "partial"
      BY <3>2
    <3>4. /\ DOMAIN files' = DOMAIN files
          /\ \A p \in DOMAIN files : p # PathOf[CurrentDoc] => files'[p] = files[p]
      BY <3>1 DEF CopyBody
    <3> QED
      BY <3>3, <3>4
  <2> QED
    BY <2>1
<1>3. CASE files' = files
  BY <1>3
<1> QED
  BY <1>1, <1>2, <1>3 DEF Next, Program, Publish, Start, Crash, RunTransactions, TransactionsFail, FetchLog, FetchFails, SkipNoDetails, FetchEntry, HandleDone, DocsDone, DocExists, RequestFails, CopyFails, vars

\* While nothing fails, each document has a file before the loop leaves it.
LEMMA FiledStep == ActivityInv /\ [Next]_vars => Filed'
<1> SUFFICES ASSUME ActivityInv, [Next]_vars, clean' = TRUE PROVE Filed'
  BY Zenon DEF Filed
<1>1. \A d : Exists(d) => Exists(d)'
  BY FilesStay DEF Exists
<1>2. CASE Start
  BY <1>2 DEF Start, Filed
<1>3. CASE ~Start
  <2>1. clean = TRUE /\ ~Fault
    BY <1>3 DEF Next, Program, Publish, Crash, RunTransactions, TransactionsFail, FetchLog, FetchFails, SkipNoDetails, FetchEntry, HandleDone, DocsDone, DocExists, CreateDoc, RequestFails, CopyDoc, CopyErrorPage, CopyFails, NextDoc, vars, hist, docUnchanged, Fault
  <2> QED
    <3>1. /\ idx \in Nat \ {0} /\ docIdx \in Nat \ {0} /\ Filed
      BY DEF ActivityInv, TypeOK
    <3>2. ASSUME NEW i \in processed', NEW k \in 1..Len(DocsOf[Log[i]])
          PROVE  Exists(DocsOf[Log[i]][k])'
      <4>1. CASE i \in processed
        BY <1>1, <2>1, <3>1, <4>1 DEF Filed
      <4>2. CASE i \notin processed
        <5>1. DocsDone /\ i = Current
          BY <1>3, <2>1, <3>2, <4>2 DEF Next, Program, Publish, Crash, RunTransactions, TransactionsFail, FetchLog, FetchFails, SkipNoDetails, FetchEntry, HandleDone, DocsDone, DocExists, CreateDoc, RequestFails, CopyDoc, CopyErrorPage, CopyFails, NextDoc, vars, local
        <5>2. pc = "doc" /\ docIdx > Len(DocsOf[Log[i]]) /\ Len(DocsOf[Log[i]]) \in Nat
          BY <3>1, <5>1, CurrentEntry DEF DocsDone, MoreDocs, ActivityInv
        <5>3. k < docIdx
          BY <3>1, <5>2
        <5> QED
          BY <1>1, <2>1, <3>1, <5>1, <5>2, <5>3 DEF Filed
      <4> QED
        BY <4>1, <4>2
    <3>3. ASSUME pc' \in {"doc", "copy"},
                 NEW k \in 1..Len(DocsOf[Log[Current]])', k < docIdx'
          PROVE  Exists(DocsOf[Log[Current]][k])'
      <4>1. CASE FetchEntry
        <5>1. docIdx' = 1 /\ Current' = Current /\ HasDetails(Current) /\ idx <= Len(items)
          BY <3>3, <4>1, EntryRead DEF Current
        <5>2. items \in Seq(Items)
          BY DEF ActivityInv, TypeOK
        <5>3. Current \in Items
          BY <3>1, <5>1, <5>2 DEF Current
        <5>4. Len(DocsOf[Log[Current]]) \in Nat
          BY <5>1, <5>3, Constants DEF HasDetails
        <5> QED
          BY <3>3, <5>1, <5>4
      <4>2. CASE DocExists \/ CopyDoc
        <5>1. docIdx' = docIdx + 1 /\ Current' = Current /\ pc \in {"doc", "copy"} /\ Exists(CurrentDoc)
          BY <4>2 DEF DocExists, CopyDoc, NextDoc, docUnchanged, Current, ActivityInv, Copying
        <5>2. CASE k = docIdx
          BY <1>1, <5>1, <5>2 DEF CurrentDoc
        <5>3. CASE k < docIdx
          BY <1>1, <2>1, <3>1, <3>3, <5>1, <5>3 DEF Filed
        <5>4. k \in Nat
          BY <5>1, CurrentEntry DEF ActivityInv
        <5> QED
          BY <3>1, <3>3, <5>1, <5>2, <5>3, <5>4
      <4>3. CASE CreateDoc \/ UNCHANGED <<pc, items, idx, docIdx, processed, files, clean>>
        <5>1. docIdx' = docIdx /\ Current' = Current /\ pc \in {"doc", "copy"}
          BY <3>3, <4>3 DEF CreateDoc, docUnchanged, Current
        <5> QED
          BY <1>1, <2>1, <3>1, <3>3, <5>1 DEF Filed
      <4> QED
        BY <2>1, <3>3, <4>1, <4>2, <4>3, ControlFlow DEF RequestFails, CopyErrorPage, CopyFails
    <3> QED
      BY <3>2, <3>3 DEF Filed
<1> QED
  BY <1>2, <1>3

\* The document being copied was just created.
LEMMA CopyingStep == ActivityInv /\ [Next]_vars => Copying'
<1> SUFFICES ASSUME ActivityInv, [Next]_vars, pc' = "copy" PROVE Copying'
  BY DEF Copying
<1>1. CASE CreateDoc
  BY <1>1 DEF CreateDoc, CreateFile, docUnchanged, Copying, Exists, CurrentDoc, Current
<1>2. CASE UNCHANGED <<pc, items, idx, docIdx, processed, files, clean>>
  BY <1>2 DEF ActivityInv, Copying, Exists, CurrentDoc, Current
<1>3. ~(FetchEntry /\ pc' = "copy")
  BY EntryRead
<1> QED
  BY <1>1, <1>2, <1>3, ControlFlow DEF DocExists, RequestFails, CopyDoc, CopyErrorPage,
     CopyFails, NextDoc

\* Every step keeps the invariant.
LEMMA InvStep == ActivityInv /\ [Next]_vars => ActivityInv'
  BY TypeStep, OrderStep, CountingStep, FiledStep, CopyingStep DEF ActivityInv

LEMMA Invariance == Spec => []ActivityInv
<1> QED
  BY InvInit, InvStep, PTL DEF Spec

\* When Run returns nil, every listed entry was counted exactly once, and only
\* entries nobody can read were skipped.
THEOREM Accounting == Spec => []SuccessAccountsForAll
<1>1. ActivityInv => SuccessAccountsForAll
  <2> SUFFICES ASSUME ActivityInv, outcome = "ok" PROVE SuccessAccountsForAll
    BY DEF SuccessAccountsForAll
  <2>1. items \in Seq(Items) /\ idx = Len(items) + 1 /\ \A k \in 1..Len(items) : items[k] = k
    BY DEF ActivityInv, TypeOK, InOrder
  <2>2. Range(items) = 1..idx - 1
    BY <2>1 DEF Range
  <2> QED
    BY <2>2 DEF ActivityInv, Counting, SuccessAccountsForAll
<1> QED
  BY <1>1, Invariance, PTL

\* A run in which nothing fails leaves a file for every document of every entry
\* it processed, whatever earlier runs left behind.
THEOREM CleanRunFiles == Spec => []CleanRunHasFiles
<1>1. ActivityInv => CleanRunHasFiles
  <2> SUFFICES ASSUME ActivityInv, clean, NEW i \in processed, NEW d \in Range(DocsOf[Log[i]])
               PROVE  Exists(d)
    BY DEF CleanRunHasFiles
  <2>1. Log[i] \in Entry
    BY Constants DEF ActivityInv, Counting, Detailed, HasDetails
  <2>2. PICK k \in 1..Len(DocsOf[Log[i]]) : d = DocsOf[Log[i]][k]
    BY <2>1, Constants DEF Range
  <2> QED
    BY <2>2 DEF ActivityInv, Filed
<1> QED
  BY <1>1, Invariance, PTL

\* No finished file is ever written again and none disappears.
THEOREM SettledFilesStay == Spec => FilesSettleOnce
<1>1. ActivityInv /\ [Next]_vars =>
        [\A p \in DOMAIN files :
           /\ p \in DOMAIN files'
           /\ files[p].content # "partial" => files'[p] = files[p]]_vars
  BY FilesStay
<1> QED
  BY <1>1, Invariance, PTL DEF Spec, FilesSettleOnce
=============================================================================
