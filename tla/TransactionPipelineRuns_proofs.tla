-------------------- MODULE TransactionPipelineRuns_proofs --------------------
(***************************************************************************)
(* What a whole run of the transaction pipeline achieves: it accounts for  *)
(* every item it lists, it records in the order of the timeline, and       *)
(* without a fault it leaves no document missing.  The invariant relates   *)
(* the loop of Handle to the file it has written so far.                   *)
(***************************************************************************)
EXTENDS TransactionPipeline_proofs

\* Handle walks the timeline from its oldest item on.
InOrder == /\ \A k \in 1..Len(items) : items[k] = k
           /\ idx <= Len(items) + 1

\* The counters hold the items the loop has passed.
Counting ==
  /\ processed \cap skipped = {}
  /\ processed \cup skipped = {i \in 1..idx - 1 : HasDetails(i)}
  /\ \A i \in processed : Recorded(Timeline[i])
  /\ \A i \in skipped : verdict[i] \in Ignorable

\* What the outcome of an item and of the run says of them.
Concluding ==
  /\ pc = "list" => idx = 1 /\ items = <<>>
  /\ outcome = "ok" => pc = "down" /\ idx > Len(items)
  /\ pc = "classify" /\ err = "nil" => Recorded(CurrentTx)
  /\ pc = "classify" /\ err \in Ignorable => verdict[Current] = err

\* A row of this run belongs to an item the loop has reached.
Reached(t) == \E i \in Items : i <= idx /\ Timeline[i] = t
Behind == \A n \in base + 1..Len(csv.rows) : Reached(csv.rows[n])

\* Without a fault only the documents still ahead of the loop are missing, and
\* only the file being copied is unfinished.
Ahead(t, k) == pc \in {"doc", "copy"} /\ t = CurrentTx /\ k >= docIdx
NoneMissing == faults = 0 =>
  \A t \in Rows : \A k \in 1..Len(DocsOf[t]) : Ahead(t, k) \/ Exists(DocsOf[t][k])
NoneUnfinished == faults = 0 =>
  \A p \in DOMAIN files :
    files[p].content = "complete" \/ (pc = "copy" /\ p = PathOf[CurrentDoc])

RunInv == /\ InOrder /\ Counting /\ Concluding /\ Behind /\ RunIsChronological
          /\ NoSilentGap /\ NoneMissing /\ NoneUnfinished

\* The published prefix of the timeline, oldest item first.
LEMMA ListedInOrder ==
  ASSUME published \in Nat
  PROVE  /\ Len(Chronological(ServerList)) = published
         /\ \A k \in 1..published : Chronological(ServerList)[k] = k
<1> DEFINE S == [i \in 1..published |-> i]
<1>1. S \in Seq(Nat) /\ Len(S) = published
  OBVIOUS
<1>2. /\ Len(ServerList) = published /\ ServerList \in Seq(Nat)
      /\ \A k \in 1..published : ServerList[k] = published - k + 1
  BY <1>1 DEF ServerList, Reverse
<1> QED
  BY <1>2 DEF Chronological, Reverse

\* Only these steps move the loop of Handle or its counters.
LEMMA LoopFrame ==
  ASSUME [Next]_vars
  PROVE  \/ Start \/ FetchList \/ SkipNoDetails \/ Classify
         \/ UNCHANGED <<items, idx, processed, skipped>>
  BY DEF Next, Program, HandlerStep, ProcessorStep, DownloadStep, Publish, Start, Crash, FetchList, FetchListFails, SkipNoDetails, FetchDetails, FetchDetailsFails, Classify, HandleDone, ReadCSV, ReadCSVFails, Build, SaveModel, SaveModelFails, OpenCSV, OpenCSVFails, AppendRow, AppendRowFails, DocsDone, DocExists, CreateDoc, RequestFails, CopyDoc, CopyErrorPage, CopyFails, vars, local, docUnchanged

\* What an item concludes is fixed, and rows stay.
LEMMA RecordedStays ==
  ASSUME PipelineInv, [Next]_vars
  PROVE  verdict' = verdict /\ Rows \subseteq Rows'
<1>1. verdict' = verdict
  BY DEF Next, Program, HandlerStep, ProcessorStep, DownloadStep, Publish, Start, Crash, FetchList, FetchListFails, SkipNoDetails, FetchDetails, FetchDetailsFails, Classify, HandleDone, ReadCSV, ReadCSVFails, Build, SaveModel, SaveModelFails, OpenCSV, OpenCSVFails, AppendRow, AppendRowFails, DocsDone, DocExists, CreateDoc, RequestFails, CopyDoc, CopyErrorPage, CopyFails, vars, docUnchanged
<1>2. CASE AppendRow
  BY <1>1, <1>2, RowWritten
<1>3. CASE ~AppendRow
  BY <1>1, <1>3, FileFrame DEF PipelineInv, Rows
<1> QED
  BY <1>2, <1>3

\* Where the process can have come from when it lists, classifies or stops.
LEMMA ConclusionFlow ==
  ASSUME [Next]_vars
  PROVE  /\ pc' = "list" => Start \/ UNCHANGED <<pc, items, idx>>
         /\ pc' = "classify" =>
              \/ FetchDetails \/ FetchDetailsFails \/ ReadCSV \/ ReadCSVFails \/ Build
              \/ SaveModelFails \/ OpenCSVFails \/ AppendRowFails \/ DocsDone
              \/ UNCHANGED <<pc, err, items, idx>>
         /\ outcome' = "ok" =>
              HandleDone \/ (outcome = "ok" /\ (pc = "down" => UNCHANGED <<pc, items, idx>>))
<1>1. ASSUME Publish \/ UNCHANGED vars PROVE UNCHANGED <<pc, err, outcome, items, idx>>
  BY <1>1 DEF Publish, vars, local, hist
<1>2. ASSUME Next, ~Publish
      PROVE  /\ pc' = "list" => Start
             /\ pc' = "classify" =>
                  \/ FetchDetails \/ FetchDetailsFails \/ ReadCSV \/ ReadCSVFails \/ Build
                  \/ SaveModelFails \/ OpenCSVFails \/ AppendRowFails \/ DocsDone
             /\ outcome' = "ok" => HandleDone \/ (outcome = "ok" /\ pc # "down")
  BY <1>2 DEF Next, Program, HandlerStep, ProcessorStep, DownloadStep, Publish, Start, Crash, FetchList, FetchListFails, SkipNoDetails, FetchDetails, FetchDetailsFails, Classify, HandleDone, ReadCSV, ReadCSVFails, Build, SaveModel, SaveModelFails, OpenCSV, OpenCSVFails, AppendRow, AppendRowFails, DocsDone, DocExists, CreateDoc, RequestFails, CopyDoc, CopyErrorPage, CopyFails, Exit, Return, local, hist, docUnchanged
<1> QED
  BY <1>1, <1>2

\* The initial state satisfies the invariant.
LEMMA RunInit == Init => RunInv
<1> SUFFICES ASSUME Init PROVE RunInv
  OBVIOUS
<1>1. /\ items = <<>> /\ idx = 1 /\ processed = {} /\ skipped = {} /\ outcome = "none"
      /\ pc = "down" /\ csv.rows = <<>> /\ base = 0 /\ DOMAIN files = {}
  BY DEF Init, FilesInit
<1> QED
  BY <1>1 DEF RunInv, InOrder, Counting, Concluding, Behind, RunIsChronological,
     NoSilentGap, NoneMissing, NoneUnfinished, Rows, Range

\* The loop keeps its order.
LEMMA OrderStep == PipelineInv /\ RunInv /\ [Next]_vars => InOrder'
<1> SUFFICES ASSUME PipelineInv, RunInv, [Next]_vars PROVE InOrder'
  OBVIOUS
<1> USE DEF InOrder
<1>1. items \in Seq(Items) /\ idx \in Nat \ {0} /\ published \in Nat
  BY DEF PipelineInv, TypeOK, ControlOK
<1>2. CASE Start
  BY <1>2 DEF Start
<1>3. CASE FetchList
  BY <1>1, <1>3, ListedInOrder DEF FetchList, RunInv, Concluding
<1>4. CASE SkipNoDetails
  BY <1>1, <1>4 DEF SkipNoDetails, RunInv
<1>5. CASE Classify
  BY <1>1, <1>5, CurrentItem DEF Classify, RunInv, PipelineInv
<1>6. CASE UNCHANGED <<items, idx, processed, skipped>>
  BY <1>6 DEF RunInv
<1> QED
  BY <1>2, <1>3, <1>4, <1>5, <1>6, LoopFrame

\* At the steps of an item, the current item is the one the loop counts.
LEMMA CurrentIsIndex ==
  ASSUME PipelineInv, RunInv, idx <= Len(items)
  PROVE  idx \in Items /\ Current = idx /\ CurrentTx = Timeline[idx]
BY DEF PipelineInv, TypeOK, ControlOK, RunInv, InOrder, Current, CurrentTx

\* The counters keep the items passed.
LEMMA CountingStep == PipelineInv /\ RunInv /\ [Next]_vars => Counting'
<1> SUFFICES ASSUME PipelineInv, RunInv, [Next]_vars PROVE Counting'
  OBVIOUS
<1>1. idx \in Nat \ {0} /\ Len(items) \in Nat
  BY DEF PipelineInv, TypeOK, ControlOK
<1>2. Counting /\ verdict' = verdict /\ Rows \subseteq Rows'
  BY RecordedStays DEF RunInv
<1>3. CASE Start
  BY <1>3 DEF Start, Counting
<1>4. CASE UNCHANGED <<items, idx, processed, skipped>> \/ FetchList
  BY <1>2, <1>4 DEF Counting, Recorded, FetchList, HasDetails
<1>5. CASE SkipNoDetails
  <2>1. idx' = idx + 1 /\ UNCHANGED <<processed, skipped>> /\ ~HasDetails(idx)
    BY <1>5, CurrentIsIndex DEF SkipNoDetails
  <2>2. 1..idx' - 1 = (1..idx - 1) \cup {idx}
    BY <1>1, <2>1
  <2> QED
    BY <1>2, <2>1, <2>2 DEF Counting, Recorded, HasDetails
<1>6. CASE Classify
  <2>1. idx <= Len(items) /\ HasDetails(Current)
    BY <1>6 DEF Classify, PipelineInv, TypeOK, ControlOK
  <2>2. Current = idx /\ CurrentTx = Timeline[idx] /\ HasDetails(idx)
    BY <2>1, CurrentIsIndex
  <2>3. idx \notin processed \cup skipped
    BY <1>1, <1>2 DEF Counting
  <2>4. ASSUME idx' = idx + 1
        PROVE  {i \in 1..idx' - 1 : HasDetails(i)} = {i \in 1..idx - 1 : HasDetails(i)} \cup {idx}
    BY <1>1, <2>2, <2>4
  <2>5. CASE err = "nil"
    <3>1. processed' = processed \cup {idx} /\ skipped' = skipped /\ idx' = idx + 1
      BY <1>6, <2>2, <2>5 DEF Classify, Ignorable
    <3>2. Recorded(Timeline[idx])
      BY <1>6, <2>2, <2>5 DEF Classify, RunInv, Concluding
    <3> QED
      BY <1>2, <2>3, <2>4, <3>1, <3>2 DEF Counting, Recorded, HasDetails
  <2>6. CASE err \in Ignorable
    <3>1. skipped' = skipped \cup {idx} /\ processed' = processed /\ idx' = idx + 1
      BY <1>6, <2>2, <2>6 DEF Classify, Ignorable
    <3>2. verdict[idx] \in Ignorable
      BY <1>6, <2>2, <2>6 DEF Classify, RunInv, Concluding
    <3> QED
      BY <1>2, <2>3, <2>4, <3>1, <3>2 DEF Counting, Recorded, HasDetails
  <2>7. CASE err \notin Ignorable \cup {"nil"}
    BY <1>2, <1>6, <2>7 DEF Classify, Counting, Recorded, HasDetails
  <2> QED
    BY <2>5, <2>6, <2>7
<1> QED
  BY <1>3, <1>4, <1>5, <1>6, LoopFrame

\* Outcomes keep their meaning.
LEMMA ConcludingStep == PipelineInv /\ RunInv /\ [Next]_vars => Concluding'
<1> SUFFICES ASSUME PipelineInv, RunInv, [Next]_vars PROVE Concluding'
  OBVIOUS
<1>1. Concluding /\ verdict' = verdict /\ Rows \subseteq Rows'
  BY RecordedStays DEF RunInv
<1>2. pc' = "list" => idx' = 1 /\ items' = <<>>
  BY <1>1, ConclusionFlow DEF Start, Concluding
<1>3. outcome' = "ok" => pc' = "down" /\ idx' > Len(items')
  BY <1>1, ConclusionFlow DEF HandleDone, Exit, local, Concluding
<1>4. ASSUME pc' = "classify"
      PROVE  /\ err' = "nil" => Recorded(CurrentTx)'
             /\ err' \in Ignorable => verdict'[Current'] = err'
  <2>1. CASE UNCHANGED <<pc, err, items, idx>>
    BY <1>1, <1>4, <2>1 DEF Concluding, Recorded, CurrentTx, Current
  <2>2. CASE FetchDetails \/ Build
    BY <1>1, <1>4, <2>2 DEF FetchDetails, Build, Return, FetchErrors, BuildErrors, Current
  <2>3. CASE FetchDetailsFails \/ ReadCSVFails \/ SaveModelFails \/ OpenCSVFails \/ AppendRowFails
    BY <2>3 DEF FetchDetailsFails, ReadCSVFails, SaveModelFails, OpenCSVFails, AppendRowFails,
       Return, Ignorable
  <2>4. CASE ReadCSV
    BY <1>1, <1>4, <2>4 DEF ReadCSV, Return, Ignorable, Recorded, CurrentTx, Current
  <2>5. CASE DocsDone
    <3>1. err' = "nil" /\ UNCHANGED <<items, idx>> /\ Recorded(CurrentTx)
      BY <2>5 DEF DocsDone, Return, docUnchanged, PipelineInv, Filed
    <3> QED
      BY <1>1, <3>1 DEF Ignorable, Recorded, CurrentTx, Current
  <2> QED
    BY <1>4, <2>1, <2>2, <2>3, <2>4, <2>5, ConclusionFlow
<1> QED
  BY <1>2, <1>3, <1>4 DEF Concluding

\* The rows of this run stay behind the loop and in its order.
LEMMA BehindStep == PipelineInv /\ RunInv /\ [Next]_vars => Behind' /\ RunIsChronological'
<1> SUFFICES ASSUME PipelineInv, RunInv, [Next]_vars PROVE Behind' /\ RunIsChronological'
  OBVIOUS
<1>1. /\ idx \in Nat \ {0} /\ base \in Nat /\ Len(csv.rows) \in Nat /\ base <= Len(csv.rows)
      /\ Len(Timeline) \in Nat /\ items \in Seq(Items) /\ published \in Nat
  BY Constants DEF PipelineInv, TypeOK, ControlOK, DiskOK, HistoryOK, Saved
<1>2. Behind /\ RunIsChronological
  BY DEF RunInv
<1>3. CASE Start
  <2>1. base' = Len(csv.rows) /\ csv' = csv
    BY <1>3 DEF Start
  <2> QED
    BY <1>1, <2>1 DEF Behind, RunIsChronological
<1>4. CASE AppendRow
  <2>1. idx <= Len(items) /\ ~Recorded(CurrentTx) /\ idx' = idx /\ base' = base
    BY <1>4 DEF AppendRow, hist, PipelineInv, TypeOK, ControlOK, Discovered
  <2>2. idx \in Items /\ CurrentTx = Timeline[idx]
    BY <2>1, CurrentIsIndex
  <2> DEFINE len == Len(csv.rows)
  <2>3. /\ Len(csv.rows') = len + 1 /\ csv.rows'[len + 1] = Timeline[idx]
        /\ \A n \in 1..len : csv.rows'[n] = csv.rows[n] /\ csv.rows[n] # Timeline[idx]
    <3>1. \A n \in 1..len : csv.rows[n] \in Rows
      BY DEF Rows, Range, PipelineInv, TypeOK, DiskOK
    <3> QED
      BY <1>4, <2>1, <2>2, <3>1, RowWritten DEF Recorded
  <2>4. \A n \in base + 1..len :
           \E i \in Items : i < idx /\ Timeline[i] = csv.rows'[n]
    <3> SUFFICES ASSUME NEW n \in base + 1..len
                 PROVE  \E i \in Items : i < idx /\ Timeline[i] = csv.rows'[n]
      OBVIOUS
    <3>1. n \in 1..len
      BY <1>1
    <3>2. PICK i \in Items : i <= idx /\ Timeline[i] = csv.rows[n]
      BY <1>2 DEF Behind, Reached
    <3>3. i # idx /\ i \in Nat
      BY <1>1, <2>3, <3>1, <3>2 DEF Items
    <3> QED
      BY <1>1, <2>3, <3>1, <3>2, <3>3
  <2>5. \A n \in base' + 1..Len(csv.rows') : n \in base + 1..len \/ n = len + 1
    BY <1>1, <2>1, <2>3
  <2>6. Behind'
    <3> SUFFICES ASSUME NEW n \in base' + 1..Len(csv.rows')
                 PROVE  \E i \in Items : i <= idx' /\ Timeline[i] = csv.rows'[n]
      BY DEF Behind, Reached
    <3>1. CASE n = len + 1
      BY <1>1, <2>1, <2>2, <2>3, <3>1
    <3>2. CASE n \in base + 1..len
      <4>1. PICK i \in Items : i < idx /\ Timeline[i] = csv.rows'[n]
        BY <2>4, <3>2
      <4> QED
        BY <1>1, <2>1, <4>1 DEF Items
    <3> QED
      BY <2>5, <3>1, <3>2
  <2>7. RunIsChronological'
    <3> SUFFICES ASSUME NEW m \in base' + 1..Len(csv.rows'), NEW n \in base' + 1..Len(csv.rows'), m < n
                 PROVE  \E i, j \in Items :
                          i < j /\ Timeline[i] = csv.rows'[m] /\ Timeline[j] = csv.rows'[n]
      BY DEF RunIsChronological
    <3>1. CASE n = len + 1
      <4>1. m \in base + 1..len
        BY <1>1, <2>5, <3>1
      <4> QED
        BY <2>2, <2>3, <2>4, <3>1, <4>1
    <3>2. CASE n \in base + 1..len
      <4>1. m \in base + 1..len /\ m \in 1..len /\ n \in 1..len
        BY <1>1, <2>5, <3>2
      <4> QED
        BY <1>2, <2>3, <3>2, <4>1 DEF RunIsChronological
    <3> QED
      BY <2>5, <3>1, <3>2
  <2> QED
    BY <2>6, <2>7
<1>5. CASE ~Start /\ ~AppendRow
  <2>1. csv.rows' = csv.rows /\ base' = base
    BY <1>5, RunFrame, FileFrame DEF PipelineInv
  <2>2. idx' >= idx /\ idx' \in Nat
    <3>1. CASE FetchList \/ SkipNoDetails \/ Classify
      BY <1>1, <3>1 DEF FetchList, SkipNoDetails, Classify
    <3> QED
      BY <1>1, <1>5, <3>1, LoopFrame
  <2>3. \A i \in Items : i <= idx => i <= idx'
    BY <1>1, <2>2 DEF Items
  <2>4. Behind'
    BY <1>2, <2>1, <2>3 DEF Behind, Reached
  <2>5. RunIsChronological'
    BY <1>2, <2>1 DEF RunIsChronological
  <2> QED
    BY <2>4, <2>5
<1> QED
  BY <1>3, <1>4, <1>5

\* A row is added when the loop is past all older items, each of them recorded or
\* skipped in this run; later steps only add rows.
LEMMA NoSilentGapStep == PipelineInv /\ RunInv /\ [Next]_vars => NoSilentGap'
<1> DEFINE Settled(j) == HasDetails(j) => Timeline[j] \in Rows \/ verdict[j] \in Ignorable
<1> SUFFICES ASSUME PipelineInv, RunInv, [Next]_vars, NEW t \in Rows'
             PROVE  \E i \in Items : Timeline[i] = t /\ \A j \in 1..i - 1 : Settled(j)'
  BY DEF NoSilentGap, HasDetails
<1>1. verdict' = verdict /\ Rows \subseteq Rows'
  BY RecordedStays
<1>2. \A j : Settled(j) => Settled(j)'
  BY <1>1 DEF HasDetails
<1>3. CASE t \in Rows
  <2>1. PICK i \in Items : Timeline[i] = t /\ \A j \in 1..i - 1 : Settled(j)
    BY <1>3 DEF RunInv, NoSilentGap
  <2> QED
    BY <1>2, <2>1
<1>4. CASE t \notin Rows
  <2>1. AppendRow
    BY <1>4, FileFrame DEF PipelineInv, Rows
  <2>2. t = CurrentTx
    BY <1>4, <2>1, RowWritten
  <2>3. idx <= Len(items)
    BY <2>1 DEF AppendRow, PipelineInv, TypeOK, ControlOK
  <2>4. idx \in Items /\ t = Timeline[idx]
    BY <2>2, <2>3, CurrentIsIndex
  <2>5. \A j \in 1..idx - 1 : Settled(j)
    BY DEF RunInv, Counting, Recorded
  <2> QED
    BY <1>2, <2>4, <2>5
<1> QED
  BY <1>3, <1>4

\* The steps left when nothing fails, by what they do to rows and documents.
LEMMA FaultFreeStep ==
  ASSUME PipelineInv, [Next]_vars, faults' = 0
  PROVE  /\ faults = 0
         /\ \/ AppendRow \/ DocsDone \/ DocExists \/ CreateDoc \/ CopyDoc
            \/ UNCHANGED <<pc, items, idx, docIdx, csv.rows, files>>
            \/ /\ pc \notin {"doc", "copy"} /\ pc' \notin {"doc", "copy"}
               /\ UNCHANGED <<csv.rows, files>>
<1>1. faults \in Nat
  BY Constants DEF PipelineInv, TypeOK, HistoryOK
<1>2. faults = 0 /\ ~Fault
  <2>1. ~Fault
    BY <1>1 DEF Fault
  <2>2. faults' = faults
    BY <2>1 DEF Next, Program, HandlerStep, ProcessorStep, DownloadStep, Publish, Start, Crash, FetchList, FetchListFails, SkipNoDetails, FetchDetails, FetchDetailsFails, Classify, HandleDone, ReadCSV, ReadCSVFails, Build, SaveModel, SaveModelFails, OpenCSV, OpenCSVFails, AppendRow, AppendRowFails, DocsDone, DocExists, CreateDoc, RequestFails, CopyDoc, CopyErrorPage, CopyFails, vars, hist
  <2> QED
    BY <2>1, <2>2
<1>3. CASE Publish \/ UNCHANGED vars
  BY <1>2, <1>3 DEF Publish, vars, local, disk
<1>4. CASE OpenCSV
  BY <1>2, <1>4, FileFrame DEF OpenCSV, AppendRow, PipelineInv
<1>5. CASE \/ Start \/ FetchList \/ SkipNoDetails \/ FetchDetails \/ Classify \/ HandleDone
           \/ ReadCSV \/ Build \/ SaveModel
  BY <1>2, <1>5 DEF Start, FetchList, SkipNoDetails, FetchDetails, Classify, HandleDone,
     ReadCSV, Build, SaveModel, Exit, Return, disk
<1> QED
  BY <1>2, <1>3, <1>4, <1>5 DEF Next, Program, HandlerStep, ProcessorStep, DownloadStep, Crash, FetchListFails, FetchDetailsFails, ReadCSVFails, SaveModelFails, OpenCSVFails, AppendRowFails, RequestFails, CopyErrorPage, CopyFails

\* Without a fault no document behind the loop goes missing.
LEMMA NoneMissingStep == PipelineInv /\ RunInv /\ [Next]_vars => NoneMissing'
<1> SUFFICES ASSUME PipelineInv, RunInv, [Next]_vars, faults' = 0,
                    NEW t \in Rows', NEW k \in 1..Len(DocsOf[t])
             PROVE  Ahead(t, k)' \/ Exists(DocsOf[t][k])'
  BY DEF NoneMissing
<1>1. \A u \in Rows : \A j \in 1..Len(DocsOf[u]) : Ahead(u, j) \/ Exists(DocsOf[u][j])
  BY FaultFreeStep DEF RunInv, NoneMissing
<1>2. docIdx \in Nat \ {0}
  BY DEF PipelineInv, TypeOK, ControlOK
<1>3. t \in Tx /\ Len(DocsOf[t]) \in Nat
  BY TypeStep, Constants DEF PipelineInv, TypeOK, DiskOK, Rows, Range
<1>4. CASE AppendRow
  <2>1. pc = "write" /\ pc' = "doc" /\ docIdx' = 1 /\ CurrentTx' = CurrentTx /\ files' = files
    BY <1>4 DEF AppendRow, CurrentTx, Current
  <2>2. CASE t = CurrentTx
    BY <2>1, <2>2, <1>3 DEF Ahead
  <2>3. CASE t \in Rows
    BY <1>1, <2>1, <2>3 DEF Ahead, Exists
  <2> QED
    BY <1>4, <2>2, <2>3, RowWritten
<1>5. CASE DocsDone
  <2>1. t \in Rows /\ files' = files /\ docIdx > Len(DocsOf[CurrentTx])
    BY <1>2, <1>5, Constants, CurrentItem DEF DocsDone, docUnchanged, Rows, MoreDocs, PipelineInv
  <2>2. ~Ahead(t, k)
    BY <1>2, <1>3, <2>1 DEF Ahead
  <2> QED
    BY <1>1, <2>1, <2>2 DEF Exists
<1>6. CASE DocExists \/ CopyDoc
  <2>1. /\ t \in Rows /\ docIdx' = docIdx + 1 /\ pc' = "doc" /\ CurrentTx' = CurrentTx
        /\ DOMAIN files' = DOMAIN files /\ Exists(CurrentDoc)
    BY <1>6 DEF DocExists, CopyDoc, CopyBody, docUnchanged, Rows, CurrentTx, Current,
       PipelineInv, Copying
  <2>2. CASE Ahead(t, k) /\ k # docIdx
    BY <1>2, <1>3, <2>1, <2>2 DEF Ahead
  <2>3. CASE Ahead(t, k) /\ k = docIdx
    BY <2>1, <2>3 DEF Ahead, CurrentDoc, Exists
  <2> QED
    BY <1>1, <2>1, <2>2, <2>3 DEF Exists
<1>7. CASE CreateDoc
  <2>1. /\ t \in Rows /\ docIdx' = docIdx /\ pc = "doc" /\ pc' = "copy" /\ CurrentTx' = CurrentTx
        /\ DOMAIN files \subseteq DOMAIN files'
    BY <1>7 DEF CreateDoc, CreateFile, docUnchanged, Rows, CurrentTx, Current
  <2> QED
    BY <1>1, <2>1 DEF Ahead, Exists
<1>8. CASE UNCHANGED <<pc, items, idx, docIdx, csv.rows, files>>
  BY <1>1, <1>8 DEF Ahead, Exists, Rows, CurrentTx, Current
<1>9. CASE pc \notin {"doc", "copy"} /\ UNCHANGED <<csv.rows, files>>
  BY <1>1, <1>9 DEF Ahead, Exists, Rows
<1> QED
  BY <1>4, <1>5, <1>6, <1>7, <1>8, <1>9, FaultFreeStep

\* Without a fault no file but the one being copied is unfinished.
LEMMA NoneUnfinishedStep == PipelineInv /\ RunInv /\ [Next]_vars => NoneUnfinished'
<1> SUFFICES ASSUME PipelineInv, RunInv, [Next]_vars, faults' = 0, NEW p \in DOMAIN files'
             PROVE  files'[p].content = "complete" \/ (pc' = "copy" /\ p = (PathOf[CurrentDoc])')
  BY DEF NoneUnfinished
<1>1. \A q \in DOMAIN files :
         files[q].content = "complete" \/ (pc = "copy" /\ q = PathOf[CurrentDoc])
  BY FaultFreeStep DEF RunInv, NoneUnfinished
<1>2. CASE CreateDoc
  BY <1>1, <1>2 DEF CreateDoc, CreateFile, docUnchanged, CurrentDoc, CurrentTx, Current
<1>3. CASE CopyDoc
  BY <1>1, <1>3 DEF CopyDoc, CopyBody
<1>4. CASE UNCHANGED <<pc, items, idx, docIdx, csv.rows, files>>
  BY <1>1, <1>4 DEF CurrentDoc, CurrentTx, Current
<1>5. CASE files' = files /\ pc # "copy"
  BY <1>1, <1>5
<1> QED
  BY <1>2, <1>3, <1>4, <1>5, FaultFreeStep DEF AppendRow, DocsDone, DocExists

\* Every step keeps the invariant.
LEMMA RunStep == PipelineInv /\ RunInv /\ [Next]_vars => RunInv'
  BY OrderStep, CountingStep, ConcludingStep, BehindStep, NoSilentGapStep, NoneMissingStep,
     NoneUnfinishedStep
  DEF RunInv

LEMMA RunInvariance == Spec => [](PipelineInv /\ RunInv)
<1> QED
  BY InvInit, InvStep, RunInit, RunStep, PTL DEF Spec

\* Within a run, rows are written in the order the transactions happened.
THEOREM Chronology == Spec => []RunIsChronological
<1>1. RunInv => RunIsChronological
  BY DEF RunInv
<1> QED
  BY <1>1, RunInvariance, PTL

\* Every item older than a recorded one is recorded as well or one that Handle skips,
\* over all runs, failures and crashes.
THEOREM NothingLeftBehind == Spec => []NoSilentGap
<1>1. RunInv => NoSilentGap
  BY DEF RunInv
<1> QED
  BY <1>1, RunInvariance, PTL

\* When Handle returns nil, every listed item with details was counted once,
\* the processed ones are recorded and the skipped ones were skippable.
THEOREM Accounting == Spec => []SuccessAccountsForAll
<1>1. PipelineInv /\ RunInv => SuccessAccountsForAll
  <2> SUFFICES ASSUME PipelineInv, RunInv, outcome = "ok" PROVE SuccessAccountsForAll
    BY DEF SuccessAccountsForAll
  <2>1. items \in Seq(Items) /\ idx \in Nat /\ idx = Len(items) + 1
    BY DEF PipelineInv, TypeOK, ControlOK, RunInv, InOrder, Concluding
  <2>2. Range(items) = 1..Len(items)
    BY <2>1 DEF Range, RunInv, InOrder
  <2>3. {i \in Range(items) : HasDetails(i)} = {i \in 1..idx - 1 : HasDetails(i)}
    BY <2>1, <2>2
  <2> QED
    BY <2>3 DEF RunInv, Counting, Recorded, SuccessAccountsForAll
<1> QED
  BY <1>1, RunInvariance, PTL

\* As long as nothing ever failed, a finished run leaves every document of
\* every recorded transaction on disk, in full.
THEOREM Gapless == Spec => []NoFaultNoGap
<1>1. PipelineInv /\ RunInv => NoFaultNoGap
  <2> SUFFICES ASSUME PipelineInv, RunInv, faults = 0, outcome = "ok",
                      NEW t \in Rows, NEW d \in Range(DocsOf[t])
               PROVE  Exists(d) /\ files[PathOf[d]].content = "complete"
    BY DEF NoFaultNoGap
  <2>1. pc = "down"
    BY DEF RunInv, Concluding
  <2>2. t \in Tx /\ DocsOf[t] \in Seq(Doc)
    BY Constants DEF Rows, Range, PipelineInv, TypeOK, DiskOK
  <2>3. PICK k \in 1..Len(DocsOf[t]) : d = DocsOf[t][k]
    BY <2>2 DEF Range
  <2>4. Exists(d)
    BY <2>1, <2>3 DEF RunInv, NoneMissing, Ahead
  <2> QED
    BY <2>1, <2>4 DEF RunInv, NoneUnfinished, Exists
<1> QED
  BY <1>1, RunInvariance, PTL
=============================================================================
