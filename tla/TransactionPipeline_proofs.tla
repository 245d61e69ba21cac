---------------------- MODULE TransactionPipeline_proofs ----------------------
(***************************************************************************)
(* Theorems about TransactionPipeline, for every timeline, every set of    *)
(* documents and every number of faults.  PipelineInv is shown inductive   *)
(* action by action; the safety properties and the refinement of the       *)
(* ledger follow from it.                                                  *)
(***************************************************************************)
EXTENDS TransactionPipeline, TLAPS

\* What the provers need of the constants.
LEMMA Constants ==
  /\ Len(Timeline) \in Nat /\ MaxFaults \in Nat
  /\ \A i \in Items : Timeline[i] \in Tx \cup {NoDetails}
  /\ \A t \in Tx : DocsOf[t] \in Seq(Doc) /\ Len(DocsOf[t]) \in Nat
  /\ \A d \in Doc : PathOf[d] \in Path
  BY PathOfAssumption, PipelineAssumption DEF PipelineAssumption, PathOfAssumption, Items

\* The list Handle works on is the published prefix of the timeline.
LEMMA ListedItems ==
  ASSUME published \in 0..Len(Timeline)
  PROVE  Chronological(ServerList) \in Seq(Items)
<1>1. Len(Timeline) \in Nat
  BY Constants
<1> DEFINE S == [i \in 1..published |-> i]
<1>2. S \in Seq(Items) /\ Len(S) = published
  BY <1>1 DEF Items
<1>3. ServerList \in Seq(Items) /\ Len(ServerList) = published
  BY <1>2 DEF ServerList, Reverse
<1> QED
  BY <1>3 DEF Chronological, Reverse

\* Creating or finishing a file keeps the directory well typed.
LEMMA CreateFileType ==
  ASSUME FilesTypeOK, NEW d \in Doc, CreateFile(d)
  PROVE  FilesTypeOK'
  BY Constants DEF FilesTypeOK, CreateFile, FileRecord, Content

LEMMA CopyBodyType ==
  ASSUME FilesTypeOK, NEW d \in Doc, NEW c \in Content, CopyBody(d, c)
  PROVE  FilesTypeOK'
  BY Constants DEF FilesTypeOK, CopyBody, FileRecord, Content

\* The loop variables name what they should at the steps that use them.
LEMMA CurrentItem ==
  ASSUME TypeOK, pc \notin {"down", "list", "item"}
  PROVE  /\ idx \in 1..Len(items) /\ Current \in Detailed /\ CurrentTx \in Tx
         /\ DocsOf[CurrentTx] \in Seq(Doc)
         /\ MoreDocs => CurrentDoc \in Doc
<1>1. idx \in 1..Len(items) /\ Current \in Items /\ HasDetails(Current)
  BY DEF TypeOK, ControlOK, Current
<1>2. Timeline[Current] \in Tx \cup {NoDetails}
  BY <1>1, Constants
<1>3. CurrentTx \in Tx /\ Current \in Detailed
  BY <1>1, <1>2 DEF CurrentTx, HasDetails, Detailed
<1> QED
  BY <1>1, <1>3, Constants DEF TypeOK, ControlOK, MoreDocs, CurrentDoc

(***************************************************************************)
(* Type correctness.                                                       *)
(***************************************************************************)
\* The initial state has its type.
LEMMA TypeInit == Init => TypeOK
<1> SUFFICES ASSUME Init PROVE TypeOK
  OBVIOUS
<1>1. ControlOK
  BY Constants DEF Init, ControlOK, PCs
<1>2. ResultOK
  BY DEF Init, ResultOK
<1>3. DiskOK
  BY DEF Init, DiskOK, FilesInit, FilesTypeOK
<1>4. HistoryOK
  BY Constants DEF Init, HistoryOK
<1> QED
  BY <1>1, <1>2, <1>3, <1>4 DEF TypeOK

\* The control state.
LEMMA ControlStep == TypeOK /\ [Next]_vars => ControlOK'
<1> SUFFICES ASSUME TypeOK, [Next]_vars PROVE ControlOK'
  OBVIOUS
<1> USE DEF TypeOK, ControlOK, PCs
<1>1. CASE Publish
  BY <1>1 DEF Publish, local, Current, CurrentTx, HasDetails, MoreDocs
<1>2. CASE Start
  BY <1>2 DEF Start, local, Current, CurrentTx, HasDetails, MoreDocs
<1>3. CASE Crash
  BY <1>3 DEF Crash, Exit, local, Current, CurrentTx, HasDetails, MoreDocs
<1>4. CASE FetchList
  BY ListedItems, <1>4 DEF FetchList, local, Current, CurrentTx, HasDetails, MoreDocs
<1>5. CASE FetchListFails
  BY <1>5 DEF FetchListFails, Exit, local, Current, CurrentTx, HasDetails, MoreDocs
<1>6. CASE SkipNoDetails
  BY <1>6 DEF SkipNoDetails, local, Current, CurrentTx, HasDetails, MoreDocs
<1>7. CASE FetchDetails
  BY <1>7 DEF FetchDetails, Return, local, Current, CurrentTx, HasDetails, MoreDocs
<1>8. CASE FetchDetailsFails
  BY <1>8 DEF FetchDetailsFails, Return, local, Current, CurrentTx, HasDetails, MoreDocs
<1>9. CASE Classify
  BY <1>9 DEF Classify, Exit, Return, local, Current, CurrentTx, HasDetails, MoreDocs
<1>10. CASE HandleDone
  BY <1>10 DEF HandleDone, Exit, local, Current, CurrentTx, HasDetails, MoreDocs
<1>11. CASE ReadCSV
  BY <1>11 DEF ReadCSV, Return, local, Current, CurrentTx, HasDetails, MoreDocs
<1>12. CASE ReadCSVFails
  BY <1>12 DEF ReadCSVFails, Return, local, Current, CurrentTx, HasDetails, MoreDocs
<1>13. CASE Build
  BY <1>13 DEF Build, Return, local, Current, CurrentTx, HasDetails, MoreDocs
<1>14. CASE SaveModel
  BY <1>14 DEF SaveModel, local, Current, CurrentTx, HasDetails, MoreDocs
<1>15. CASE SaveModelFails
  BY <1>15 DEF SaveModelFails, Return, local, Current, CurrentTx, HasDetails, MoreDocs
<1>16. CASE OpenCSV
  BY <1>16 DEF OpenCSV, local, Current, CurrentTx, HasDetails, MoreDocs
<1>17. CASE OpenCSVFails
  BY <1>17 DEF OpenCSVFails, Return, local, Current, CurrentTx, HasDetails, MoreDocs
<1>18. CASE AppendRow
  BY <1>18 DEF AppendRow, local, Current, CurrentTx, HasDetails, MoreDocs
<1>19. CASE AppendRowFails
  BY <1>19 DEF AppendRowFails, Return, local, Current, CurrentTx, HasDetails, MoreDocs
<1>20. CASE DocsDone
  BY <1>20 DEF DocsDone, Return, docUnchanged, local, Current, CurrentTx, HasDetails, MoreDocs
<1>21. CASE DocExists
  BY <1>21 DEF DocExists, docUnchanged, local, Current, CurrentTx, HasDetails, MoreDocs
<1>22. CASE CreateDoc
  BY <1>22 DEF CreateDoc, docUnchanged, local, Current, CurrentTx, HasDetails, MoreDocs
<1>23. CASE RequestFails
  BY <1>23 DEF RequestFails, docUnchanged, local, Current, CurrentTx, HasDetails, MoreDocs
<1>24. CASE CopyDoc
  BY <1>24 DEF CopyDoc, docUnchanged, local, Current, CurrentTx, HasDetails, MoreDocs
<1>25. CASE CopyErrorPage
  <2>1. pc' = "doc" /\ docIdx' = docIdx + 1 /\ UNCHANGED <<published, items, idx>> /\ pc = "copy"
    BY <1>25 DEF CopyErrorPage, docUnchanged
  <2> QED
    BY <2>1 DEF Current, HasDetails
<1>26. CASE CopyFails
  BY <1>26 DEF CopyFails, docUnchanged, local, Current, CurrentTx, HasDetails, MoreDocs
<1>27. CASE UNCHANGED vars
  BY <1>27 DEF vars, local, Current, HasDetails, MoreDocs, CurrentTx
<1> QED
  BY <1>1, <1>2, <1>3, <1>4, <1>5, <1>6, <1>7, <1>8, <1>9, <1>10, <1>11, <1>12, <1>13, <1>14, <1>15, <1>16, <1>17, <1>18, <1>19, <1>20, <1>21, <1>22, <1>23, <1>24, <1>25, <1>26, <1>27 DEF Next, Program, HandlerStep, ProcessorStep, DownloadStep

\* Error, verdicts and counters.
LEMMA ResultStep == TypeOK /\ [Next]_vars => ResultOK'
<1> SUFFICES ASSUME TypeOK, [Next]_vars PROVE ResultOK'
  OBVIOUS
<1> USE DEF TypeOK, ControlOK, ResultOK, AllErrors, FetchErrors, BuildErrors, IOErrors
<1>1. CASE Classify
  BY <1>1, CurrentItem DEF Classify, Exit, Items, Detailed
<1>2. CASE FetchDetails \/ Build
  BY <1>2 DEF FetchDetails, Build, Return
<1>3. CASE UNCHANGED vars
  BY <1>3 DEF vars, local
<1>4. CASE Publish
  BY <1>4 DEF Publish, local
<1>5. CASE Start
  BY <1>5 DEF Start, local
<1>6. CASE Crash
  BY <1>6 DEF Crash, Exit, local
<1>7. CASE FetchList
  BY <1>7 DEF FetchList, local
<1>8. CASE FetchListFails
  BY <1>8 DEF FetchListFails, Exit, local
<1>9. CASE SkipNoDetails
  BY <1>9 DEF SkipNoDetails, local
<1>10. CASE FetchDetailsFails
  BY <1>10 DEF FetchDetailsFails, Return, local
<1>11. CASE HandleDone
  BY <1>11 DEF HandleDone, Exit, local
<1>12. CASE ReadCSV
  BY <1>12 DEF ReadCSV, Return, local
<1>13. CASE ReadCSVFails
  BY <1>13 DEF ReadCSVFails, Return, local
<1>14. CASE SaveModel
  BY <1>14 DEF SaveModel, local
<1>15. CASE SaveModelFails
  BY <1>15 DEF SaveModelFails, Return, local
<1>16. CASE OpenCSV
  BY <1>16 DEF OpenCSV, local
<1>17. CASE OpenCSVFails
  BY <1>17 DEF OpenCSVFails, Return, local
<1>18. CASE AppendRow
  BY <1>18 DEF AppendRow, local
<1>19. CASE AppendRowFails
  BY <1>19 DEF AppendRowFails, Return, local
<1>20. CASE DocsDone
  BY <1>20 DEF DocsDone, Return, docUnchanged, local
<1>21. CASE DocExists
  BY <1>21 DEF DocExists, docUnchanged, local
<1>22. CASE CreateDoc
  BY <1>22 DEF CreateDoc, docUnchanged, local
<1>23. CASE RequestFails
  BY <1>23 DEF RequestFails, docUnchanged, local
<1>24. CASE CopyDoc
  BY <1>24 DEF CopyDoc, docUnchanged, local
<1>25. CASE CopyErrorPage
  BY <1>25 DEF CopyErrorPage, docUnchanged, local
<1>26. CASE CopyFails
  BY <1>26 DEF CopyFails, docUnchanged, local
<1> QED
  BY <1>1, <1>2, <1>3, <1>4, <1>5, <1>6, <1>7, <1>8, <1>9, <1>10, <1>11, <1>12, <1>13, <1>14, <1>15, <1>16, <1>17, <1>18, <1>19, <1>20, <1>21, <1>22, <1>23, <1>24, <1>25, <1>26 DEF Next, Program, HandlerStep, ProcessorStep, DownloadStep

\* Only these steps change what is on disk.
LEMMA DiskFrame ==
  ASSUME [Next]_vars
  PROVE  \/ Start \/ SaveModel \/ OpenCSV \/ AppendRow
         \/ CreateDoc \/ CopyDoc \/ CopyErrorPage
         \/ UNCHANGED disk
  BY DEF Next, Program, HandlerStep, ProcessorStep, DownloadStep, Publish, Start, Crash, FetchList, FetchListFails, SkipNoDetails, FetchDetails, FetchDetailsFails, Classify, HandleDone, ReadCSV, ReadCSVFails, Build, SaveModel, SaveModelFails, OpenCSV, OpenCSVFails, AppendRow, AppendRowFails, DocsDone, DocExists, CreateDoc, RequestFails, CopyDoc, CopyErrorPage, CopyFails, vars, disk, docUnchanged

\* The disk.
LEMMA DiskStep == TypeOK /\ [Next]_vars => DiskOK'
<1> SUFFICES ASSUME TypeOK, [Next]_vars PROVE DiskOK'
  OBVIOUS
<1> USE DEF TypeOK, DiskOK
<1>1. CASE Start
  BY <1>1 DEF Start, FilesTypeOK
<1>2. CASE SaveModel
  BY <1>2, CurrentItem DEF SaveModel, FilesTypeOK
<1>3. CASE OpenCSV
  BY <1>3 DEF OpenCSV, FilesTypeOK
<1>4. CASE AppendRow
  <2>1. CurrentTx \in Tx
    BY <1>4, CurrentItem DEF AppendRow
  <2>2. (csv.header \/ newFile) \in BOOLEAN
    BY DEF ResultOK
  <2>3. Append(csv.rows, CurrentTx) \in Seq(Tx)
    BY <2>1
  <2> QED
    BY <1>4, <2>2, <2>3 DEF AppendRow, FilesTypeOK
<1>5. CASE CreateDoc
  BY <1>5, CurrentItem, CreateFileType DEF CreateDoc, docUnchanged
<1>6. CASE CopyDoc
  BY <1>6, CurrentItem, CopyBodyType DEF CopyDoc, docUnchanged, ControlOK, Content
<1>7. CASE CopyErrorPage
  BY <1>7, CurrentItem, CopyBodyType DEF CopyErrorPage, docUnchanged, ControlOK, Content
<1>8. CASE UNCHANGED disk
  BY <1>8 DEF disk, FilesTypeOK
<1> QED
  BY <1>1, <1>2, <1>3, <1>4, <1>5, <1>6, <1>7, <1>8, DiskFrame

\* The fault counter and the history variables.
LEMMA HistoryStep == TypeOK /\ [Next]_vars => HistoryOK'
<1> SUFFICES ASSUME TypeOK, [Next]_vars PROVE HistoryOK'
  OBVIOUS
<1> USE Constants DEF TypeOK, HistoryOK
<1>1. ASSUME Fault PROVE faults' \in 0..MaxFaults /\ clean' \in BOOLEAN
  <2>1. faults \in Nat /\ MaxFaults \in Nat /\ faults < MaxFaults /\ faults' = faults + 1
    BY <1>1 DEF Fault
  <2>2. faults' \in 0..MaxFaults
    BY <2>1
  <2>3. clean' \in BOOLEAN
    BY <1>1, Zenon DEF Fault
  <2> QED
    BY <2>2, <2>3
<1>2. Len(csv.rows) \in Nat
  BY DEF DiskOK
<1>3. CASE Publish
  BY <1>1, <1>2, <1>3 DEF Publish, hist
<1>4. CASE Start
  BY <1>1, <1>2, <1>4 DEF Start, hist
<1>5. CASE Crash
  BY <1>1, <1>2, <1>5 DEF Crash, Exit, hist
<1>6. CASE FetchList
  BY <1>1, <1>2, <1>6 DEF FetchList, hist
<1>7. CASE FetchListFails
  BY <1>1, <1>2, <1>7 DEF FetchListFails, Exit, hist
<1>8. CASE SkipNoDetails
  BY <1>1, <1>2, <1>8 DEF SkipNoDetails, hist
<1>9. CASE FetchDetails
  BY <1>1, <1>2, <1>9 DEF FetchDetails, Return, hist
<1>10. CASE FetchDetailsFails
  BY <1>1, <1>2, <1>10 DEF FetchDetailsFails, Return, hist
<1>11. CASE Classify
  BY <1>1, <1>2, <1>11 DEF Classify, Exit, Return, hist
<1>12. CASE HandleDone
  BY <1>1, <1>2, <1>12 DEF HandleDone, Exit, hist
<1>13. CASE ReadCSV
  BY <1>1, <1>2, <1>13 DEF ReadCSV, Return, hist
<1>14. CASE ReadCSVFails
  BY <1>1, <1>2, <1>14 DEF ReadCSVFails, Return, hist
<1>15. CASE Build
  BY <1>1, <1>2, <1>15 DEF Build, Return, hist
<1>16. CASE SaveModel
  BY <1>1, <1>2, <1>16 DEF SaveModel, hist
<1>17. CASE SaveModelFails
  BY <1>1, <1>2, <1>17 DEF SaveModelFails, Return, hist
<1>18. CASE OpenCSV
  BY <1>1, <1>2, <1>18 DEF OpenCSV, hist
<1>19. CASE OpenCSVFails
  BY <1>1, <1>2, <1>19 DEF OpenCSVFails, Return, hist
<1>20. CASE AppendRow
  BY <1>1, <1>2, <1>20 DEF AppendRow, hist
<1>21. CASE AppendRowFails
  BY <1>1, <1>2, <1>21 DEF AppendRowFails, Return, hist
<1>22. CASE DocsDone
  BY <1>1, <1>2, <1>22 DEF DocsDone, Return, docUnchanged, hist
<1>23. CASE DocExists
  BY <1>1, <1>2, <1>23 DEF DocExists, docUnchanged, hist
<1>24. CASE CreateDoc
  BY <1>1, <1>2, <1>24 DEF CreateDoc, docUnchanged, hist
<1>25. CASE RequestFails
  BY <1>1, <1>2, <1>25 DEF RequestFails, docUnchanged, hist
<1>26. CASE CopyDoc
  BY <1>1, <1>2, <1>26 DEF CopyDoc, docUnchanged, hist
<1>27. CASE CopyErrorPage
  BY <1>1, <1>2, <1>27 DEF CopyErrorPage, docUnchanged, hist
<1>28. CASE CopyFails
  BY <1>1, <1>2, <1>28 DEF CopyFails, docUnchanged, hist
<1>29. CASE UNCHANGED vars
  BY <1>29 DEF vars, hist
<1> QED
  BY <1>3, <1>4, <1>5, <1>6, <1>7, <1>8, <1>9, <1>10, <1>11, <1>12, <1>13, <1>14, <1>15, <1>16, <1>17, <1>18, <1>19, <1>20, <1>21, <1>22, <1>23, <1>24, <1>25, <1>26, <1>27, <1>28, <1>29 DEF Next, Program, HandlerStep, ProcessorStep, DownloadStep

\* Every step keeps the type.
LEMMA TypeStep == TypeOK /\ [Next]_vars => TypeOK'
  BY ControlStep, ResultStep, DiskStep, HistoryStep DEF TypeOK

\* Every variable keeps its type, and each loop index stays within its list at
\* the steps that use it.
THEOREM TypeCorrect == Spec => []TypeOK
<1> QED
  BY TypeInit, TypeStep, PTL DEF Spec

(***************************************************************************)
(* The inductive invariant.                                                *)
(***************************************************************************)
\* Appending a new element keeps a sequence free of duplicates.
LEMMA AppendNew ==
  ASSUME NEW S, NEW s \in Seq(S), NEW e \in S, IsInjective(s), e \notin Range(s)
  PROVE  IsInjective(Append(s, e)) /\ Range(Append(s, e)) = Range(s) \cup {e}
<1>1. /\ DOMAIN s = 1..Len(s) /\ Len(s) \in Nat
      /\ DOMAIN Append(s, e) = 1..Len(s) + 1
      /\ \A i \in 1..Len(s) : Append(s, e)[i] = s[i]
      /\ Append(s, e)[Len(s) + 1] = e
  OBVIOUS
<1>2. \A i \in 1..Len(s) : s[i] # e
  BY <1>1 DEF Range
<1>3. ASSUME NEW a \in 1..Len(s) + 1, NEW b \in 1..Len(s) + 1,
             Append(s, e)[a] = Append(s, e)[b]
      PROVE  a = b
  <2>1. CASE a \in 1..Len(s) /\ b \in 1..Len(s)
    BY <1>1, <1>3, <2>1 DEF IsInjective
  <2>2. CASE a = Len(s) + 1 \/ b = Len(s) + 1
    BY <1>1, <1>2, <1>3, <2>2
  <2> QED
    BY <1>1, <2>1, <2>2
<1>4. Range(Append(s, e)) \subseteq Range(s) \cup {e}
  BY <1>1 DEF Range
<1>5. Range(s) \cup {e} \subseteq Range(Append(s, e))
  <2>1. \A i \in 1..Len(s) : i \in 1..Len(s) + 1
    BY <1>1
  <2>2. Len(s) + 1 \in 1..Len(s) + 1
    BY <1>1
  <2> QED
    BY <1>1, <2>1, <2>2 DEF Range
<1> QED
  BY <1>1, <1>3, <1>4, <1>5 DEF IsInjective

\* A step that leaves the process where it is.
Idle == UNCHANGED <<pc, items, idx, newFile, docIdx, csv, db, files, base>>

\* Where the process can have come from, by where it is.
LEMMA ControlFlow ==
  ASSUME [Next]_vars
  PROVE  /\ pc' \in {"build", "save", "open", "write"} =>
              ReadCSV \/ Build \/ SaveModel \/ OpenCSV \/ Idle
         /\ pc' \in {"doc", "copy"} =>
              \/ AppendRow \/ DocExists \/ CreateDoc \/ RequestFails
              \/ CopyDoc \/ CopyErrorPage \/ CopyFails \/ Idle
<1>1. ASSUME Publish \/ UNCHANGED vars PROVE Idle
  BY <1>1 DEF Publish, vars, local, disk, hist, Idle
<1>2. ASSUME Next, ~Publish
      PROVE  /\ pc' \in {"build", "save", "open", "write"} =>
                  ReadCSV \/ Build \/ SaveModel \/ OpenCSV
             /\ pc' \in {"doc", "copy"} =>
                  \/ AppendRow \/ DocExists \/ CreateDoc \/ RequestFails
                  \/ CopyDoc \/ CopyErrorPage \/ CopyFails
  BY <1>2 DEF Next, Program, HandlerStep, ProcessorStep, DownloadStep, Publish, Start, Crash, FetchList, FetchListFails, SkipNoDetails, FetchDetails, FetchDetailsFails, Classify, HandleDone, ReadCSV, ReadCSVFails, Build, SaveModel, SaveModelFails, OpenCSV, OpenCSVFails, AppendRow, AppendRowFails, DocsDone, DocExists, CreateDoc, RequestFails, CopyDoc, CopyErrorPage, CopyFails, Exit, Return
<1> QED
  BY <1>1, <1>2

\* Rows and header change only when a row is written.
LEMMA FileFrame ==
  ASSUME TypeOK, [Next]_vars
  PROVE  /\ AppendRow \/ (csv.rows' = csv.rows /\ csv.header' = csv.header)
         /\ AppendRow \/ OpenCSV \/ csv' = csv
<1>1. csv \in [exists : BOOLEAN, header : BOOLEAN, rows : Seq(Tx)]
  BY DEF TypeOK, DiskOK
<1>2. CASE OpenCSV
  BY <1>1, <1>2 DEF OpenCSV
<1>3. CASE ~OpenCSV /\ ~AppendRow
  BY <1>3, DiskFrame DEF Start, SaveModel, CreateDoc, CopyDoc, CopyErrorPage, docUnchanged, disk
<1> QED
  BY <1>2, <1>3

\* What writing a row does to the file.
LEMMA RowWritten ==
  ASSUME PipelineInv, AppendRow
  PROVE  /\ csv.rows' = Append(csv.rows, CurrentTx)
         /\ csv.exists' = csv.exists
         /\ csv.header' = (csv.header \/ newFile)
         /\ IsInjective(csv.rows') /\ Rows' = Rows \cup {CurrentTx}
         /\ Len(csv.rows') = Len(csv.rows) + 1
         /\ \A n \in 1..Len(csv.rows) : csv.rows'[n] = csv.rows[n]
         /\ csv.rows'[Len(csv.rows) + 1] = CurrentTx
<1>1. csv \in [exists : BOOLEAN, header : BOOLEAN, rows : Seq(Tx)] /\ csv.rows \in Seq(Tx)
  BY DEF PipelineInv, TypeOK, DiskOK
<1>2. CurrentTx \in Tx /\ CurrentTx \notin Range(csv.rows)
  BY CurrentItem DEF PipelineInv, AppendRow, Discovered, Recorded, Rows
<1>3. csv.rows' = Append(csv.rows, CurrentTx) /\ csv.exists' = csv.exists
      /\ csv.header' = (csv.header \/ newFile)
  BY <1>1 DEF AppendRow
<1>4. IsInjective(csv.rows') /\ Rows' = Rows \cup {CurrentTx}
  BY <1>1, <1>2, <1>3, AppendNew DEF PipelineInv, NoDuplicateRows, Rows
<1> QED
  BY <1>1, <1>2, <1>3, <1>4

\* Only a start leaves "down" and sets base; only a start and SaveModel touch db.
LEMMA RunFrame ==
  ASSUME [Next]_vars
  PROVE  /\ Start \/ (base' = base /\ (pc' # "down" => pc # "down"))
         /\ Start \/ SaveModel \/ db' = db
<1>1. Start \/ (base' = base /\ (pc' # "down" => pc # "down"))
  BY DEF Next, Program, HandlerStep, ProcessorStep, DownloadStep, Publish, Start, Crash, FetchList, FetchListFails, SkipNoDetails, FetchDetails, FetchDetailsFails, Classify, HandleDone, ReadCSV, ReadCSVFails, Build, SaveModel, SaveModelFails, OpenCSV, OpenCSVFails, AppendRow, AppendRowFails, DocsDone, DocExists, CreateDoc, RequestFails, CopyDoc, CopyErrorPage, CopyFails, Exit, Return, vars, hist, docUnchanged
<1>2. Start \/ SaveModel \/ db' = db
  BY DiskFrame DEF OpenCSV, AppendRow, CreateDoc, CopyDoc, CopyErrorPage, docUnchanged, disk
<1> QED
  BY <1>1, <1>2

\* The initial state satisfies the invariant.
LEMMA InvInit == Init => PipelineInv
<1> SUFFICES ASSUME Init PROVE PipelineInv
  OBVIOUS
<1>1. csv.rows = <<>> /\ ~csv.header /\ ~csv.exists /\ pc = "down" /\ base = 0
  BY DEF Init
<1> QED
  BY <1>1, TypeInit DEF PipelineInv, NoDuplicateRows, IsInjective, NoRowWithoutHeader,
     RowsBackedByDB, Discovered, Filed, Readable, Copying, Saved

\* Every step keeps it.
LEMMA InvStep == PipelineInv /\ [Next]_vars => PipelineInv'
<1> SUFFICES ASSUME PipelineInv, [Next]_vars PROVE PipelineInv'
  OBVIOUS
<1> USE DEF PipelineInv
<1>1. TypeOK'
  BY TypeStep
<1>2. NoDuplicateRows'
  BY FileFrame, RowWritten DEF NoDuplicateRows
<1>3. NoRowWithoutHeader'
  <2>1. CASE AppendRow
    BY <2>1, RowWritten DEF AppendRow, Readable, NoRowWithoutHeader
  <2> QED
    BY <2>1, FileFrame DEF NoRowWithoutHeader
<1>4. Discovered'
  <2> SUFFICES ASSUME pc' \in {"build", "save", "open", "write"}
               PROVE  ~Recorded(CurrentTx)'
    BY DEF Discovered
  <2>1. ~Recorded(CurrentTx) /\ UNCHANGED <<items, idx>> /\ ~AppendRow
    BY ControlFlow DEF Discovered, ReadCSV, Return, Build, SaveModel, OpenCSV, Idle, local, AppendRow
  <2> QED
    BY <2>1, FileFrame DEF Recorded, Rows, CurrentTx, Current
<1>5. Filed'
  <2> SUFFICES ASSUME pc' \in {"doc", "copy"} PROVE Recorded(CurrentTx)'
    BY DEF Filed
  <2>1. UNCHANGED <<items, idx>> /\ (AppendRow \/ Recorded(CurrentTx))
    BY ControlFlow DEF Filed, AppendRow, DocExists, CreateDoc, RequestFails, CopyDoc,
       CopyErrorPage, CopyFails, docUnchanged, Idle
  <2> QED
    BY <2>1, FileFrame, RowWritten DEF Recorded, Rows, CurrentTx, Current
<1>6. Readable'
  <2>1. csv \in [exists : BOOLEAN, header : BOOLEAN, rows : Seq(Tx)]
    BY DEF TypeOK, DiskOK
  <2>2. ASSUME pc' \in {"build", "save", "open"} PROVE ~Unreadable'
    <3>1. ~Unreadable /\ ~AppendRow /\ ~OpenCSV
      BY <2>2, ControlFlow DEF Readable, ReadCSV, Return, Build, SaveModel, OpenCSV, Idle, AppendRow
    <3> QED
      BY <3>1, FileFrame DEF Unreadable
  <2>3. ASSUME pc' = "write" PROVE csv.exists' /\ (newFile' \/ csv.header')
    <3>1. CASE OpenCSV
      BY <2>1, <3>1 DEF OpenCSV, Readable, Unreadable
    <3>2. CASE Idle
      BY <2>3, <3>2 DEF Idle, Readable
    <3> QED
      BY <2>3, <3>1, <3>2, ControlFlow DEF ReadCSV, Return, Build, SaveModel
  <2>4. ~csv.exists' => ~csv.header' /\ csv.rows' = <<>>
    <3>1. CASE OpenCSV
      BY <2>1, <3>1 DEF OpenCSV
    <3>2. CASE AppendRow
      BY <3>2, RowWritten DEF AppendRow, Readable
    <3> QED
      BY <3>1, <3>2, FileFrame DEF Readable
  <2> QED
    BY <2>2, <2>3, <2>4 DEF Readable
<1>7. Copying'
  <2> SUFFICES ASSUME pc' = "copy"
               PROVE  /\ Exists(CurrentDoc)'
                      /\ files'[PathOf[CurrentDoc']] = [doc |-> CurrentDoc', content |-> "partial"]
    BY DEF Copying
  <2>1. CASE CreateDoc
    BY <2>1 DEF CreateDoc, docUnchanged, CreateFile, Exists, CurrentDoc, CurrentTx, Current
  <2>2. CASE Idle
    BY <2>2 DEF Idle, Copying, Exists, CurrentDoc, CurrentTx, Current
  <2> QED
    BY <2>1, <2>2, ControlFlow DEF AppendRow, DocExists, RequestFails, CopyDoc, CopyErrorPage,
       CopyFails, docUnchanged
<1>8. Saved'
  <2>1. ASSUME pc' \in {"open", "write"} PROVE CurrentTx' \in db'
    <3>1. CASE SaveModel
      BY <3>1 DEF SaveModel, local, CurrentTx, Current
    <3>2. CASE OpenCSV
      BY <3>2 DEF OpenCSV, Saved, CurrentTx, Current
    <3>3. CASE Idle
      BY <2>1, <3>3 DEF Idle, Saved, CurrentTx, Current
    <3> QED
      BY <2>1, <3>1, <3>2, <3>3, ControlFlow DEF ReadCSV, Return, Build
  <2>2. base' <= Len(csv.rows')
    <3>1. base \in Nat /\ Len(csv.rows) \in Nat /\ base <= Len(csv.rows)
      BY DEF Saved, TypeOK, HistoryOK, DiskOK
    <3>2. CASE Start
      BY <3>1, <3>2 DEF Start
    <3>3. CASE ~Start /\ AppendRow
      BY <3>1, <3>3, RunFrame, RowWritten
    <3>4. CASE ~Start /\ ~AppendRow
      BY <3>1, <3>4, RunFrame, FileFrame
    <3> QED
      BY <3>2, <3>3, <3>4
  <2> QED
    BY <2>1, <2>2 DEF Saved
<1>9. RowsBackedByDB'
  <2> SUFFICES ASSUME NEW n \in 1..Len(csv.rows'),
                      PersistentDB \/ (pc' # "down" /\ n > base')
               PROVE  csv.rows'[n] \in db'
    BY DEF RowsBackedByDB
  <2>0. base \in Nat /\ Len(csv.rows) \in Nat
    BY DEF TypeOK, HistoryOK, DiskOK
  <2>1. CASE Start
    BY <2>0, <2>1 DEF Start, RowsBackedByDB
  <2>2. CASE AppendRow
    <3>1. db' = db /\ base' = base /\ pc # "down" /\ CurrentTx \in db
      BY <2>2 DEF AppendRow, hist, Saved
    <3>2. CASE n = Len(csv.rows) + 1
      BY <2>2, <3>1, <3>2, RowWritten
    <3>3. CASE n \in 1..Len(csv.rows)
      BY <2>2, <3>1, <3>3, RowWritten DEF RowsBackedByDB
    <3> QED
      BY <2>0, <2>2, <3>2, <3>3, RowWritten
  <2>3. CASE SaveModel
    BY <2>3 DEF SaveModel, hist, RowsBackedByDB
  <2>4. CASE ~Start /\ ~AppendRow /\ ~SaveModel
    BY <2>4, RunFrame, FileFrame DEF RowsBackedByDB
  <2> QED
    BY <2>1, <2>2, <2>3, <2>4
<1> QED
  BY <1>1, <1>2, <1>3, <1>4, <1>5, <1>6, <1>7, <1>8, <1>9

\* The inductive invariant holds in every reachable state.
LEMMA Invariance == Spec => []PipelineInv
<1> QED
  BY InvInit, InvStep, PTL DEF Spec

\* No transaction is ever written to transactions.csv twice, whatever the
\* timeline repeats and wherever runs die.
THEOREM NoDuplicates == Spec => []NoDuplicateRows
<1>1. PipelineInv => NoDuplicateRows
  BY DEF PipelineInv
<1> QED
  BY <1>1, Invariance, PTL

\* No row is ever written below a missing header line.
THEOREM HeaderFirst == Spec => []NoRowWithoutHeader
<1>1. PipelineInv => NoRowWithoutHeader
  BY DEF PipelineInv
<1> QED
  BY <1>1, Invariance, PTL

\* Every row of this run, and with a database file every row, has its record.
THEOREM RecordFirst == Spec => []RowsBackedByDB
<1>1. PipelineInv => RowsBackedByDB
  BY DEF PipelineInv
<1> QED
  BY <1>1, Invariance, PTL

(***************************************************************************)
(* The pipeline implements the ledger.                                     *)
(***************************************************************************)
\* It starts with an empty ledger.
LEMMA LedgerInit == Init => L!LInit
  BY DEF Init, L!LInit, FilesInit

\* Every step is a step of the ledger or leaves it alone.
LEMMA LedgerStep == PipelineInv /\ [Next]_vars => [L!LNext]_<<csv.rows, files>>
<1> SUFFICES ASSUME PipelineInv, [Next]_vars
             PROVE  L!LNext \/ UNCHANGED <<csv.rows, files>>
  OBVIOUS
<1> USE DEF PipelineInv
<1>1. CASE AppendRow
  <2>1. CurrentTx \in Tx /\ CurrentTx \notin Range(csv.rows) /\ files' = files
    BY <1>1, CurrentItem DEF AppendRow, Discovered, Recorded, Rows
  <2>2. csv.rows' = Append(csv.rows, CurrentTx)
    BY <1>1, RowWritten
  <2>3. L!Record(CurrentTx)
    BY <2>1, <2>2 DEF L!Record, L!Range, Range
  <2> QED
    BY <2>1, <2>3 DEF L!LNext
<1>2. CASE CreateDoc
  <2>1. /\ CurrentTx \in Tx /\ CurrentDoc \in Doc /\ CurrentTx \in Range(csv.rows)
        /\ PathOf[CurrentDoc] \notin DOMAIN files /\ csv' = csv
    BY <1>2, CurrentItem DEF CreateDoc, docUnchanged, Filed, Recorded, Rows, Exists
  <2>2. CurrentDoc \in Range(DocsOf[CurrentTx])
    <3>1. DocsOf[CurrentTx] \in Seq(Doc) /\ docIdx \in 1..Len(DocsOf[CurrentTx])
      BY <1>2, CurrentItem DEF CreateDoc, MoreDocs, TypeOK, ControlOK
    <3> QED
      BY <3>1 DEF Range, CurrentDoc
  <2>3. L!Begin(CurrentTx, CurrentDoc)
    <3>1. CreateFile(CurrentDoc)
      BY <1>2 DEF CreateDoc
    <3>2. csv.rows' = csv.rows
      BY <2>1
    <3> QED
      BY <2>1, <2>2, <3>1, <3>2 DEF L!Begin, L!Range, Range, CreateFile
  <2> QED
    BY <2>1, <2>3 DEF L!LNext
<1>3. CASE CopyDoc \/ CopyErrorPage
  <2>1. /\ CurrentDoc \in Doc /\ csv' = csv
        /\ PathOf[CurrentDoc] \in DOMAIN files
        /\ files[PathOf[CurrentDoc]] = [doc |-> CurrentDoc, content |-> "partial"]
    BY <1>3, CurrentItem DEF CopyDoc, CopyErrorPage, docUnchanged, Copying, Exists, TypeOK, ControlOK
  <2>2. L!Settle(CurrentDoc)
    BY <1>3, <2>1 DEF L!Settle, CopyDoc, CopyErrorPage, CopyBody
  <2> QED
    BY <2>1, <2>2 DEF L!LNext
<1>4. CASE OpenCSV
  BY <1>4, FileFrame DEF OpenCSV, AppendRow
<1>5. CASE ~AppendRow /\ ~CreateDoc /\ ~CopyDoc /\ ~CopyErrorPage /\ ~OpenCSV
  BY <1>5, FileFrame, DiskFrame DEF Start, SaveModel, disk
<1> QED
  BY <1>1, <1>2, <1>3, <1>4, <1>5

\* The two files the program leaves behind only ever change as the ledger says.
THEOREM ImplementsLedger == Spec => LedgerSpec
<1> QED
  BY LedgerInit, LedgerStep, Invariance, PTL DEF Spec, LedgerSpec, L!LSpec
=============================================================================
