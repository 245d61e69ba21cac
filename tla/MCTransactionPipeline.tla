------------------------ MODULE MCTransactionPipeline ------------------------
(***************************************************************************)
(* Instances of TransactionPipeline for TLC: two transactions, the first   *)
(* of them named by two timeline items, and one item without details.      *)
(***************************************************************************)
EXTENDS TransactionPipeline

CONSTANTS t1, t2, d1, d2, d3, p1, p2, p3

MCTx == {t1, t2}
MCDoc == {d1, d2, d3}
MCPath == {p1, p2, p3}
MCTimeline == <<t1, NoDetails, t1, t2>>
MCDocsOf == (t1 :> <<d1, d2>>) @@ (t2 :> <<d3>>)

\* Two documents of one transaction with the same month and title ...
MCSharedPath == (d1 :> p1) @@ (d2 :> p1) @@ (d3 :> p3)
\* ... or every document with a path of its own.
MCOwnPaths == (d1 :> p1) @@ (d2 :> p2) @@ (d3 :> p3)

\* One verdict of each class, per stage: fine, skipped, ends the run.
MCVerdicts == {"nil", "event type unsupported", "normalize failed",
               "insufficient data", "build failed"}
MCAllVerdicts == {"nil"} \cup FetchErrors \cup BuildErrors
MCNil == {"nil"}
=============================================================================
