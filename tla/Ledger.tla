-------------------------------- MODULE Ledger --------------------------------
(***************************************************************************)
(* What the transaction pipeline promises about the two things it leaves   *)
(* behind, transactions.csv and the documents directory, whatever crashes  *)
(* and failures happen while it runs: the ledger only grows, records no    *)
(* transaction twice, and a document file belongs to a recorded            *)
(* transaction, is created once and never changes after it was finished.   *)
(***************************************************************************)
EXTENDS Naturals, Sequences, Functions

CONSTANTS Tx, Doc, PathOf, DocsOf

VARIABLES rows,    \* the transactions recorded, in the order of the file
          files    \* the document files: path -> [doc, content]

LInit == rows = <<>> /\ files = [p \in {} |-> p]

\* A transaction not recorded yet is appended.
Record(t) == /\ t \notin Range(rows)
             /\ rows' = Append(rows, t)
             /\ UNCHANGED files

\* A file that does not exist is created for a document of a recorded transaction.
Begin(t, d) == /\ t \in Range(rows) /\ d \in Range(DocsOf[t])
               /\ PathOf[d] \notin DOMAIN files
               /\ files' = [p \in DOMAIN files \cup {PathOf[d]} |->
                              IF p = PathOf[d] THEN [doc |-> d, content |-> "partial"]
                                               ELSE files[p]]
               /\ UNCHANGED rows

\* An unfinished file is finished, with the document or with an error page.
Settle(d) == /\ PathOf[d] \in DOMAIN files
             /\ files[PathOf[d]] = [doc |-> d, content |-> "partial"]
             /\ \E c \in {"error page", "complete"} :
                  files' = [files EXCEPT ![PathOf[d]] = [doc |-> d, content |-> c]]
             /\ UNCHANGED rows

LNext == \/ \E t \in Tx : Record(t)
         \/ \E t \in Tx, d \in Doc : Begin(t, d)
         \/ \E d \in Doc : Settle(d)

LSpec == LInit /\ [][LNext]_<<rows, files>>
=============================================================================
