-------------------------- MODULE MCTransactionModel --------------------------
(***************************************************************************)
(* An instance of TransactionModel for TLC: a gain and a loss, with and    *)
(* without fee and tax, amounts above a thousand, five kinds of securities *)
(* and up to two broken parts.                                             *)
(***************************************************************************)
EXTENDS TransactionModel

SecurityOf(f, t) == IF f = 0 THEN IF t = 0 THEN "fund" ELSE "coin"
                            ELSE IF t = 0 THEN "loan" ELSE "certificate"
MCStatements ==
  {[security |-> SecurityOf(f, t), shares |-> 3, price |-> p, cost |-> 40, fee |-> f, tax |-> t] :
     p \in {30, 50}, f \in {0, 1}, t \in {0, 2}}
    \cup {[security |-> "share", shares |-> 3, price |-> 60030, cost |-> 40, fee |-> 1, tax |-> 2]}
=============================================================================
