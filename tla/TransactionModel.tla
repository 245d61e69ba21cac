--------------------------- MODULE TransactionModel ---------------------------
(***************************************************************************)
(* How the v1 program turns the details of one timeline item into a row:   *)
(* the event type and transaction type resolvers                           *)
(* (api/timeline/transactions/type.go, api/timeline/details/type.go), the  *)
(* normaliser (normalizer.go), the builders                                *)
(* (portfolio/transaction/model_builder.go) and the row factory            *)
(* (factory.go).  The result is the verdict TransactionPipeline takes as   *)
(* given, and the amounts of the row.                                      *)
(*                                                                         *)
(* A text is what ParseFloatFromResponse (util.go) makes of it: "number",  *)
(* "no number" (ErrNoMatch; also a text of another JSON type, which        *)
(* decodes to the empty string) or "malformed" (ParseFloat fails, as for   *)
(* 1.234.567).  The bank writes numbers in three formats.  An instrument   *)
(* (portfolio/instrument) is known by the kind its ISIN and its name show. *)
(* Documents and the status are left out.                                  *)
(***************************************************************************)
EXTENDS Integers, Sequences, FiniteSets, FiniteSetsExt

CONSTANTS Statements,  \* what the bank did: security, shares, and cents for price, cost, fee, tax
          MaxBroken    \* bound: parts of one response that are missing or cannot be read

\* A certificate follows an index, whose icon and name it has.
Security == {"fund", "coin", "loan", "share", "certificate", "index"}
StatementType == [security : Security, shares : Nat, price : Nat, cost : Nat, fee : Nat, tax : Nat]

Gross(s) == s.shares * s.price

\* Fee and tax do not exceed the money that moves.
ASSUME ModelAssumption == /\ Statements \subseteq StatementType
                          /\ \A s \in Statements : s.fee + s.tax <= Gross(s)
                          /\ MaxBroken \in Nat

Inbound    == {"PAYMENT_INBOUND", "INCOMING_TRANSFER_DELEGATION",
               "PAYMENT_INBOUND_SEPA_DIRECT_DEBIT"}
Outbound   == {"PAYMENT_OUTBOUND"}
Plans      == {"TRADE_INVOICE", "SAVINGS_PLAN_EXECUTED", "trading_savingsplan_executed",
               "SAVINGS_PLAN_INVOICE_CREATED"}
Interest   == {"INTEREST_PAYOUT_CREATED", "INTEREST_PAYOUT"}
Dividends  == {"CREDIT", "ssp_corporate_action_invoice_cash"}
RoundUps   == {"benefits_spare_change_execution"}
Savebacks  == {"benefits_saveback_execution"}
Order      == "ORDER_EXECUTED"
Supported  == Inbound \cup Outbound \cup Plans \cup Interest \cup Dividends
                \cup RoundUps \cup Savebacks \cup {Order}
Event      == Supported \cup {"card_successful_transaction"}

\* The order type: its text, by the words the detectors look for in it.
OrderText == {"Kauf", "Verkauf", "other", "missing"}
Parts(text) == IF text = "Verkauf" THEN {"Verkauf", "kauf"} ELSE {text}

TableField == {"shares", "rate", "commission", "total", "tax", "yield", "profit"}
Field == TableField \cup {"title"}
Text == [is : {"number", "no number", "malformed", "missing"}, n : Nat, negative : BOOLEAN]
Type == {"Purchase", "Sale", "Dividends", "Round up", "Saveback", "Deposit",
         "Withdrawal", "Interest payout"}

VARIABLES
  stage,      \* the next step of ProcessTransactionResponse
  event, order, header, time, tables,  \* the response: the fields outside its tables
  text,       \* the response: the texts of its fields
  given,      \* the response: what it says of the instrument
  statement,  \* what the bank did, which the response was made from
  type,       \* the type that was resolved
  model,      \* the amounts of the transaction model
  instrument, \* its instrument, which the row takes as it is
  entry,      \* the amounts of the row
  verdict     \* the error, or "nil"; "none" before the end

response == <<event, order, header, time, tables, text, given, statement>>
vars == <<stage, response, type, model, instrument, entry, verdict>>

(***************************************************************************)
(* Numbers.  What is left of a written number: the digits before the       *)
(* comma as one number, how many points are between them, how many digits  *)
(* follow the last point, how many follow the comma, and these as a number.*)
(* Money is counted in cents, so its Unit is 100.                          *)
(***************************************************************************)
Abs(n) == IF n < 0 THEN -n ELSE n
Read(n) == [is |-> "number", n |-> n, negative |-> FALSE]
Broken(c) == [is |-> c, n |-> 0, negative |-> FALSE]

Power(d) == CASE d = 0 -> 1 [] d = 1 -> 10 [] d = 2 -> 100 [] OTHER -> 1000
Unit(f) == IF f = "shares" THEN 1 ELSE 100
AsIs(w, unit) == CASE w.points = 0 -> Read(w.whole * unit)
                   [] w.points = 1 -> Read((w.whole * unit) \div Power(w.after))
                   [] OTHER -> Broken("malformed")
WithDecimals(w, unit) ==
  Read(((w.whole * Power(w.decimals) + w.fraction) * unit) \div Power(w.decimals))

\* Mutant: the points that separate thousands are left in.
ParseWithPoints(w, unit) == IF w.decimals = 0 THEN AsIs(w, unit)
                            ELSE IF w.points = 0 THEN WithDecimals(w, unit)
                            ELSE Broken("malformed")
\* ParseFloatFromResponse: with decimals behind a comma the points go, and without
\* them ParseFloat takes the number as it is: one point is the decimal point.
ParseFloatFromResponse(w, unit) == IF w.decimals = 0 THEN AsIs(w, unit)
                                   ELSE WithDecimals(w, unit)

\* 1.799,97: points between the thousands, the cents behind a comma.
German(n) == [whole |-> n \div 100, points |-> IF n < 100000 THEN 0 ELSE IF n < 100000000 THEN 1 ELSE 2,
              after |-> 3, decimals |-> 2, fraction |-> n % 100]
\* 1799.97: the cents behind the only point.
Pointed(n) == [whole |-> n, points |-> 1, after |-> 2, decimals |-> 0, fraction |-> 0]
\* 1,799.97: below a thousand as above, else the number that is found ends at the point.
Grouped(n) == n >= 100000
English(n) == IF Grouped(n) THEN [whole |-> n \div 100000, points |-> 0, after |-> 0,
                                  decimals |-> 3, fraction |-> (n \div 100) % 1000]
                            ELSE Pointed(n)
Whole(n) == [whole |-> n, points |-> 0, after |-> 0, decimals |-> 0, fraction |-> 0]

Written(e, f, n) == CASE f = "shares" -> Whole(n)
                      [] f # "shares" /\ e = "INTEREST_PAYOUT" -> English(n)
                      [] f # "shares" /\ e = "trading_savingsplan_executed" -> Pointed(n)
                      [] OTHER -> German(n)
\* The number n as field f of event e; a trend gives the sign.
Number(e, f, n) == [ParseFloatFromResponse(Written(e, f, Abs(n)), Unit(f)) EXCEPT !.negative = (n < 0)]

(***************************************************************************)
(* What the bank writes (external).  The total of a purchase holds the     *)
(* fee; that of a sale is net of fee and tax.  A fee of zero is a word.    *)
(* The timeline title of a payment states the total.                       *)
(***************************************************************************)
Buys(e, o) == e \in Plans \cup RoundUps \cup Savebacks \/ (e = Order /\ o = "Kauf")
TotalOf(e, o, s) == IF Buys(e, o) THEN Gross(s) + s.fee ELSE Gross(s) - s.fee - s.tax
Gain(s) == s.shares * (s.price - s.cost)
Stated(e, o, s) ==
  [f \in Field |->
     CASE f = "shares" -> Number(e, f, s.shares)
       [] f = "rate" -> Number(e, f, s.price)
       [] f = "commission" -> IF s.fee = 0 THEN Broken("no number") ELSE Number(e, f, s.fee)
       [] f \in {"total", "title"} -> Number(e, f, TotalOf(e, o, s))
       [] f = "tax" -> Number(e, f, s.tax)
       [] f \in {"yield", "profit"} -> Number(e, f, Gain(s))]

\* The header of a trade names the security and shows its icon; a gift and a dividend
\* have the icon only, and money that is paid neither.
Payment(e) == e \in Inbound \cup Outbound \cup Interest
Underlying(k) == IF k = "certificate" THEN "index" ELSE k
Named(k) == IF k = "fund" THEN "ends in (Dist) or (Acc)" ELSE "other"
Given(e, k) ==
  IF Payment(e) THEN [payload |-> "none", icon |-> "none",
                      name |-> IF e = "INTEREST_PAYOUT" THEN "Cash" ELSE ""]
  ELSE [payload |-> IF e \in Savebacks \cup Dividends THEN "none" ELSE k,
        icon |-> Underlying(k), name |-> Named(k)]
\* g with some parts missing.
Without(off, g) == [payload |-> IF "payload" \in off THEN "none" ELSE g.payload,
                    icon |-> IF "icon" \in off THEN "none" ELSE g.icon,
                    name |-> IF "name" \in off THEN "" ELSE g.name]

\* A title that is not there is the empty text.
Breaks == {b \in UNION {[F -> {"no number", "malformed", "missing"}] :
                          F \in {G \in SUBSET Field : Cardinality(G) <= MaxBroken}} :
             "title" \in DOMAIN b => b["title"] # "missing"}

NoAmounts == [f \in Field |-> 0]
NoInstrument == [isin |-> "none", asset |-> "none"]
NoEntry == [shares |-> 0, profit |-> 0, commission |-> 0, debit |-> 0, credit |-> 0,
            tax |-> 0, invested |-> 0]

Init == /\ stage = "event" /\ verdict = "none" /\ type = "none"
        /\ event \in Event
        /\ order \in IF event = Order THEN OrderText ELSE {"missing"}
        /\ statement \in Statements
        /\ \E b \in Breaks, off \in SUBSET {"header", "time", "tables", "payload", "icon", "name"} :
             /\ Cardinality(off) + Cardinality(DOMAIN b) <= MaxBroken
             /\ header = ("header" \notin off) /\ time = ("time" \notin off)
             /\ tables = ("tables" \notin off)
             /\ given = Without(off, Given(event, statement.security))
             /\ text = [f \in Field |-> IF f \in DOMAIN b THEN Broken(b[f])
                                        ELSE Stated(event, order, statement)[f]]
        /\ model = NoAmounts /\ instrument = NoInstrument /\ entry = NoEntry

End(v) == stage' = "done" /\ verdict' = v

(***************************************************************************)
(* The steps of ProcessTransactionResponse.                                *)
(***************************************************************************)
ResolveEvent == /\ stage = "event"
                /\ IF event \in Supported THEN stage' = "normalize" /\ UNCHANGED verdict
                                          ELSE End("event type unsupported")
                /\ UNCHANGED <<response, type, model, instrument, entry>>

\* Without a readable header the response fails; without table sections each of
\* their fields is missing, which is only logged.
Normalize == /\ stage = "normalize"
             /\ IF header THEN stage' = "type" /\ UNCHANGED verdict
                          ELSE End("normalize failed")
             /\ text' = IF tables THEN text
                        ELSE [f \in Field |-> IF f \in TableField THEN Broken("missing") ELSE text[f]]
             /\ order' = IF tables THEN order ELSE "missing"
             /\ given' = IF tables THEN given ELSE Without({"name"}, given)
             /\ UNCHANGED <<event, header, time, tables, statement, type, model, instrument, entry>>

\* Mutant: the case of the text does not matter.
ContainsAnyCase(t, word) == word \in Parts(t) \/ (word = "Kauf" /\ "kauf" \in Parts(t))
Contains(t, word) == word \in Parts(t)

Detects(t) ==
  CASE t = "Purchase"        -> event \in Plans \/ (event = Order /\ Contains(order, "Kauf"))
    [] t = "Sale"            -> event = Order /\ Contains(order, "Verkauf")
    [] t = "Round up"        -> event \in RoundUps
    [] t = "Saveback"        -> event \in Savebacks
    [] t = "Deposit"         -> event \in Inbound
    [] t = "Withdrawal"      -> event \in Outbound
    [] t = "Interest payout" -> event \in Interest
    [] t = "Dividends"       -> event \in Dividends
Detected == {t \in Type : Detects(t)}

ResolveTypeUnchecked == /\ stage = "type"  \* mutant: the resolver's error is ignored
                        /\ type' \in Detected \/ (Detected = {} /\ UNCHANGED type)
                        /\ stage' = "build"
                        /\ UNCHANGED <<response, model, instrument, entry, verdict>>
\* The detectors are in a map: any one that accepts the response may come first.
ResolveType == /\ stage = "type"
               /\ IF Detected = {} THEN End("type unsupported") /\ UNCHANGED type
                                   ELSE type' \in Detected /\ stage' = "build" /\ UNCHANGED verdict
               /\ UNCHANGED <<response, model, instrument, entry>>

(***************************************************************************)
(* The builders: the fields a type takes, in the order they are read.  The *)
(* first one that fails decides on the error.                              *)
(***************************************************************************)
PurchaseFields == <<"time", "shares", "rate", "commission", "total">>
Fields(t) == CASE t \in {"Deposit", "Withdrawal"} -> <<"time", "title">>
               [] t = "Interest payout" -> <<"time", "total or title">>
               [] t = "Sale" -> PurchaseFields \o <<"yield", "profit">>
               [] OTHER -> PurchaseFields

Reads(f) == text[f].is = "number"

FailsExceptTotal(f) ==  \* mutant: a total without number counts as zero
  CASE f = "time" -> ~time
    [] f \in {"commission", "total"} -> text[f].is = "malformed"
    [] f = "total or title" -> FALSE
    [] OTHER -> ~Reads(f)
Fails(f) == CASE f = "time" -> ~time
              [] f = "commission" -> text[f].is = "malformed"
              [] f = "total or title" -> ~Reads("total") /\ ~Reads("title")
              [] OTHER -> ~Reads(f)

\* HandleErr: a missing row is insufficient data.  The header's time and title are
\* not rows.
ErrorUnhandled(f) == "build failed"  \* mutant: HandleErr is not called
Error(f) == IF f \in TableField /\ text[f].is = "missing" THEN "insufficient data"
                                                          ELSE "build failed"

Failing(t) == {k \in DOMAIN Fields(t) : Fails(Fields(t)[k])}

\* A negative trend makes a rate, commission, total, yield or profit negative; the
\* shares, the tax and the title have none.
Value(f) == IF ~Reads(f) THEN 0
            ELSE IF text[f].negative /\ f \notin {"shares", "tax", "title"} THEN -text[f].n
            ELSE text[f].n

Taken(t) ==
  CASE t \in {"Deposit", "Withdrawal"} -> {"title"}
    [] t = "Interest payout" -> {"tax", IF Reads("total") THEN "total" ELSE "title"}
    [] t = "Sale" -> {"shares", "rate", "commission", "total", "tax", "yield", "profit"}
    [] OTHER -> {"shares", "rate", "commission", "total"}

\* The title of a payment becomes the total of the model.
Built(t) == [f \in Field |-> CASE f = "total" /\ "title" \in Taken(t) -> Value("title")
                              [] f \in Taken(t) \ {"title"} -> Value(f)
                              [] OTHER -> 0]

\* The ISIN is the header's payload, else what the icon shows; both may be missing.
ISINByIcon(g) == IF g.icon # "none" THEN g.icon ELSE g.payload  \* mutant: the icon first
ISIN(g) == IF g.payload # "none" THEN g.payload ELSE g.icon
Resolve(name, isin) == CASE name \in {"", "Cash"} -> "Cash"
                         [] name = Named("fund") -> "ETF"
                         [] name = "other" /\ isin = "coin" -> "Cryptocurrency"
                         [] name = "other" /\ isin = "loan" -> "Lending"
                         [] OTHER -> "Other"
Instrument(g) == [isin |-> ISIN(g), asset |-> Resolve(g.name, ISIN(g))]

Build == /\ stage = "build"
         /\ IF Failing(type) # {}
              THEN End(Error(Fields(type)[Min(Failing(type))])) /\ UNCHANGED <<model, instrument>>
              ELSE /\ stage' = "make" /\ UNCHANGED verdict
                   /\ model' = Built(type) /\ instrument' = Instrument(given)
         /\ UNCHANGED <<response, type, entry>>

(***************************************************************************)
(* The row.                                                                *)
(***************************************************************************)
DebitedSaveback(t) == t \in {"Purchase", "Round up", "Withdrawal", "Saveback"}  \* mutant
Debited(t) == t \in {"Purchase", "Round up", "Withdrawal"}

InvestedLessFee(t, m) ==  \* mutant: the fee is taken off both times
  CASE t = "Purchase" -> m["total"] - m["commission"]
    [] t = "Sale" -> -(m["total"] - m["profit"] - m["commission"])
    [] OTHER -> 0
Invested(t, m) == CASE t = "Purchase" -> m["total"] - m["commission"]
                    [] t = "Sale" -> -(m["total"] - m["profit"] + m["commission"])
                    [] OTHER -> 0

Row(t, m) ==
  [shares |-> IF t = "Sale" THEN -m["shares"] ELSE m["shares"],
   profit |-> IF t = "Dividends" THEN m["total"] ELSE m["profit"],
   commission |-> m["commission"],
   debit |-> IF Debited(t) THEN m["total"] ELSE 0,
   credit |-> IF Debited(t) THEN 0 ELSE m["total"],
   tax |-> IF t \in {"Sale", "Saveback", "Deposit", "Interest payout"} THEN m["tax"] ELSE 0,
   invested |-> Invested(t, m)]

Make == /\ stage = "make"
        /\ entry' = Row(type, model)
        /\ End("nil")
        /\ UNCHANGED <<response, type, model, instrument>>

Next == ResolveEvent \/ Normalize \/ ResolveType \/ Build \/ Make

Spec == Init /\ [][Next]_vars

(***************************************************************************)
(* Properties.                                                             *)
(***************************************************************************)
Stages == {"event", "normalize", "type", "build", "make", "done"}
Aborting == {"normalize failed", "build failed"}
Asset == {"ETF", "Cryptocurrency", "Lending", "Other", "Cash", "none"}
GivenType == [payload : Security \cup {"none"}, icon : Security \cup {"none"},
              name : {"", "Cash", "other", Named("fund")}]
Verdict == {"nil", "event type unsupported", "type unsupported", "insufficient data"} \cup Aborting

\* Every variable has its type, a type is resolved before anything is built, and only a
\* response without error has a row.
TypeOK == /\ stage \in Stages /\ verdict \in Verdict \cup {"none"}
          /\ (stage = "done") = (verdict # "none")
          /\ event \in Event /\ order \in OrderText
          /\ {header, time, tables} \subseteq BOOLEAN
          /\ text \in [Field -> Text] /\ statement \in Statements
          /\ type \in Type \cup {"none"}
          /\ stage \in {"build", "make"} => type \in Type
          /\ given \in GivenType /\ instrument \in [isin : Security \cup {"none"}, asset : Asset]
          /\ model \in [Field -> Int] /\ entry \in [DOMAIN NoEntry -> Int]
          /\ entry # NoEntry => verdict = "nil"

\* The order in which Go walks the map of detectors does not matter: no response is
\* accepted by two of them.  That is why an item has one verdict in all runs.
TypeIsUnique == Cardinality(Detected) <= 1

\* The row moves the money the way the bank did: what a purchase, a round-up or a
\* payment out took is debited, what anything else brought is credited, for each event
\* type and order type, whichever field and format the amount was read from.  Only an
\* amount of an interest payout with a comma between its thousands is read wrong.
MoneyOut == event \in Outbound \/ (Buys(event, order) /\ event \notin Savebacks)
Understood == event # "INTEREST_PAYOUT" \/ ~Grouped(TotalOf(event, order, statement))
BooksMoney ==
  verdict = "nil" /\ Understood =>
    /\ entry.debit = 0 \/ entry.credit = 0
    /\ entry.credit - entry.debit =
         IF MoneyOut THEN -TotalOf(event, order, statement) ELSE TotalOf(event, order, statement)

\* A purchase invests what the shares cost without the fee; a sale takes back what they
\* had cost, less the tax, since its total is net of the tax and the tax is not added.
AllRead == \A f \in Field \ {"commission"} : Reads(f)
InvestedIsCost ==
  verdict = "nil" /\ AllRead /\ text["commission"] = Stated(event, order, statement)["commission"] =>
    /\ type = "Purchase" => entry.invested = Gross(statement)
    /\ type = "Sale" =>
         entry.invested = -(statement.shares * statement.cost - statement.tax)

\* Rows that are missing from a response never end the run: the item is skipped.  Only a
\* header, a time or a number that cannot be read does, and that number is none the bank
\* writes, in any of its formats.
MissingNeverAborts ==
  verdict \in Aborting =>
    \/ ~header \/ ~time
    \/ \E f \in Field : /\ text[f].is \in {"no number", "malformed"}
                        /\ text[f] # Stated(event, order, statement)[f]

\* A payment has no security.  A trade names no other security and asset type than its
\* own: only without the payload may an index stand for a certificate, and only without
\* the name a security for cash.
AssetOf(k) == CASE k = "fund" -> "ETF" [] k = "coin" -> "Cryptocurrency"
                [] k = "loan" -> "Lending" [] OTHER -> "Other"
SecurityIsTraded ==
  IF Payment(event) THEN instrument = [isin |-> "none", asset |-> "Cash"]
  ELSE /\ \/ instrument.isin \in {"none", statement.security}
          \/ instrument.isin = Underlying(statement.security) /\ given.payload = "none"
       /\ given.name # "" /\ instrument.isin # "none" =>
            instrument.asset = AssetOf(statement.security)

\* Nothing in a row is made up.  No amount is a zero that stands for a text that was not
\* understood: the total, and the shares and the rate of a trade, were read.  Its
\* instrument is that of the trade.
NothingInvented ==
  verdict = "nil" =>
    /\ Reads("total") \/ Reads("title")
    /\ type \notin {"Deposit", "Withdrawal", "Interest payout"} =>
         Reads("total") /\ Reads("shares") /\ Reads("rate")
    /\ SecurityIsTraded
=============================================================================
