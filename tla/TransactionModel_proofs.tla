----------------------- MODULE TransactionModel_proofs ------------------------
(***************************************************************************)
(* Proofs about TransactionModel, for every set of statements and any      *)
(* number of broken parts.  ModelInv adds to the type invariant where the  *)
(* texts, the type, the model and the entry come from; the properties are  *)
(* read off from it once the response is done.                             *)
(***************************************************************************)
EXTENDS TransactionModel, FiniteSetTheorems, SequenceTheorems, TLAPS

\* A text that was read is what the bank stated.  Only the title of an order is not
\* followed: when the tables are lost, so is the order type it depends on.
Faithful == /\ \A f \in Field : Reads(f) /\ (f = "title" => event # Order) =>
                                   text[f] = Stated(event, order, statement)[f]
            /\ text["title"].is # "missing"

\* The type is one that was detected, once there is one.
Resolved == /\ stage \in {"event", "normalize", "type"} => type = "none"
            /\ type # "none" => type \in Detected

\* The model and the row hold what was built from the texts.
Complete == stage = "make" \/ verdict = "nil" =>
               type \in Type /\ Failing(type) = {} /\ model = Built(type)
Entered == verdict = "nil" => entry = Row(type, model)

\* What is given of the instrument is what the bank gives, some of it missing, and the
\* instrument of a model that was built is made of it.
GivenByBank == \E off \in SUBSET {"payload", "icon", "name"} :
                 given = Without(off, Given(event, statement.security))
Instrumented == stage = "make" \/ verdict = "nil" => instrument = Instrument(given)

ModelInv == /\ TypeOK /\ Faithful /\ Resolved /\ Complete /\ Entered /\ MissingNeverAborts
            /\ GivenByBank /\ Instrumented

(***************************************************************************)
(* The bank's numbers.                                                     *)
(***************************************************************************)
\* Amounts in cents: none but the gain is negative.
LEMMA Amounts ==
  ASSUME NEW s \in Statements
  PROVE  /\ {s.shares, s.price, s.cost, s.fee, s.tax, Gross(s)} \subseteq Nat
         /\ s.fee + s.tax <= Gross(s) /\ Gain(s) \in Int
<1>1. s \in StatementType /\ s.fee + s.tax <= Gross(s)
  BY ModelAssumption
<1>2. {s.shares, s.price, s.cost, s.fee, s.tax} \subseteq Nat
  BY <1>1 DEF StatementType
<1>3. Gross(s) \in Nat /\ Gain(s) \in Int
  BY <1>2 DEF Gross, Gain
<1> QED
  BY <1>1, <1>2, <1>3

LEMMA TotalType ==
  ASSUME NEW s \in Statements, NEW e, NEW o
  PROVE  TotalOf(e, o, s) \in Nat
<1>1. s.fee \in Nat /\ s.tax \in Nat /\ Gross(s) \in Nat /\ s.fee + s.tax <= Gross(s)
  BY Amounts
<1> QED
  BY <1>1 DEF TotalOf

\* Each format gives the number back that was written in it, to the cent.
LEMMA GermanIsRead ==
  ASSUME NEW n \in Nat
  PROVE  ParseFloatFromResponse(German(n), 100) = Read(n)
<1>1. /\ German(n).whole = n \div 100 /\ German(n).decimals = 2 /\ German(n).fraction = n % 100
  BY DEF German
<1>2. ParseFloatFromResponse(German(n), 100)
        = Read((((n \div 100) * 100 + (n % 100)) * 100) \div 100)
  BY <1>1 DEF ParseFloatFromResponse, WithDecimals, Power
<1>3. (n \div 100) * 100 + (n % 100) = n /\ (n * 100) \div 100 = n
  OBVIOUS
<1> QED
  BY <1>2, <1>3

LEMMA PointedIsRead ==
  ASSUME NEW n \in Nat
  PROVE  ParseFloatFromResponse(Pointed(n), 100) = Read(n)
<1>1. ParseFloatFromResponse(Pointed(n), 100) = Read((n * 100) \div 100)
  BY DEF ParseFloatFromResponse, Pointed, AsIs, Power
<1>2. (n * 100) \div 100 = n
  OBVIOUS
<1> QED
  BY <1>1, <1>2

LEMMA WholeIsRead ==
  ASSUME NEW n \in Nat
  PROVE  ParseFloatFromResponse(Whole(n), 1) = Read(n)
<1>1. ParseFloatFromResponse(Whole(n), 1) = Read(n * 1)
  BY DEF ParseFloatFromResponse, Whole, AsIs
<1> QED
  BY <1>1

\* Above a thousand the English format is read as some other number.
LEMMA EnglishIsRead ==
  ASSUME NEW n \in Nat
  PROVE  /\ ~Grouped(n) => ParseFloatFromResponse(English(n), 100) = Read(n)
         /\ \E k \in Nat : ParseFloatFromResponse(English(n), 100) = Read(k)
<1>1. CASE ~Grouped(n)
  BY <1>1, PointedIsRead DEF English
<1>2. CASE Grouped(n)
  <2> DEFINE k == (((n \div 100000) * 1000 + ((n \div 100) % 1000)) * 100) \div 1000
  <2>1. English(n) = [whole |-> n \div 100000, points |-> 0, after |-> 0,
                      decimals |-> 3, fraction |-> (n \div 100) % 1000]
    BY <1>2 DEF English
  <2>2. ParseFloatFromResponse(English(n), 100) = Read(k)
    BY <2>1 DEF ParseFloatFromResponse, WithDecimals, Power
  <2>3. k \in Nat
    OBVIOUS
  <2> QED
    BY <1>2, <2>2, <2>3
<1> QED
  BY <1>1, <1>2

\* Every number the bank writes is read as that number, unless it is an interest payout
\* with a comma between its thousands (util.go).
THEOREM WrittenIsRead ==
  ASSUME NEW e, NEW f, NEW n \in Nat
  PROVE  /\ \E k \in Nat : ParseFloatFromResponse(Written(e, f, n), Unit(f)) = Read(k)
         /\ e # "INTEREST_PAYOUT" \/ ~Grouped(n) =>
              ParseFloatFromResponse(Written(e, f, n), Unit(f)) = Read(n)
<1>1. CASE f = "shares"
  <2>1. Written(e, f, n) = Whole(n) /\ Unit(f) = 1
    BY <1>1 DEF Written, Unit
  <2> QED
    BY <2>1, WholeIsRead
<1>2. CASE f # "shares"
  <2>1. Unit(f) = 100
    BY <1>2 DEF Unit
  <2>2. \/ Written(e, f, n) = English(n) /\ e = "INTEREST_PAYOUT"
        \/ Written(e, f, n) \in {Pointed(n), German(n)}
    BY <1>2 DEF Written
  <2> QED
    BY <2>1, <2>2, EnglishIsRead, PointedIsRead, GermanIsRead
<1> QED
  BY <1>1, <1>2

\* Sign and amount of a text the bank writes give the number back, unless there is a
\* comma between its thousands.
LEMMA NumberType ==
  ASSUME NEW e, NEW f, NEW n \in Int
  PROVE  /\ Number(e, f, n) \in Text
         /\ Number(e, f, n).is = "number"
         /\ e # "INTEREST_PAYOUT" \/ ~Grouped(Abs(n)) =>
              /\ (IF Number(e, f, n).negative THEN -Number(e, f, n).n ELSE Number(e, f, n).n) = n
              /\ n >= 0 => Number(e, f, n).n = n
<1>1. Abs(n) \in Nat
  BY DEF Abs
<1>2. PICK k \in Nat : ParseFloatFromResponse(Written(e, f, Abs(n)), Unit(f)) = Read(k)
  BY <1>1, WrittenIsRead
<1>3. e # "INTEREST_PAYOUT" \/ ~Grouped(Abs(n)) => Read(k) = Read(Abs(n))
  BY <1>1, <1>2, WrittenIsRead
<1>4. e # "INTEREST_PAYOUT" \/ ~Grouped(Abs(n)) => k = Abs(n)
  BY <1>3 DEF Read
<1>5. Number(e, f, n) = [Read(k) EXCEPT !.negative = (n < 0)]
  BY <1>2, Zenon DEF Number
<1>6. CASE n < 0
  <2>1. (n < 0) = TRUE /\ Abs(n) = -n
    BY <1>6 DEF Abs
  <2>2. Number(e, f, n) = [Read(k) EXCEPT !.negative = TRUE]
    BY <1>5, <2>1, Zenon
  <2>3. Number(e, f, n) = [is |-> "number", n |-> k, negative |-> TRUE]
    BY <2>2 DEF Read
  <2>4. k = Abs(n) => -k = n
    BY <2>1
  <2>5. Number(e, f, n) \in Text
    BY <2>3 DEF Text
  <2> QED
    BY <1>4, <1>6, <2>3, <2>4, <2>5
<1>7. CASE ~(n < 0)
  <2>1. (n < 0) = FALSE /\ Abs(n) = n
    BY <1>7 DEF Abs
  <2>2. Number(e, f, n) = [Read(k) EXCEPT !.negative = FALSE]
    BY <1>5, <2>1, Zenon
  <2> QED
    BY <1>4, <1>7, <2>1, <2>2 DEF Text, Read
<1> QED
  BY <1>6, <1>7

LEMMA BrokenType ==
  ASSUME NEW c \in {"no number", "malformed", "missing"}
  PROVE  Broken(c) \in Text /\ Broken(c).is = c
  BY DEF Broken, Text

LEMMA StatedType ==
  ASSUME NEW s \in Statements, NEW e, NEW o
  PROVE  /\ Stated(e, o, s) \in [Field -> Text]
         /\ Stated(e, o, s)["title"].is # "missing"
<1>1. s.shares \in Int /\ s.price \in Int /\ s.fee \in Int /\ s.tax \in Int
      /\ Gain(s) \in Int /\ TotalOf(e, o, s) \in Int
  BY Amounts, TotalType
<1>2. \A f \in Field : Stated(e, o, s)[f] \in Text
  BY <1>1, NumberType, BrokenType DEF Stated, Field, TableField
<1>3. Stated(e, o, s)["title"] = Number(e, "title", TotalOf(e, o, s))
  BY DEF Stated, Field, TableField
<1>4. Number(e, "title", TotalOf(e, o, s)).is = "number"
  BY <1>1, NumberType
<1>5. Stated(e, o, s) \in [Field -> Text]
  BY <1>2 DEF Stated
<1> QED
  BY <1>3, <1>4, <1>5

\* The bank states numbers, and at most for the commission a word.
LEMMA StatedIs ==
  ASSUME NEW s \in Statements, NEW e, NEW o, NEW f \in Field
  PROVE  /\ f # "commission" => Stated(e, o, s)[f].is = "number"
         /\ Stated(e, o, s)[f].is # "malformed"
<1>1. s.shares \in Int /\ s.price \in Int /\ s.fee \in Int /\ s.tax \in Int
      /\ Gain(s) \in Int /\ TotalOf(e, o, s) \in Int
  BY Amounts, TotalType
<1>2. \/ Stated(e, o, s)[f] = Broken("no number") /\ f = "commission"
      \/ \E n \in Int : Stated(e, o, s)[f] = Number(e, f, n)
  BY <1>1 DEF Stated, Field, TableField
<1>3. \A n \in Int : Number(e, f, n).is = "number"
  BY NumberType
<1> QED
  BY <1>2, <1>3, BrokenType

(***************************************************************************)
(* One response is accepted by one detector.                               *)
(***************************************************************************)
\* The event types of two detectors have nothing in common, and no order text holds
\* both words.
LEMMA DetectedAgree ==
  ASSUME order \in OrderText, NEW t \in Detected, NEW u \in Detected
  PROVE  t = u
<1>1. t \in Type /\ u \in Type /\ Detects(t) /\ Detects(u)
  BY DEF Detected
<1>2. ~(Contains(order, "Kauf") /\ Contains(order, "Verkauf"))
  BY DEF Contains, Parts, OrderText
<1> QED
  BY <1>1, <1>2 DEF Detects, Type, Plans, RoundUps, Savebacks, Inbound, Outbound,
                    Interest, Dividends, Order

LEMMA UniqueIfTyped ==
  ASSUME TypeOK
  PROVE  TypeIsUnique
<1>1. order \in OrderText
  BY DEF TypeOK
<1>2. CASE Detected = {}
  <2>1. Cardinality(Detected) = 0
    BY <1>2, FS_EmptySet
  <2> QED
    BY <2>1 DEF TypeIsUnique
<1>3. CASE Detected # {}
  <2>1. PICK t : t \in Detected
    BY <1>3
  <2>2. Detected = {t}
    BY <1>1, <2>1, DetectedAgree
  <2>3. Cardinality(Detected) = 1
    BY <2>2, FS_Singleton
  <2> QED
    BY <2>3 DEF TypeIsUnique
<1> QED
  BY <1>2, <1>3

(***************************************************************************)
(* The instrument.                                                         *)
(***************************************************************************)
LEMMA GivenTyped ==
  ASSUME NEW s \in Statements, NEW e, NEW off, NEW more
  PROVE  /\ Without(off, Given(e, s.security)) \in GivenType
         /\ Without(more, Without(off, Given(e, s.security)))
              = Without(off \cup more, Given(e, s.security))
<1>1. s.security \in Security
  BY ModelAssumption DEF StatementType
<1>2. Given(e, s.security) \in GivenType
  BY <1>1 DEF Given, GivenType, Underlying, Security, Named
<1>3. ASSUME NEW g \in GivenType, NEW o
      PROVE  Without(o, g) \in GivenType
  BY DEF GivenType, Without
<1>4. ASSUME NEW g \in GivenType
      PROVE  Without(more, Without(off, g)) = Without(off \cup more, g)
  BY DEF Without
<1> QED
  BY <1>2, <1>3, <1>4

LEMMA InstrumentType ==
  ASSUME NEW g \in GivenType
  PROVE  Instrument(g) \in [isin : Security \cup {"none"}, asset : Asset]
<1>1. ISIN(g) \in Security \cup {"none"}
  BY DEF ISIN, GivenType
<1>2. Resolve(g.name, ISIN(g)) \in Asset
  BY DEF Resolve, Asset
<1> QED
  BY <1>1, <1>2 DEF Instrument

\* Made of what the bank gives, an instrument is that of the trade.
LEMMA TradedIfGiven ==
  ASSUME statement \in Statements, GivenByBank, instrument = Instrument(given)
  PROVE  SecurityIsTraded
<1> DEFINE k == statement.security
<1>1. k \in Security
  BY ModelAssumption DEF StatementType
<1>2. PICK off : given = Without(off, Given(event, k))
  BY DEF GivenByBank
<1>3. instrument.isin = ISIN(given) /\ instrument.asset = Resolve(given.name, ISIN(given))
  BY DEF Instrument
<1>4. CASE Payment(event)
  <2>1. given.payload = "none" /\ given.icon = "none" /\ given.name \in {"", "Cash"}
    BY <1>2, <1>4 DEF Given, Without
  <2>2. ISIN(given) = "none"
    BY <2>1 DEF ISIN
  <2>3. Resolve(given.name, ISIN(given)) = "Cash"
    BY <2>1 DEF Resolve, Named
  <2> QED
    BY <1>4, <2>2, <2>3 DEF Instrument, SecurityIsTraded
<1>5. CASE ~Payment(event)
  <2>1. /\ given.payload \in {"none", k}
        /\ given.icon \in {"none", Underlying(k)}
        /\ given.name \in {"", Named(k)}
    BY <1>2, <1>5 DEF Given, Without
  <2>2. \/ instrument.isin \in {"none", k}
        \/ instrument.isin = Underlying(k) /\ given.payload = "none"
    BY <1>3, <2>1 DEF ISIN
  <2>3. ASSUME given.name # "", instrument.isin # "none"
        PROVE  instrument.asset = AssetOf(k)
    <3>1. given.name = Named(k) /\ instrument.isin \in {k, Underlying(k)}
      BY <2>1, <2>2, <2>3
    <3> QED
      BY <1>1, <1>3, <3>1 DEF Resolve, Named, AssetOf, Underlying, Security
  <2> QED
    BY <1>5, <2>2, <2>3 DEF SecurityIsTraded
<1> QED
  BY <1>4, <1>5

(***************************************************************************)
(* The first response.                                                     *)
(***************************************************************************)
LEMMA InitInv == Init => ModelInv
<1> SUFFICES ASSUME Init PROVE ModelInv
  OBVIOUS
<1>1. /\ stage = "event" /\ verdict = "none" /\ type = "none"
      /\ model = NoAmounts /\ instrument = NoInstrument /\ entry = NoEntry
  BY DEF Init
<1>2. event \in Event /\ order \in OrderText /\ statement \in Statements
  BY DEF Init, OrderText
<1>3. PICK b \in Breaks, off \in SUBSET {"header", "time", "tables", "payload", "icon", "name"} :
        /\ given = Without(off, Given(event, statement.security))
        /\ {header, time, tables} \subseteq BOOLEAN
        /\ text = [f \in Field |-> IF f \in DOMAIN b THEN Broken(b[f])
                                   ELSE Stated(event, order, statement)[f]]
  BY DEF Init
<1>4. /\ \A f \in DOMAIN b : b[f] \in {"no number", "malformed", "missing"}
      /\ "title" \in DOMAIN b => b["title"] # "missing"
  BY <1>3 DEF Breaks
<1>5. \A f \in Field : \/ text[f] = Stated(event, order, statement)[f]
                       \/ f \in DOMAIN b /\ text[f] = Broken(b[f])
  BY <1>3
<1>6. text \in [Field -> Text]
  <2>1. text = [f \in Field |-> IF f \in DOMAIN b THEN Broken(b[f])
                               ELSE Stated(event, order, statement)[f]]
    BY <1>3
  <2>2. ASSUME NEW f \in Field PROVE text[f] \in Text
    <3>1. Stated(event, order, statement)[f] \in Text
      BY <1>2, StatedType
    <3>2. f \in DOMAIN b => Broken(b[f]) \in Text
      BY <1>4, BrokenType
    <3> QED
      BY <1>5, <3>1, <3>2
  <2> QED
    BY <2>1, <2>2
<1>7. Faithful
  <2>1. \A f \in Field : Reads(f) => text[f] = Stated(event, order, statement)[f]
    BY <1>4, <1>5, BrokenType DEF Reads
  <2>2. text["title"].is # "missing"
    <3>1. Stated(event, order, statement)["title"].is # "missing"
      BY <1>2, StatedType
    <3>2. "title" \in DOMAIN b => Broken(b["title"]).is # "missing"
      BY <1>4, BrokenType
    <3> QED
      BY <1>5, <3>1, <3>2 DEF Field
  <2> QED
    BY <2>1, <2>2 DEF Faithful
<1>8. TypeOK
  <2>1. NoAmounts \in [Field -> Int] /\ NoEntry \in [DOMAIN NoEntry -> Int]
    BY DEF NoAmounts, NoEntry
  <2>2. given \in GivenType
    BY <1>2, <1>3, GivenTyped
  <2>3. instrument \in [isin : Security \cup {"none"}, asset : Asset]
    BY <1>1 DEF NoInstrument, Asset
  <2> QED
    BY <1>1, <1>2, <1>3, <1>6, <2>1, <2>2, <2>3 DEF TypeOK, Stages
<1>10. GivenByBank /\ Instrumented
  <2>1. given = Without(off \cap {"payload", "icon", "name"}, Given(event, statement.security))
    BY <1>3 DEF Without
  <2> QED
    BY <1>1, <2>1 DEF GivenByBank, Instrumented
<1>9. Resolved /\ Complete /\ Entered /\ MissingNeverAborts
  BY <1>1 DEF Resolved, Complete, Entered, MissingNeverAborts, Aborting
<1> QED
  BY <1>7, <1>8, <1>9, <1>10 DEF ModelInv

(***************************************************************************)
(* Each step.                                                              *)
(***************************************************************************)
LEMMA ResolveEventInv == ModelInv /\ ResolveEvent => ModelInv'
<1> SUFFICES ASSUME ModelInv, ResolveEvent PROVE ModelInv'
  OBVIOUS
<1>1. /\ stage = "event" /\ verdict = "none"
      /\ \/ stage' = "normalize" /\ verdict' = "none"
         \/ stage' = "done" /\ verdict' = "event type unsupported"
  BY DEF ModelInv, TypeOK, ResolveEvent, End, Verdict, Aborting
<1>2. UNCHANGED <<event, order, header, time, tables, text, given, statement, type, model,
                  instrument, entry>>
  BY DEF ResolveEvent, response
<1>3. TypeOK'
  BY <1>1, <1>2 DEF ModelInv, TypeOK, Stages, Verdict, Aborting
<1>4. Faithful'
  BY <1>2 DEF ModelInv, Faithful, Reads, Stated, TotalOf, Buys
<1>5. Resolved' /\ Complete' /\ Entered' /\ MissingNeverAborts'
  BY <1>1, <1>2 DEF ModelInv, Resolved, Complete, Entered, MissingNeverAborts, Aborting
<1>6. GivenByBank' /\ Instrumented'
  BY <1>1, <1>2 DEF ModelInv, GivenByBank, Instrumented
<1> QED
  BY <1>3, <1>4, <1>5, <1>6 DEF ModelInv

\* The order type is lost together with all rows; what is read after that does not
\* depend on it.
LEMMA NormalizeInv == ModelInv /\ Normalize => ModelInv'
<1> SUFFICES ASSUME ModelInv, Normalize PROVE ModelInv'
  OBVIOUS
<1>1. /\ stage = "normalize" /\ verdict = "none" /\ type = "none"
      /\ \/ stage' = "type" /\ verdict' = "none"
         \/ stage' = "done" /\ verdict' = "normalize failed" /\ ~header
  BY DEF ModelInv, TypeOK, Resolved, Normalize, End, Verdict, Aborting
<1>2. UNCHANGED <<event, header, time, tables, statement, type, model, instrument, entry>>
  BY DEF Normalize
<1>3. CASE tables
  <2>1. UNCHANGED <<order, text, given>>
    BY <1>3 DEF Normalize
  <2>2. TypeOK'
    BY <1>1, <1>2, <2>1 DEF ModelInv, TypeOK, Stages, Verdict, Aborting
  <2>3. Faithful'
    BY <1>2, <2>1 DEF ModelInv, Faithful, Reads
  <2>4. GivenByBank' /\ Instrumented'
    BY <1>1, <1>2, <2>1 DEF ModelInv, GivenByBank, Instrumented
  <2> QED
    BY <1>1, <1>2, <2>1, <2>2, <2>3, <2>4
    DEF ModelInv, Resolved, Complete, Entered, MissingNeverAborts, Aborting
<1>4. CASE ~tables
  <2>1. /\ order' = "missing"
        /\ text' = [f \in Field |-> IF f \in TableField THEN Broken("missing") ELSE text[f]]
        /\ given' = Without({"name"}, given)
    BY <1>4 DEF Normalize
  <2>2. text' \in [Field -> Text]
    BY <2>1, BrokenType DEF ModelInv, TypeOK
  <2>8. GivenByBank' /\ given' \in GivenType
    <3>1. PICK off \in SUBSET {"payload", "icon", "name"} :
            given = Without(off, Given(event, statement.security))
      BY DEF ModelInv, GivenByBank
    <3>2. statement \in Statements
      BY DEF ModelInv, TypeOK
    <3>3. given' = Without(off \cup {"name"}, Given(event, statement.security))
      BY <2>1, <3>1, <3>2, GivenTyped
    <3>4. off \cup {"name"} \in SUBSET {"payload", "icon", "name"}
      OBVIOUS
    <3>5. given' \in GivenType
      BY <3>2, <3>3, GivenTyped
    <3> QED
      BY <1>2, <3>3, <3>4, <3>5 DEF GivenByBank
  <2>9. Instrumented'
    BY <1>1, <1>2 DEF Instrumented
  <2>3. TypeOK'
    BY <1>1, <1>2, <2>1, <2>2, <2>8 DEF ModelInv, TypeOK, Stages, Verdict, Aborting, OrderText
  <2>4. text'["title"] = text["title"]
    BY <2>1 DEF Field, TableField
  <2>5. \A f \in Field : f # "title" => text'[f].is = "missing"
    BY <2>1, BrokenType DEF Field
  <2>6. event # Order => Stated(event, "missing", statement)["title"]
                            = Stated(event, order, statement)["title"]
    <3>1. \A o : Stated(event, o, statement)["title"]
                    = Number(event, "title", TotalOf(event, o, statement))
      BY DEF Stated, Field, TableField
    <3>2. event # Order => TotalOf(event, "missing", statement) = TotalOf(event, order, statement)
      BY DEF TotalOf, Buys
    <3> QED
      BY <3>1, <3>2
  <2>7. Faithful'
    <3> SUFFICES ASSUME NEW f \in Field, text'[f].is = "number", f = "title" => event # Order
                 PROVE  text'[f] = Stated(event, "missing", statement)[f]
      BY <1>2, <2>1, <2>4 DEF ModelInv, Faithful, Reads
    <3>1. f = "title"
      BY <2>5
    <3> QED
      BY <3>1, <2>4, <2>6 DEF ModelInv, Faithful, Reads, Field
  <2> QED
    BY <1>1, <1>2, <2>3, <2>7, <2>8, <2>9
    DEF ModelInv, Resolved, Complete, Entered, MissingNeverAborts, Aborting
<1> QED
  BY <1>3, <1>4

LEMMA ResolveTypeInv == ModelInv /\ ResolveType => ModelInv'
<1> SUFFICES ASSUME ModelInv, ResolveType PROVE ModelInv'
  OBVIOUS
<1>1. /\ stage = "type" /\ verdict = "none" /\ type = "none"
      /\ \/ stage' = "done" /\ verdict' = "type unsupported" /\ type' = type
         \/ stage' = "build" /\ verdict' = "none" /\ type' \in Detected
  BY DEF ModelInv, TypeOK, Resolved, ResolveType, End, Verdict, Aborting
<1>2. UNCHANGED <<event, order, header, time, tables, text, given, statement, model,
                  instrument, entry>>
  BY DEF ResolveType, response
<1>3. Detected' = Detected /\ Detected \subseteq Type
  BY <1>2 DEF Detected, Detects, Contains
<1>4. TypeOK'
  BY <1>1, <1>2, <1>3 DEF ModelInv, TypeOK, Stages, Verdict, Aborting
<1>5. Faithful'
  BY <1>2 DEF ModelInv, Faithful, Reads
<1>6. Resolved' /\ Complete' /\ Entered' /\ MissingNeverAborts'
  BY <1>1, <1>2, <1>3
  DEF ModelInv, Resolved, Complete, Entered, MissingNeverAborts, Aborting
<1>7. GivenByBank' /\ Instrumented'
  BY <1>1, <1>2 DEF ModelInv, GivenByBank, Instrumented
<1> QED
  BY <1>4, <1>5, <1>6, <1>7 DEF ModelInv

FieldName == {"time", "shares", "rate", "commission", "total", "yield", "profit", "title",
              "total or title"}

LEMMA FieldsType ==
  ASSUME NEW t \in Type
  PROVE  Fields(t) \in Seq(FieldName) /\ Len(Fields(t)) <= 7
<1> DEFINE Short(s) == s \in Seq(FieldName) /\ Len(s) <= 7
<1>1. PurchaseFields \in Seq(FieldName) /\ Len(PurchaseFields) = 5
  BY DEF PurchaseFields, FieldName
<1>2. <<"yield", "profit">> \in Seq(FieldName) /\ Len(<<"yield", "profit">>) = 2
  BY DEF FieldName
<1>3. Short(PurchaseFields \o <<"yield", "profit">>)
  <2>1. ASSUME NEW a \in Seq(FieldName), NEW b \in Seq(FieldName), Len(a) = 5, Len(b) = 2
        PROVE  Short(a \o b)
    <3>1. a \o b \in Seq(FieldName) /\ Len(a \o b) = Len(a) + Len(b)
      BY ConcatProperties
    <3> QED
      BY <2>1, <3>1
  <2> QED
    BY <1>1, <1>2, <2>1
<1>4. Short(PurchaseFields)
  BY <1>1
<1>5. Short(<<"time", "title">>)
  BY DEF FieldName
<1>6. Short(<<"time", "total or title">>)
  BY DEF FieldName
<1> HIDE DEF Short
<1>7. Short(Fields(t))
  BY <1>3, <1>4, <1>5, <1>6, Zenon DEF Fields
<1> QED
  BY <1>7 DEF Short

\* The field a builder stops at is one that fails.
LEMMA FirstFails ==
  ASSUME type \in Type, Failing(type) # {}
  PROVE  \E f \in FieldName : f = Fields(type)[Min(Failing(type))] /\ Fails(f)
<1>1. Fields(type) \in Seq(FieldName) /\ Len(Fields(type)) <= 7
  BY FieldsType
<1>2. /\ DOMAIN Fields(type) \subseteq 1..7
      /\ \A k \in DOMAIN Fields(type) : Fields(type)[k] \in FieldName
  BY <1>1
<1>3. ASSUME NEW S \in SUBSET (1..7), S # {} PROVE \E k \in S : \A j \in S : k <= j
  <2>1. S \subseteq {1, 2, 3, 4, 5, 6, 7}
    OBVIOUS
  <2>2. CASE 1 \in S
    BY <2>1, <2>2
  <2>3. CASE 1 \notin S /\ 2 \in S
    BY <2>1, <2>3
  <2>4. CASE 1 \notin S /\ 2 \notin S /\ 3 \in S
    BY <2>1, <2>4
  <2>5. CASE 1 \notin S /\ 2 \notin S /\ 3 \notin S /\ 4 \in S
    BY <2>1, <2>5
  <2>6. CASE S \subseteq {5, 6, 7}
    <3>1. CASE 5 \in S
      BY <2>6, <3>1
    <3>2. CASE 5 \notin S /\ 6 \in S
      BY <2>6, <3>2
    <3>3. CASE 5 \notin S /\ 6 \notin S
      <4>1. S = {7}
        BY <1>3, <2>6, <3>3
      <4> QED
        BY <4>1
    <3> QED
      BY <3>1, <3>2, <3>3
  <2> QED
    BY <2>1, <2>2, <2>3, <2>4, <2>5, <2>6
<1>4. Failing(type) \in SUBSET (1..7)
  BY <1>2 DEF Failing
<1>5. \E k \in Failing(type) : \A j \in Failing(type) : k <= j
  BY <1>3, <1>4
<1>6. Min(Failing(type)) \in Failing(type)
  BY <1>5 DEF Min
<1> QED
  BY <1>2, <1>6 DEF Failing

LEMMA BuiltType ==
  ASSUME TypeOK, type \in Type
  PROVE  Built(type) \in [Field -> Int]
<1>1. ASSUME NEW f \in Field PROVE Value(f) \in Int
  <2>1. text[f].n \in Nat
    BY DEF TypeOK, Text
  <2>2. text[f].n \in Int /\ -text[f].n \in Int /\ 0 \in Int
    BY <2>1
  <2> QED
    BY <2>2, Zenon DEF Value
<1>2. "title" \in Field
  BY DEF Field
<1> QED
  BY <1>1, <1>2 DEF Built

LEMMA BuildInv == ModelInv /\ Build => ModelInv'
<1> SUFFICES ASSUME ModelInv, Build PROVE ModelInv'
  OBVIOUS
<1>1. stage = "build" /\ verdict = "none" /\ type \in Type /\ entry = NoEntry
  BY DEF ModelInv, TypeOK, Build, Verdict, Aborting
<1>2. UNCHANGED <<event, order, header, time, tables, text, given, statement, type, entry>>
  BY DEF Build, response
<1>3. Failing(type)' = Failing(type) /\ Built(type)' = Built(type) /\ Detected' = Detected
  BY <1>2 DEF Failing, Fails, Reads, Built, Taken, Value, Detected, Detects, Contains
<1>4. Faithful' /\ GivenByBank'
  BY <1>2 DEF ModelInv, Faithful, Reads, GivenByBank
<1>5. CASE Failing(type) # {}
  <2> DEFINE f == Fields(type)[Min(Failing(type))]
  <2>1. stage' = "done" /\ verdict' = Error(f) /\ model' = model /\ instrument' = instrument
    BY <1>5 DEF Build, End
  <2>2. verdict' \in {"insufficient data", "build failed"}
    BY <2>1 DEF Error
  <2>3. Fails(f) /\ f \in FieldName
    BY <1>1, <1>5, FirstFails
  <2>4. MissingNeverAborts'
    <3> SUFFICES ASSUME verdict' = "build failed", time
                 PROVE  \E g \in Field : /\ text[g].is \in {"no number", "malformed"}
                                        /\ text[g] # Stated(event, order, statement)[g]
      BY <1>2, <2>2 DEF MissingNeverAborts, Aborting
    <3>1. f \in TableField => text[f].is # "missing"
      BY <2>1 DEF Error
    <3>2. \A g \in Field : text[g].is \in {"number", "no number", "malformed", "missing"}
      BY DEF ModelInv, TypeOK, Text
    <3>s. \A g \in Field :
            /\ g # "commission" => Stated(event, order, statement)[g].is = "number"
            /\ Stated(event, order, statement)[g].is # "malformed"
      BY StatedIs DEF ModelInv, TypeOK
    <3>3. CASE f = "total or title"
      <4>1. "title" \in Field /\ text["title"].is \notin {"number", "missing"}
        BY <2>3, <3>3 DEF Fails, Reads, Field, ModelInv, Faithful
      <4> QED
        BY <3>2, <3>s, <4>1
    <3>4. CASE f # "total or title"
      <4>1. f \in Field /\ text[f].is # "number" /\ text[f].is # "missing"
        BY <2>3, <3>1, <3>4 DEF Fails, Reads, FieldName, Field, TableField, ModelInv, Faithful
      <4>2. f = "commission" => text[f].is = "malformed"
        BY <2>3 DEF Fails
      <4> HIDE DEF f
      <4> QED
        BY <3>2, <3>s, <4>1, <4>2
    <3> QED
      BY <3>3, <3>4
  <2>5. TypeOK'
    BY <1>1, <1>2, <2>1, <2>2 DEF ModelInv, TypeOK, Stages, Verdict, Aborting
  <2> QED
    BY <1>1, <1>2, <1>3, <1>4, <2>1, <2>2, <2>4, <2>5
    DEF ModelInv, Resolved, Complete, Entered, Instrumented
<1>6. CASE Failing(type) = {}
  <2>1. /\ stage' = "make" /\ verdict' = "none"
        /\ model' = Built(type) /\ instrument' = Instrument(given)
    BY <1>1, <1>6 DEF Build
  <2>4. instrument' \in [isin : Security \cup {"none"}, asset : Asset]
    BY <2>1, InstrumentType DEF ModelInv, TypeOK
  <2>2. Built(type) \in [Field -> Int]
    BY <1>1, BuiltType DEF ModelInv
  <2>3. TypeOK'
    BY <1>1, <1>2, <2>1, <2>2, <2>4 DEF ModelInv, TypeOK, Stages, Verdict, Aborting
  <2> QED
    BY <1>1, <1>2, <1>3, <1>4, <1>6, <2>1, <2>3
    DEF ModelInv, Resolved, Complete, Entered, MissingNeverAborts, Aborting, Instrumented
<1> QED
  BY <1>5, <1>6

LEMMA RowType ==
  ASSUME NEW t, NEW m \in [Field -> Int]
  PROVE  Row(t, m) \in [DOMAIN NoEntry -> Int]
<1>1. /\ m["shares"] \in Int /\ -m["shares"] \in Int /\ m["total"] \in Int /\ m["profit"] \in Int
      /\ m["commission"] \in Int /\ m["tax"] \in Int /\ 0 \in Int
  BY DEF Field, TableField
<1>2. /\ m["total"] - m["commission"] \in Int
      /\ -(m["total"] - m["profit"] + m["commission"]) \in Int
  BY <1>1
<1>3. Invested(t, m) \in Int
  BY <1>1, <1>2, Zenon DEF Invested
<1>4. /\ (IF t = "Sale" THEN -m["shares"] ELSE m["shares"]) \in Int
      /\ (IF t = "Dividends" THEN m["total"] ELSE m["profit"]) \in Int
      /\ (IF Debited(t) THEN m["total"] ELSE 0) \in Int
      /\ (IF Debited(t) THEN 0 ELSE m["total"]) \in Int
      /\ (IF t \in {"Sale", "Saveback", "Deposit", "Interest payout"} THEN m["tax"] ELSE 0) \in Int
  BY <1>1, Zenon
<1>5. Row(t, m) \in [shares : Int, profit : Int, commission : Int, debit : Int, credit : Int,
                     tax : Int, invested : Int]
  BY <1>1, <1>3, <1>4 DEF Row
<1> QED
  BY <1>5 DEF NoEntry

LEMMA MakeInv == ModelInv /\ Make => ModelInv'
<1> SUFFICES ASSUME ModelInv, Make PROVE ModelInv'
  OBVIOUS
<1>1. stage = "make" /\ stage' = "done" /\ verdict' = "nil" /\ entry' = Row(type, model)
  BY DEF Make, End
<1>2. UNCHANGED <<event, order, header, time, tables, text, given, statement, type, model,
                  instrument>>
  BY DEF Make, response
<1>3. Failing(type)' = Failing(type) /\ Built(type)' = Built(type) /\ Detected' = Detected
  BY <1>2 DEF Failing, Fails, Reads, Built, Taken, Value, Detected, Detects, Contains
<1>4. Row(type, model)' = Row(type, model)
  BY <1>2 DEF Row
<1>5. Faithful' /\ GivenByBank' /\ Instrumented'
  BY <1>1, <1>2 DEF ModelInv, Faithful, Reads, GivenByBank, Instrumented
<1>6. TypeOK'
  BY <1>1, <1>2, RowType DEF ModelInv, TypeOK, Stages, Verdict, Aborting
<1> QED
  BY <1>1, <1>2, <1>3, <1>4, <1>5, <1>6
  DEF ModelInv, Resolved, Complete, Entered, MissingNeverAborts, Aborting

LEMMA StutterInv == ModelInv /\ UNCHANGED vars => ModelInv'
<1> SUFFICES ASSUME ModelInv, UNCHANGED vars PROVE ModelInv'
  OBVIOUS
<1>1. UNCHANGED <<stage, event, order, header, time, tables, text, given, statement, type,
                  model, instrument, entry, verdict>>
  BY DEF vars, response
<1>2. Failing(type)' = Failing(type) /\ Built(type)' = Built(type) /\ Detected' = Detected
  BY <1>1 DEF Failing, Fails, Reads, Built, Taken, Value, Detected, Detects, Contains
<1>3. TypeOK' /\ Faithful' /\ GivenByBank' /\ Instrumented'
  BY <1>1 DEF ModelInv, TypeOK, Faithful, Reads, GivenByBank, Instrumented
<1> QED
  BY <1>1, <1>2, <1>3 DEF ModelInv, Resolved, Complete, Entered, MissingNeverAborts

\* The invariant holds initially and every step of ProcessTransactionResponse keeps it.
THEOREM Inductive == Spec => []ModelInv
<1>1. ModelInv /\ [Next]_vars => ModelInv'
  BY ResolveEventInv, NormalizeInv, ResolveTypeInv, BuildInv, MakeInv, StutterInv DEF Next
<1> QED
  BY InitInv, <1>1, PTL DEF Spec

(***************************************************************************)
(* What a finished response gives.                                         *)
(***************************************************************************)
\* Every step keeps the types: a type is resolved before anything is built, and only a
\* response without error has a row.
THEOREM TypeCorrect == Spec => []TypeOK
  BY Inductive, PTL DEF ModelInv

\* No two detectors accept a response.
THEOREM UniqueType == Spec => []TypeIsUnique
<1>1. ModelInv => TypeIsUnique
  BY UniqueIfTyped DEF ModelInv
<1> QED
  BY Inductive, <1>1, PTL

\* Rows that are missing never end the run.
THEOREM MissingSkips == Spec => []MissingNeverAborts
  BY Inductive, PTL DEF ModelInv

LEMMA SaleFields ==
  LET s == PurchaseFields \o <<"yield", "profit">> IN
  /\ {2, 3, 5} \subseteq DOMAIN s
  /\ s[2] = "shares" /\ s[3] = "rate" /\ s[5] = "total"
<1> DEFINE tail == <<"yield", "profit">>
<1>1. /\ PurchaseFields \in Seq(FieldName) /\ Len(PurchaseFields) = 5
      /\ PurchaseFields[2] = "shares" /\ PurchaseFields[3] = "rate" /\ PurchaseFields[5] = "total"
  BY DEF PurchaseFields, FieldName
<1>2. tail \in Seq(FieldName) /\ Len(tail) = 2
  BY DEF FieldName
<1> HIDE DEF tail
<1>3. /\ PurchaseFields \o tail \in Seq(FieldName) /\ Len(PurchaseFields \o tail) = 7
      /\ \A i \in 1..5 : (PurchaseFields \o tail)[i] = PurchaseFields[i]
  <2>1. ASSUME NEW a \in Seq(FieldName), NEW b \in Seq(FieldName), Len(a) = 5, Len(b) = 2
        PROVE  /\ a \o b \in Seq(FieldName) /\ Len(a \o b) = 7
               /\ \A i \in 1..5 : (a \o b)[i] = a[i]
    <3>1. /\ a \o b \in Seq(FieldName) /\ Len(a \o b) = Len(a) + Len(b)
          /\ \A i \in 1..Len(a) + Len(b) :
               (a \o b)[i] = IF i <= Len(a) THEN a[i] ELSE b[i - Len(a)]
      BY ConcatProperties
    <3> QED
      BY <2>1, <3>1
  <2> QED
    BY <1>1, <1>2, <2>1
<1>4. {2, 3, 5} \subseteq DOMAIN (PurchaseFields \o tail)
  BY <1>3
<1> QED
  BY <1>1, <1>3, <1>4 DEF tail

\* A row is made only when none of the builder's fields failed.
LEMMA NoneFails ==
  ASSUME ModelInv, verdict = "nil"
  PROVE  /\ type \in Type
         /\ type \in {"Deposit", "Withdrawal"} => Reads("title")
         /\ type = "Interest payout" => Reads("total") \/ Reads("title")
         /\ type \notin {"Deposit", "Withdrawal", "Interest payout"} =>
              Reads("shares") /\ Reads("rate") /\ Reads("total")
<1>1. type \in Type /\ \A k \in DOMAIN Fields(type) : ~Fails(Fields(type)[k])
  BY DEF ModelInv, Complete, Failing
<1>2. CASE type \in {"Deposit", "Withdrawal"}
  <2>1. Fields(type) = <<"time", "title">>
    BY <1>2 DEF Fields
  <2>2. ~Fails("title")
    BY <1>1, <2>1
  <2> QED
    BY <1>1, <1>2, <2>2 DEF Fails
<1>3. CASE type = "Interest payout"
  <2>1. Fields(type) = <<"time", "total or title">>
    BY <1>3 DEF Fields
  <2>2. 2 \in DOMAIN <<"time", "total or title">> /\ <<"time", "total or title">>[2] = "total or title"
    OBVIOUS
  <2>3. ~Fails("total or title")
    BY <1>1, <2>1, <2>2, Zenon
  <2> QED
    BY <1>1, <1>3, <2>3 DEF Fails
<1>4. CASE type \notin {"Deposit", "Withdrawal", "Interest payout"}
  <2>1. /\ 2 \in DOMAIN Fields(type) /\ Fields(type)[2] = "shares"
        /\ 3 \in DOMAIN Fields(type) /\ Fields(type)[3] = "rate"
        /\ 5 \in DOMAIN Fields(type) /\ Fields(type)[5] = "total"
    <3>1. CASE type = "Sale"
      BY <3>1, SaleFields DEF Fields
    <3>2. CASE type # "Sale"
      <4>1. Fields(type) = PurchaseFields
        BY <1>1, <1>4, <3>2 DEF Fields, Type
      <4> QED
        BY <4>1 DEF PurchaseFields
    <3> QED
      BY <3>1, <3>2
  <2>2. ~Fails("shares") /\ ~Fails("rate") /\ ~Fails("total")
    BY <1>1, <2>1
  <2> QED
    BY <1>1, <1>4, <2>2 DEF Fails
<1> QED
  BY <1>2, <1>3, <1>4

\* No amount of a row stands for a text that was not read, and its instrument is that of
\* the trade.
THEOREM NoInvention == Spec => []NothingInvented
<1>1. ASSUME ModelInv, verdict = "nil"
      PROVE  NothingInvented
  <2>1. statement \in Statements /\ GivenByBank /\ instrument = Instrument(given)
    BY <1>1 DEF ModelInv, TypeOK, Instrumented
  <2>2. SecurityIsTraded
    BY <2>1, TradedIfGiven
  <2> QED
    BY <1>1, <2>2, NoneFails DEF NothingInvented
<1>2. ModelInv => NothingInvented
  BY <1>1 DEF NothingInvented
<1> QED
  BY Inductive, <1>2, PTL

\* A field that was read has the value the bank stated, and its sign.
LEMMA ReadValue ==
  ASSUME ModelInv, NEW f \in Field \ {"shares", "tax", "title"}, Reads(f),
         NEW n \in Int, Stated(event, order, statement)[f] = Number(event, f, n),
         event # "INTEREST_PAYOUT" \/ ~Grouped(Abs(n))
  PROVE  Value(f) = n
<1>1. text[f] = Number(event, f, n)
  BY DEF ModelInv, Faithful
<1> QED
  BY <1>1, NumberType DEF Value

LEMMA ReadTitle ==
  ASSUME ModelInv, Reads("title"), event # Order, Understood
  PROVE  Value("title") = TotalOf(event, order, statement)
<1>1. TotalOf(event, order, statement) \in Nat
  BY TotalType DEF ModelInv, TypeOK
<1>2. text["title"] = Number(event, "title", TotalOf(event, order, statement))
  BY DEF ModelInv, Faithful, Stated, Field, TableField
<1>3. Abs(TotalOf(event, order, statement)) = TotalOf(event, order, statement)
  BY <1>1 DEF Abs
<1> QED
  BY <1>1, <1>2, <1>3, NumberType DEF Value, Understood

\* The model's total is the money that moved, wherever it was read.
LEMMA TotalIsStated ==
  ASSUME ModelInv, verdict = "nil", Understood
  PROVE  model["total"] = TotalOf(event, order, statement)
<1> DEFINE total == TotalOf(event, order, statement)
<1>1. total \in Nat /\ Stated(event, order, statement)["total"] = Number(event, "total", total)
  BY TotalType DEF ModelInv, TypeOK, Stated, Field, TableField
<1>2. Reads("total") => Value("total") = total
  <2>1. Abs(total) = total /\ (event # "INTEREST_PAYOUT" \/ ~Grouped(total))
    BY <1>1 DEF Abs, Understood
  <2>2. "total" \in Field \ {"shares", "tax", "title"}
    BY DEF Field, TableField
  <2> HIDE DEF total
  <2> QED
    BY <1>1, <2>1, <2>2, ReadValue
<1>3. type \in Type /\ Detects(type) /\ model = Built(type)
  BY DEF ModelInv, Complete, Resolved, Detected, Type
<1>4. model["total"] = IF "title" \in Taken(type) THEN Value("title")
                       ELSE IF "total" \in Taken(type) THEN Value("total") ELSE 0
  <2>1. "total" \in Field /\ "total" # "title"
    BY DEF Field, TableField
  <2>2. Built(type)["total"] = CASE "title" \in Taken(type) -> Value("title")
                                 [] "total" \in Taken(type) -> Value("total")
                                 [] OTHER -> 0
    BY <2>1 DEF Built
  <2>3. "title" \in Taken(type) => "total" \notin Taken(type)
    BY <1>3 DEF Taken, Type
  <2> QED
    BY <1>3, <2>2, <2>3
<1>5. CASE type \in {"Deposit", "Withdrawal"}
  <2>1. Reads("title") /\ event # Order
    BY <1>3, <1>5, NoneFails DEF Detects, Inbound, Outbound, Order
  <2> QED
    BY <1>4, <1>5, <2>1, ReadTitle DEF Taken
<1>6. CASE type = "Interest payout"
  <2>1. event # Order /\ (Reads("total") \/ Reads("title"))
    BY <1>3, <1>6, NoneFails DEF Detects, Interest, Order
  <2>2. Taken(type) = {"tax", IF Reads("total") THEN "total" ELSE "title"}
    BY <1>6 DEF Taken
  <2> QED
    BY <1>2, <1>4, <2>1, <2>2, ReadTitle
<1>7. CASE type \notin {"Deposit", "Withdrawal", "Interest payout"}
  <2>1. Reads("total")
    BY <1>7, NoneFails
  <2>2. "total" \in Taken(type) /\ "title" \notin Taken(type)
    BY <1>7 DEF Taken
  <2> QED
    BY <1>2, <1>4, <2>1, <2>2
<1> QED
  BY <1>5, <1>6, <1>7

\* A type is debited exactly when the money of its events goes out.
LEMMA DebitedIsOut ==
  ASSUME type \in Type, Detects(type), order \in OrderText
  PROVE  Debited(type) <=> MoneyOut
<1>1. /\ Contains(order, "Kauf") <=> order = "Kauf"
      /\ Contains(order, "Verkauf") => order # "Kauf"
  BY DEF Contains, Parts, OrderText
<1> QED
  BY <1>1 DEF Type, Detects, Debited, MoneyOut, Buys, Plans, RoundUps, Savebacks, Inbound,
              Outbound, Interest, Dividends, Order

\* The row moves the money the way the bank did.
THEOREM MoneyIsBooked == Spec => []BooksMoney
<1>1. ASSUME ModelInv, verdict = "nil", Understood PROVE BooksMoney
  <2> DEFINE total == TotalOf(event, order, statement)
  <2>1. total \in Nat /\ model["total"] = total
    BY <1>1, TotalType, TotalIsStated DEF ModelInv, TypeOK
  <2>2. Debited(type) <=> MoneyOut
    BY <1>1, DebitedIsOut DEF ModelInv, TypeOK, Complete, Resolved, Detected, Type
  <2>3. entry.debit = (IF MoneyOut THEN total ELSE 0) /\ entry.credit = (IF MoneyOut THEN 0 ELSE total)
    <3>1. entry = Row(type, model)
      BY <1>1 DEF ModelInv, Entered
    <3>2. CASE MoneyOut
      BY <2>1, <2>2, <3>1, <3>2 DEF Row
    <3>3. CASE ~MoneyOut
      BY <2>1, <2>2, <3>1, <3>3 DEF Row
    <3> QED
      BY <3>2, <3>3
  <2> HIDE DEF total
  <2>4. /\ entry.debit = 0 \/ entry.credit = 0
        /\ entry.credit - entry.debit = IF MoneyOut THEN -total ELSE total
    BY <2>1, <2>3
  <2> QED
    BY <2>4 DEF BooksMoney, total
<1>2. ModelInv => BooksMoney
  BY <1>1 DEF BooksMoney
<1> QED
  BY Inductive, <1>2, PTL

\* A fee that is a word is a fee of zero.
LEMMA CommissionIsFee ==
  ASSUME ModelInv, text["commission"] = Stated(event, order, statement)["commission"],
         event # "INTEREST_PAYOUT"
  PROVE  Value("commission") = statement.fee
<1>1. statement.fee \in Nat
  BY Amounts DEF ModelInv, TypeOK
<1>2. text["commission"] = IF statement.fee = 0 THEN Broken("no number")
                            ELSE Number(event, "commission", statement.fee)
  BY DEF Stated, Field, TableField
<1>3. CASE statement.fee = 0
  BY <1>2, <1>3, BrokenType DEF Value, Reads
<1>4. CASE statement.fee # 0
  <2>1. text["commission"] = Number(event, "commission", statement.fee)
    BY <1>2, <1>4
  <2> QED
    BY <1>1, <2>1, NumberType DEF Value, Reads
<1> QED
  BY <1>3, <1>4

\* A purchase invests the cost of its shares, a sale takes it back less the tax.
THEOREM InvestmentIsCost == Spec => []InvestedIsCost
<1>1. ASSUME ModelInv, verdict = "nil", AllRead,
             text["commission"] = Stated(event, order, statement)["commission"]
      PROVE  /\ type = "Purchase" => entry.invested = Gross(statement)
             /\ type = "Sale" =>
                  entry.invested = -(statement.shares * statement.cost - statement.tax)
  <2>1. /\ {statement.shares, statement.price, statement.cost, statement.fee, statement.tax,
            Gross(statement)} \subseteq Nat
        /\ Gain(statement) \in Int
    BY <1>1, Amounts DEF ModelInv, TypeOK
  <2>2. entry.invested = Invested(type, model) /\ model = Built(type)
        /\ type \in Type /\ Detects(type) /\ order \in OrderText
    <3>1. entry = Row(type, model)
      BY <1>1 DEF ModelInv, Entered
    <3>2. model = Built(type) /\ type \in Type /\ Detects(type)
      BY <1>1 DEF ModelInv, Complete, Resolved, Detected, Type
    <3>3. Row(type, model).invested = Invested(type, model)
      BY DEF Row
    <3> QED
      BY <1>1, <3>1, <3>2, <3>3 DEF ModelInv, TypeOK
  <2>0. type \in {"Purchase", "Sale"} => event # "INTEREST_PAYOUT"
    BY <2>2 DEF Detects, Plans, Order
  <2>3. type \in {"Purchase", "Sale"} => model["total"] = TotalOf(event, order, statement)
    BY <1>1, <2>0, TotalIsStated DEF Understood
  <2>4. type \in {"Purchase", "Sale"} => model["commission"] = statement.fee
    <3>1. "commission" \in Field
      BY DEF Field, TableField
    <3>2. type \in {"Purchase", "Sale"} => Built(type)["commission"] = Value("commission")
      BY <3>1 DEF Built, Taken
    <3> QED
      BY <1>1, <2>0, <2>2, <3>2, CommissionIsFee
  <2>5. /\ Contains(order, "Kauf") <=> order = "Kauf"
        /\ Contains(order, "Verkauf") => order # "Kauf"
    BY <2>2 DEF Contains, Parts, OrderText
  <2>6. CASE type = "Purchase"
    <3>1. Buys(event, order)
      BY <2>2, <2>5, <2>6 DEF Detects, Buys
    <3>2. model["total"] = Gross(statement) + statement.fee
      BY <2>3, <2>6, <3>1 DEF TotalOf
    <3>3. entry.invested = model["total"] - model["commission"]
      BY <2>2, <2>6 DEF Invested
    <3> QED
      BY <2>1, <2>4, <2>6, <3>2, <3>3
  <2>7. CASE type = "Sale"
    <3>1. ~Buys(event, order)
      BY <2>2, <2>5, <2>7 DEF Detects, Buys, Plans, RoundUps, Savebacks, Order
    <3>2. model["total"] = Gross(statement) - statement.fee - statement.tax
      BY <2>3, <2>7, <3>1 DEF TotalOf
    <3>3. model["profit"] = Gain(statement)
      <4>1. "profit" \in Field \ {"shares", "tax", "title"}
        BY DEF Field, TableField
      <4>2. Stated(event, order, statement)["profit"] = Number(event, "profit", Gain(statement))
        BY DEF Stated, Field, TableField
      <4>3. Value("profit") = Gain(statement)
        BY <1>1, <2>1, <4>1, <4>2, <2>0, <2>7, ReadValue DEF AllRead
      <4>4. Built(type)["profit"] = Value("profit")
        BY <2>7, <4>1 DEF Built, Taken
      <4> QED
        BY <2>2, <4>3, <4>4
    <3>4. entry.invested = -(model["total"] - model["profit"] + model["commission"])
      BY <2>2, <2>7 DEF Invested
    <3>5. Gross(statement) - Gain(statement) = statement.shares * statement.cost
      BY <2>1 DEF Gross, Gain
    <3>6. statement.shares * statement.cost \in Nat
      BY <2>1
    <3> QED
      BY <2>1, <2>4, <2>7, <3>2, <3>3, <3>4, <3>5, <3>6
  <2> QED
    BY <2>6, <2>7
<1>2. ModelInv => InvestedIsCost
  BY <1>1 DEF InvestedIsCost
<1> QED
  BY Inductive, <1>2, PTL
=============================================================================
